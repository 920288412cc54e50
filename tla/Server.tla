------------------------------- MODULE Server -------------------------------
(***************************************************************************)
(* The way of a request through the service: the REST gateway with its     *)
(* response envelope, the gateway's call to the service's gRPC server, the *)
(* chain of interceptors, the handler and the answer's way back.           *)
(*                                                                         *)
(* Attempts are HTTP requests that repeat one operation; a party that is   *)
(* not modelled may carry the operation out as well.  Of the domain there  *)
(* is only who carried it out: who inserted, or deleted, the user's row,   *)
(* or exchanged the refresh token.                                         *)
(***************************************************************************)
EXTENDS Naturals, Sequences

CONSTANTS Attempts,
          Requests,    \* the requests that may be made
          LogLevel,    \* debug, info, warn or error
          ConfiguredTimeout,   \* of the server, in seconds; 0 when it is not set
          Nobody, Other

ASSUME ServerAssumption ==
  /\ LogLevel \in {"debug", "info", "warn", "error"} /\ ConfiguredTimeout \in Nat
  /\ {Nobody, Other} \cap Attempts = {}

VARIABLES
  request,    \* method, malformed part, bearer token, user id, X-Request-ID, ...
  http,       \* where each attempt's HTTP exchange is
  call,       \* where its gRPC call is in the server
  rpcCtx,     \* the context of the handler: live, deadline or canceled
  answer,     \* the HTTP response, or Nobody
  log,        \* the entries written about the call
  doer        \* who carried the operation out

serverVars == <<request, http, call, rpcCtx, answer, log, doer>>

-----------------------------------------------------------------------------
(* Routes and services *)

\* Verb, path and the method the gateway calls.
UserRoutes == {
  <<"GET", "/api/v1/users/{id}", "GetUser">>, <<"POST", "/api/v1/users", "CreateUser">>,
  <<"PATCH", "/api/v1/users/{id}", "UpdateUser">>, <<"DELETE", "/api/v1/users/{id}", "DeleteUser">> }

AuthRoutes == {
  <<"POST", "/api/v1/auth/login", "Login">>, <<"POST", "/api/v1/auth/refresh", "Refresh">>,
  <<"POST", "/api/v1/auth/logout", "Logout">> }

HealthRoutes == {
  <<"GET", "/healthz", "Check">>, <<"GET", "/health", "Check">>, <<"GET", "/readyz", "Ready">> }

Routes == UserRoutes \cup AuthRoutes \cup HealthRoutes

UserService == {"GetUser", "CreateUser", "UpdateUser", "DeleteUser"}
AuthService == {"Login", "Refresh", "Logout"}
HealthService == {"Check", "Ready"}

Services == UserService \cup AuthService \cup HealthService

ASSUME RequestsAssumption == \A r \in Requests : r.method \in Services

publicMethods == {"Login", "Refresh", "Logout", "CreateUser", "Check", "Ready"}

\* What the gateway decodes, and so may find malformed, before it calls.
GetUserDecodes == {"id"}
CreateUserDecodes == {"body"}
UpdateUserDecodes == {"body", "id"}
DeleteUserDecodes == {"id"}
LoginDecodes == {"body"}
RefreshDecodes == {"body"}
LogoutDecodes == {"body"}
HealthDecodes == {}

Decodes(method) ==
  CASE method = "GetUser" -> GetUserDecodes
    [] method = "CreateUser" -> CreateUserDecodes
    [] method = "UpdateUser" -> UpdateUserDecodes
    [] method = "DeleteUser" -> DeleteUserDecodes
    [] method = "Login" -> LoginDecodes
    [] method = "Refresh" -> RefreshDecodes
    [] method = "Logout" -> LogoutDecodes
    [] method \in HealthService -> HealthDecodes

\* A Grpc-Timeout header that does not parse fails AnnotateContext.
Malformed(r) == r.malformed \in Decodes(r.method) \cup {"Grpc-Timeout"}

-----------------------------------------------------------------------------
(* Codes *)

\* errorutil's codes; every other error is Internal.
toGRPCCode(code) ==
  CASE code \in {"AlreadyExists", "Conflict"} -> "AlreadyExists"
    [] code = "NotFound" -> "NotFound"
    [] code = "InvalidInput" -> "InvalidArgument"
    [] code = "Unauthorized" -> "Unauthenticated"
    [] code = "Forbidden" -> "PermissionDenied"
    [] code = "Precondition" -> "FailedPrecondition"
    [] OTHER -> "Internal"

HTTPStatusFromCode ==
  [OK |-> 200, Canceled |-> 499, InvalidArgument |-> 400, DeadlineExceeded |-> 504,
   NotFound |-> 404, AlreadyExists |-> 409, PermissionDenied |-> 403, Unauthenticated |-> 401,
   FailedPrecondition |-> 400, Internal |-> 500, Unavailable |-> 503]

Codes == DOMAIN HTTPStatusFromCode

-----------------------------------------------------------------------------
(* Request ids and the log *)

\* responseEnvelopeMiddleware sets the header when the client did not; the id
\* of the response is the header's.
ResponseID(k) == IF request.id = Nobody THEN k ELSE request.id

\* The values of the x-request-id metadata: Grpc-Metadata-X-Request-ID becomes
\* one too, and headers come in any order.
IncomingIDs(k) == {ResponseID(k)} \cup (IF request.alias = Nobody THEN {} ELSE {request.alias})

Rank(level) == CASE level = "debug" -> 0 [] level = "info" -> 1 [] level = "warn" -> 2 [] level = "error" -> 3

Enabled(level) == Rank(level) >= Rank(LogLevel)

\* An entry carries the request id of the metadata.
Entry(level, code, id) == IF Enabled(level) THEN <<[code |-> code, id |-> id]>> ELSE <<>>

RequestLevel(code) ==
  CASE code = "OK" -> "info"
    [] code \in {"InvalidArgument", "NotFound", "AlreadyExists", "PermissionDenied",
                 "Unauthenticated", "FailedPrecondition"} -> "warn"
    [] OTHER -> "error"

-----------------------------------------------------------------------------
(* Interceptors *)

DefaultTimeout == IF ConfiguredTimeout > 0 THEN ConfiguredTimeout ELSE 15

\* A client's deadline, given as Grpc-Timeout, is kept if it is not later than
\* the server's; otherwise the server's own is set.
Enforced == request.deadline \notin 1..DefaultTimeout

\* Mutant: the server sets no deadline of its own.
HasDeadline_IfClients == request.deadline > 0

HasDeadline == Enforced \/ request.deadline > 0

\* The user id of a valid token: the claim, or else the subject; 0 is no user.
ValidateToken(token) ==
  IF ~token.signed \/ token.expired THEN 0
  ELSE IF token.userID # 0 THEN token.userID ELSE token.subject

Caller == IF request.token = Nobody THEN 0 ELSE ValidateToken(request.token)

AuthPasses == request.method \in publicMethods \/ Caller # 0

\* A handler's error: an AppError's code first, then a context that ended,
\* then a gRPC status, and anything else is Internal.
ErrorInterceptor(result, c) ==
  CASE result = "ok" -> "OK"
    [] result \in {"AlreadyExists", "NotFound", "InvalidInput", "Unauthorized", "Forbidden", "wrapped"} ->
         toGRPCCode(result)
    [] result \in {"plain", "Unavailable"} /\ c = "deadline" -> "DeadlineExceeded"
    [] result \in {"plain", "Unavailable"} /\ c = "canceled" -> "Canceled"
    [] result = "Unavailable" /\ c = "live" -> "Unavailable"
    [] result = "plain" /\ c = "live" -> "Internal"

\* Under the server's deadline every answer gives way to the context's end.
TimeoutInterceptor(code, c) ==
  CASE Enforced /\ c = "deadline" -> "DeadlineExceeded"
    [] Enforced /\ c = "canceled" -> "Canceled"
    [] OTHER -> code

LoggingInterceptor(code, id) == [code |-> code, entries |-> Entry(RequestLevel(code), code, id)]

\* A panic passes the logging interceptor by: its entry is the recovery's.
RecoveryInterceptor(id) == [code |-> "Internal", entries |-> Entry("error", "Internal", id)]

\* Mutant: the request is logged inside the timeout.
Chain_LogsInside(result, c, id) ==
  IF result = "panic" THEN RecoveryInterceptor(id)
  ELSE LET logged == LoggingInterceptor(ErrorInterceptor(result, c), id)
       IN [logged EXCEPT !.code = TimeoutInterceptor(@, c)]

Chain(result, c, id) ==
  IF result = "panic" THEN RecoveryInterceptor(id)
  ELSE LoggingInterceptor(TimeoutInterceptor(ErrorInterceptor(result, c), c), id)

-----------------------------------------------------------------------------
(* Handlers: what one call may return, and who has the operation done then *)

\* The statement may fail or panic, and may commit and then fail.
Repository(k, refusal) ==
  {[result |-> "wrapped", by |-> doer], [result |-> "panic", by |-> doer]} \cup
  IF doer = Nobody
    THEN {[result |-> "ok", by |-> k], [result |-> "wrapped", by |-> k]}
    ELSE {[result |-> refusal, by |-> doer]}

\* Mutant: a unique violation counts as created.
CreateUser_Tolerant(k) ==
  IF request.invalid THEN {[result |-> "InvalidInput", by |-> doer]}
  ELSE {[result |-> "plain", by |-> doer]} \cup Repository(k, "ok")

\* Validation, the password's hash, which may fail, and the INSERT.
CreateUser(k) ==
  IF request.invalid THEN {[result |-> "InvalidInput", by |-> doer]}
  ELSE {[result |-> "plain", by |-> doer]} \cup Repository(k, "AlreadyExists")

DeleteUser(k) ==
  IF Caller # request.user THEN {[result |-> "Forbidden", by |-> doer]}
  ELSE Repository(k, "NotFound")

\* Another party may have deleted the row.
GetUser ==
  {[result |-> IF doer = Nobody THEN "ok" ELSE "NotFound", by |-> doer],
   [result |-> "wrapped", by |-> doer]}

\* The user's row may be gone, and Save may bring it back.
UpdateUser ==
  IF request.invalid THEN {[result |-> "InvalidInput", by |-> doer]}
  ELSE IF Caller # request.user THEN {[result |-> "Forbidden", by |-> doer]}
  ELSE {[result |-> r, by |-> doer] :
          r \in {"ok", "wrapped", "panic"} \cup IF doer = Nobody THEN {} ELSE {"NotFound"}}

\* Whatever error the SELECT of the user returns becomes wrong credentials.
Login ==
  IF request.invalid THEN {[result |-> "InvalidInput", by |-> doer]}
  ELSE {[result |-> r, by |-> doer] : r \in {"ok", "Unauthorized", "wrapped", "plain", "panic"}}

\* Whatever error the SELECT of the token returns becomes not found.  The token
\* may have expired, and once exchanged it is revoked; the COMMIT may succeed
\* and its answer be lost.
Refresh(k) ==
  IF request.invalid THEN {[result |-> "InvalidInput", by |-> doer]}
  ELSE {[result |-> r, by |-> doer] : r \in {"NotFound", "Unauthorized", "wrapped", "plain", "panic"}} \cup
       IF doer = Nobody THEN {[result |-> "ok", by |-> k], [result |-> "plain", by |-> k]} ELSE {}

\* Revoking a token again succeeds again.
Logout ==
  IF request.invalid THEN {[result |-> "InvalidInput", by |-> doer]}
  ELSE {[result |-> r, by |-> doer] : r \in {"ok", "NotFound", "wrapped", "panic"}}

Check == {[result |-> "ok", by |-> doer]}

\* The database answers or does not.
Ping == {"ok", "Unavailable"}

Ready == {[result |-> r, by |-> doer] : r \in Ping}

Handler(k) ==
  CASE request.method = "CreateUser" -> CreateUser(k)
    [] request.method = "DeleteUser" -> DeleteUser(k)
    [] request.method = "GetUser" -> GetUser
    [] request.method = "UpdateUser" -> UpdateUser
    [] request.method = "Login" -> Login
    [] request.method = "Refresh" -> Refresh(k)
    [] request.method = "Logout" -> Logout
    [] request.method = "Check" -> Check
    [] request.method = "Ready" -> Ready

-----------------------------------------------------------------------------
(* The steps of an attempt *)

ServerInit ==
  /\ request \in Requests
  /\ http = [k \in Attempts |-> "unsent"]
  /\ call = [k \in Attempts |-> "none"]
  /\ rpcCtx = [k \in Attempts |-> "live"]
  /\ answer = [k \in Attempts |-> Nobody]
  /\ log = [k \in Attempts |-> <<>>]
  /\ doer = Nobody

\* An error is written by GatewayErrorHandler with the request's id; the
\* envelope passes it through and wraps a success.
GatewayErrorHandler(k, code) == [status |-> HTTPStatusFromCode[code], id |-> ResponseID(k)]

Envelope(k, status) == [status |-> status, id |-> ResponseID(k)]

Reply(k, code) ==
  answer' = [answer EXCEPT ![k] = IF code = "OK" THEN Envelope(k, 200) ELSE GatewayErrorHandler(k, code)]

\* The gateway takes the request, which its client may have given up since, and
\* calls the server.
GatewayCalls(k) ==
  /\ http[k] \in {"open", "cut"} /\ call[k] = "none" /\ ~Malformed(request)
  /\ call' = [call EXCEPT ![k] = "called"]
  /\ UNCHANGED <<request, http, rpcCtx, answer, log, doer>>

GatewayRejects(k) ==
  /\ http[k] = "open" /\ call[k] = "none" /\ answer[k] = Nobody /\ Malformed(request)
  /\ Reply(k, "InvalidArgument")
  /\ UNCHANGED <<request, http, call, rpcCtx, log, doer>>

\* The outermost interceptor returns: entries are written, deferred cancels
\* run, and the gateway answers if its request is still there.
Returns(k, chain) ==
  /\ call' = [call EXCEPT ![k] = "ended"]
  /\ log' = [log EXCEPT ![k] = @ \o chain.entries]
  /\ IF http[k] = "open" /\ answer[k] = Nobody THEN Reply(k, chain.code) ELSE UNCHANGED answer
  /\ rpcCtx' = [rpcCtx EXCEPT ![k] = "canceled"]
  /\ UNCHANGED <<request, http>>

AuthRejects(k) ==
  /\ call[k] = "called" /\ ~AuthPasses
  /\ \E id \in IncomingIDs(k) :
       Returns(k, LoggingInterceptor(TimeoutInterceptor("Unauthenticated", rpcCtx[k]), id))
  /\ UNCHANGED doer

\* The handler's statement and its return in one step: a context that ends
\* between the two might as well end before, the statement may commit anyway.
HandlerReturns(k) ==
  /\ call[k] = "called" /\ AuthPasses
  /\ \E h \in Handler(k), id \in IncomingIDs(k) :
       /\ doer' = h.by
       /\ Returns(k, Chain(h.result, rpcCtx[k], id))

\* The deadline of the handler's context passes.
Expire(k) ==
  /\ call[k] = "called" /\ rpcCtx[k] = "live" /\ HasDeadline
  /\ rpcCtx' = [rpcCtx EXCEPT ![k] = "deadline"]
  /\ UNCHANGED <<request, http, call, answer, log, doer>>

\* A client's deadline bounds the gateway's call too; a later one than the
\* server's passes later.
GatewayExpires(k) ==
  /\ http[k] = "open" /\ call[k] = "called" /\ answer[k] = Nobody
  /\ request.deadline > 0 /\ (Enforced => rpcCtx[k] # "live")
  /\ Reply(k, "DeadlineExceeded")
  /\ UNCHANGED <<request, http, call, rpcCtx, log, doer>>

\* The exchange is over for the client, an answer on its way is lost.
Abandoned(k) ==
  /\ http' = [http EXCEPT ![k] = "cut"]
  /\ answer' = [answer EXCEPT ![k] = Nobody]

\* The gateway's context ends with its exchange, or with its own answer.
CancelArrives(k) ==
  /\ call[k] = "called" /\ rpcCtx[k] = "live"
  /\ http[k] = "cut" \/ answer[k] # Nobody
  /\ rpcCtx' = [rpcCtx EXCEPT ![k] = "canceled"]
  /\ UNCHANGED <<request, http, call, answer, log, doer>>

OtherDoes ==
  /\ doer = Nobody /\ request.method \in UserService \cup {"Refresh"}
  /\ doer' = Other
  /\ UNCHANGED <<request, http, call, rpcCtx, answer, log>>
=============================================================================
