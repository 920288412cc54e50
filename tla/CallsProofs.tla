----------------------------- MODULE CallsProofs -----------------------------
(***************************************************************************)
(* What answers say, what the log says, which bodies are closed and which  *)
(* values the variables take, for any set of requests and any number of    *)
(* exchanges and retries.                                                  *)
(***************************************************************************)
EXTENDS Calls, FiniteSetTheorems, TLAPS

(* Response bodies *)

\* One body is open while a response is judged or read, and none otherwise.
OneBody ==
  /\ ctx \in {"live", "canceled"} /\ reqCtx \in {"live", "deadline", "canceled"}
  /\ open = IF client \in {"judge", "read"} /\ response.err = "none" THEN 1 ELSE 0

\* No body is open before the first request.
LEMMA OneBodyInit == Init => OneBody
BY DEF Init, RetryInit, ClientInit, OneBody

\* Each round trip opens at most one body, and every way on closes it.
LEMMA OneBodyStep == OneBody /\ [Next]_vars => OneBody'
<1> SUFFICES ASSUME OneBody, [Next]_vars PROVE OneBody'
  OBVIOUS
<1> USE DEF OneBody, retryVars, clientVars
<1>1. CASE Call
  BY <1>1 DEF Call, Send
<1>2. CASE CallReturns
  BY <1>2 DEF CallReturns, FnReturns, Return, Idle
<1>3. CASE CallerCancels
  BY <1>3 DEF CallerCancels, Cancel
<1>4. CASE Retrying
  BY <1>4 DEF Retrying, CheckCtx, Wake, SleepCanceled, Return
<1>5. CASE InClient
  <2>1. CASE Judge
    BY <1>5, <2>1 DEF InClient, Judge, CloseBeforeRetry
  <2>2. CASE BackoffOver \/ BackoffCanceled
    BY <1>5, <2>2 DEF InClient, BackoffOver, BackoffCanceled, Failed
  <2>3. CASE Helper
    BY <1>5, <2>3 DEF InClient, Helper
  <2> QED
    BY <1>5, <2>1, <2>2, <2>3 DEF InClient
<1>6. CASE Timeout
  BY <1>6 DEF Timeout, ClientTimeout
<1>7. ASSUME NEW r, r.err = "none" \/ r.err # "none", RoundTripReturns(r), ctx' = ctx PROVE OneBody'
  BY <1>7 DEF RoundTripReturns
<1>8. CASE Refused \/ Answered \/ Lost \/ GivenUp
  BY <1>7, <1>8 DEF Refused, Answered, Lost, GivenUp
<1>9. CASE UNCHANGED <<retryVars, clientVars>>
  BY <1>9
<1> QED
  BY <1>1, <1>2, <1>3, <1>4, <1>5, <1>6, <1>8, <1>9 DEF Next, Connect, InServerStep, Elsewhere, vars

\* No response body is left open, however a call ends (RoundTrip, JSON helpers).
THEOREM BodiesAreClosed == Spec => []BodiesClosed
<1>1. OneBody => BodiesClosed
  BY DEF OneBody, BodiesClosed
<1> QED
  BY <1>1, OneBodyInit, OneBodyStep, PTL DEF Spec

-----------------------------------------------------------------------------
(* Codes *)

Known == {"OK", "Canceled", "InvalidArgument", "DeadlineExceeded", "NotFound", "AlreadyExists",
          "PermissionDenied", "Unauthenticated", "FailedPrecondition", "Internal", "Unavailable"}

Status(code) == HTTPStatusFromCode[code]

\* Which codes a status stands for, as far as AnswersTrue tells them apart.
LEMMA StatusIs ==
  /\ Codes = Known
  /\ \A code \in Codes :
       /\ Status(code) = 200 => code = "OK"
       /\ Status(code) \in {404, 409} => code \in {"NotFound", "AlreadyExists"}
       /\ Status(code) \in {400, 401, 403} =>
            code \in {"InvalidArgument", "FailedPrecondition", "Unauthenticated", "PermissionDenied"}
  /\ Status("OK") = 200 /\ Status("DeadlineExceeded") = 504 /\ Status("InvalidArgument") = 400
  /\ Status("Unauthenticated") = 401
<1>1. Codes = Known
  BY DEF Codes, HTTPStatusFromCode, Known
<1> QED
  BY <1>1 DEF Status, HTTPStatusFromCode, Known

Results == {"ok", "AlreadyExists", "NotFound", "InvalidInput", "Unauthorized", "Forbidden", "wrapped",
            "plain", "Unavailable", "panic"}

Contexts == {"live", "deadline", "canceled"}

\* What is written about a call whose answer has the code.
Written(entries, code, id) ==
  \/ entries = <<>> /\ ~Enabled("info")
  \/ entries = <<[code |-> code, id |-> id]>>

\* The level of the log lets the entries of calls through.
LEMMA LevelsIncludeInfo ==
  ASSUME NEW level \in {"info", "warn", "error"}, NEW code, NEW id
  PROVE  Written(Entry(level, code, id), code, id)
BY ServerAssumption DEF Written, Entry, Enabled, Rank

\* A code of the chain stands for the result it names, and is the one logged.
ChainFits(ch, res, id) ==
  /\ ch.code \in Codes /\ Written(ch.entries, ch.code, id)
  /\ ch.code = "OK" => res = "ok"
  /\ ch.code \in {"NotFound", "AlreadyExists"} => res \in {"NotFound", "AlreadyExists"}
  /\ ch.code \in {"InvalidArgument", "FailedPrecondition", "Unauthenticated", "PermissionDenied"} =>
       res \in {"InvalidInput", "Unauthorized", "Forbidden"}

\* The logging interceptor returns the code it is given, and writes it.
LEMMA LoggedAs ==
  ASSUME NEW code, NEW id
  PROVE  LoggingInterceptor(code, id).code = code /\ Written(LoggingInterceptor(code, id).entries, code, id)
BY LevelsIncludeInfo DEF LoggingInterceptor, RequestLevel

\* What the interceptors make of a handler's result, for every context.
LEMMA ChainIs ==
  ASSUME NEW res \in Results, NEW c \in Contexts, NEW id
  PROVE  ChainFits(Chain(res, c, id), res, id)
<1>1. CASE res = "panic"
  <2>1. Chain(res, c, id) = [code |-> "Internal", entries |-> Entry("error", "Internal", id)]
    BY <1>1 DEF Chain, RecoveryInterceptor
  <2>2. Written(Entry("error", "Internal", id), "Internal", id)
    BY LevelsIncludeInfo
  <2> QED
    BY <2>1, <2>2, StatusIs DEF ChainFits, Known
<1>2. CASE res # "panic"
  <2> DEFINE error == ErrorInterceptor(res, c)
             code == TimeoutInterceptor(error, c)
  <2>1. /\ error \in Known
        /\ error = "OK" => res = "ok"
        /\ error \in {"NotFound", "AlreadyExists"} => res \in {"NotFound", "AlreadyExists"}
        /\ error \in {"InvalidArgument", "FailedPrecondition", "Unauthenticated", "PermissionDenied"} =>
             res \in {"InvalidInput", "Unauthorized", "Forbidden"}
    BY <1>2 DEF ErrorInterceptor, toGRPCCode, Results, Contexts, Known
  <2>2. code = error \/ code \in {"DeadlineExceeded", "Canceled"}
    BY DEF TimeoutInterceptor
  <2>3. Chain(res, c, id) = LoggingInterceptor(code, id)
    BY <1>2 DEF Chain
  <2> HIDE DEF error, code
  <2> QED
    BY <2>1, <2>2, <2>3, StatusIs, LoggedAs DEF ChainFits, Known
<1> QED
  BY <1>1, <1>2

-----------------------------------------------------------------------------
(* Handlers *)

\* What a handler's return says of the operation.
ResultFits(k, h) ==
  /\ h.result \in Results
  /\ h.by = doer \/ (doer = Nobody /\ h.by = k)
  /\ h.result = "ok" /\ request.method \in {"CreateUser", "DeleteUser", "Refresh"} => h.by = k
  /\ h.result \in {"NotFound", "AlreadyExists"} /\ request.method \in UserService => h.by \notin {Nobody, k}
  /\ h.result \in {"InvalidInput", "Unauthorized", "Forbidden"} => h.by = doer

\* What a handler may return fits what has become of its operation.
LEMMA HandlerFits ==
  ASSUME NEW k \in Attempts, doer # k, request \in Requests, NEW h \in Handler(k)
  PROVE  ResultFits(k, h)
<1> USE DEF ResultFits, Results, UserService
<1>1. k # Nobody
  BY ServerAssumption
<1>2. request.method \in Services
  BY RequestsAssumption
<1>3. CASE request.method = "CreateUser"
  BY <1>1, <1>3 DEF Handler, CreateUser, Repository
<1>4. CASE request.method = "DeleteUser"
  BY <1>1, <1>4 DEF Handler, DeleteUser, Repository
<1>5. CASE request.method = "GetUser"
  BY <1>1, <1>5 DEF Handler, GetUser
<1>6. CASE request.method = "UpdateUser"
  BY <1>1, <1>6 DEF Handler, UpdateUser
<1>7. CASE request.method = "Login"
  BY <1>1, <1>7 DEF Handler, Login
<1>8. CASE request.method = "Refresh"
  BY <1>1, <1>8 DEF Handler, Refresh
<1>9. CASE request.method = "Logout"
  BY <1>1, <1>9 DEF Handler, Logout
<1>10. CASE request.method \in HealthService
  BY <1>1, <1>10 DEF Handler, HealthService, Check, Ready, Ping
<1> QED
  BY <1>2, <1>3, <1>4, <1>5, <1>6, <1>7, <1>8, <1>9, <1>10 DEF Services, AuthService, HealthService

-----------------------------------------------------------------------------
(* Attempts *)

ID(r, k) == IF r.id = Nobody THEN k ELSE r.id
IDs(r, k) == {ID(r, k)} \cup (IF r.alias = Nobody THEN {} ELSE {r.alias})

\* What an answer says of the operation, by where the call is and who did it.
Says(r, k, c, a, d) ==
  a # Nobody =>
    /\ a.id = ID(r, k)
    /\ c = "none" => Malformed(r) /\ a.status = 400
    /\ c = "called" => r.deadline > 0 /\ a.status = 504
    /\ a.status = 200 /\ r.method \in {"CreateUser", "DeleteUser", "Refresh"} => d = k
    /\ a.status \in {404, 409} /\ r.method \in UserService => d \notin {Nobody, k}
    /\ a.status \in {400, 401, 403} => d # k

\* The log of a call is empty until it ends, and then has the code answered.
Keeps(r, k, c, a, l) ==
  /\ c # "ended" => l = <<>>
  /\ c = "ended" =>
       \E code \in Codes, id \in IDs(r, k) :
         /\ Written(l, code, id)
         /\ a # Nobody => a.status = Status(code) \/ (r.deadline > 0 /\ a.status = 504)

Fits(r, k, c, a, l, d) ==
  /\ c \in {"none", "called", "ended"} /\ (d = k => c = "ended")
  /\ Says(r, k, c, a, d) /\ Keeps(r, k, c, a, l)

\* No attempt has answered or logged before it begins.
LEMMA FitsFirst ==
  ASSUME NEW r, NEW k \in Attempts PROVE Fits(r, k, "none", Nobody, <<>>, Nobody)
BY ServerAssumption DEF Fits, Says, Keeps

\* An answer may get lost.
LEMMA FitsLost ==
  ASSUME NEW r, NEW k, NEW c, NEW a, NEW l, NEW d, Fits(r, k, c, a, l, d)
  PROVE  Fits(r, k, c, Nobody, l, d)
BY DEF Fits, Says, Keeps

\* A call that is made keeps what its attempt says true.
LEMMA FitsCalled ==
  ASSUME NEW r, NEW k, NEW a, NEW l, NEW d, Fits(r, k, "none", a, l, d), ~Malformed(r)
  PROVE  Fits(r, k, "called", a, l, d)
BY DEF Fits, Says, Keeps

\* Somebody else does the operation.
LEMMA FitsOther ==
  ASSUME NEW r, NEW k \in Attempts, NEW c, NEW a, NEW l, NEW d, d # k, Fits(r, k, c, a, l, Nobody)
  PROVE  Fits(r, k, c, a, l, d)
<1>1. k # Nobody
  BY ServerAssumption
<1>2. Says(r, k, c, a, d)
  BY <1>1 DEF Fits, Says
<1> QED
  BY <1>2 DEF Fits

\* A call that is refused has done nothing.
LEMMA FitsRejected ==
  ASSUME NEW r, NEW k, NEW l, NEW d, Fits(r, k, "none", Nobody, l, d), Malformed(r)
  PROVE  Fits(r, k, "none", [status |-> Status("InvalidArgument"), id |-> ID(r, k)], l, d)
BY StatusIs DEF Fits, Says, Keeps

\* A call answered at its deadline leaves its operation open.
LEMMA FitsExpired ==
  ASSUME NEW r, NEW k, NEW l, NEW d, Fits(r, k, "called", Nobody, l, d), r.deadline > 0
  PROVE  Fits(r, k, "called", [status |-> Status("DeadlineExceeded"), id |-> ID(r, k)], l, d)
BY StatusIs DEF Fits, Says, Keeps

\* A call that ends is logged with the code it is answered with, if it still is.
LEMMA FitsEnded ==
  ASSUME NEW r, NEW k \in Attempts, NEW a, NEW b, NEW d, NEW e, NEW id \in IDs(r, k),
         NEW res \in Results, NEW ch, ChainFits(ch, res, id),
         Fits(r, k, "called", a, <<>>, d),
         b = a \/ (a = Nobody /\ b = [status |-> Status(ch.code), id |-> ID(r, k)]),
         e = d \/ (d = Nobody /\ e = k),
         res = "ok" /\ r.method \in {"CreateUser", "DeleteUser", "Refresh"} => e = k,
         res \in {"NotFound", "AlreadyExists"} /\ r.method \in UserService => e \notin {Nobody, k},
         res \in {"InvalidInput", "Unauthorized", "Forbidden"} => e = d
  PROVE  Fits(r, k, "ended", b, ch.entries, e)
<1>1. d # k /\ k # Nobody
  BY ServerAssumption DEF Fits
<1>2. CASE b = Nobody
  BY <1>2 DEF Fits, Says, Keeps, ChainFits
<1>3. CASE b = a /\ a # Nobody
  <2>1. Says(r, k, "ended", b, e)
    BY <1>1, <1>3 DEF Fits, Says
  <2>2. Keeps(r, k, "ended", b, ch.entries)
    BY <1>3 DEF Fits, Says, Keeps, ChainFits
  <2> QED
    BY <2>1, <2>2 DEF Fits
<1>4. CASE b = [status |-> Status(ch.code), id |-> ID(r, k)]
  <2>1. b.status = Status(ch.code) /\ b.id = ID(r, k)
    BY <1>4
  <2>2. Keeps(r, k, "ended", b, ch.entries)
    BY <2>1 DEF Keeps, ChainFits
  <2>3. /\ b.status = 200 => res = "ok"
        /\ b.status \in {404, 409} => res \in {"NotFound", "AlreadyExists"}
        /\ b.status \in {400, 401, 403} => res \in {"InvalidInput", "Unauthorized", "Forbidden"}
    BY <2>1, StatusIs DEF ChainFits
  <2>4. Says(r, k, "ended", b, e)
    BY <1>1, <2>1, <2>3 DEF Says
  <2> QED
    BY <2>2, <2>4 DEF Fits
<1> QED
  BY <1>2, <1>3, <1>4

-----------------------------------------------------------------------------
(* The way of a request *)

Attempt(k) == Fits(request, k, call[k], answer[k], log[k], doer)

Truthful ==
  /\ request \in Requests /\ rpcCtx \in [Attempts -> Contexts]
  /\ DOMAIN call = Attempts /\ DOMAIN answer = Attempts /\ DOMAIN log = Attempts
  /\ \A k \in Attempts : Attempt(k)

\* No attempt is answered at the start.
LEMMA TruthfulInit == Init => Truthful
BY FitsFirst DEF Init, ServerInit, Truthful, Attempt, Contexts

\* One function is the other but at k.
ButAt(k, new, old) == DOMAIN new = Attempts /\ \A j \in Attempts \ {k} : new[j] = old[j]

\* A step of one attempt, which may do the operation if nobody has.
LEMMA OneAttempt ==
  ASSUME Truthful, NEW k \in Attempts, request' = request, rpcCtx' \in [Attempts -> Contexts],
         ButAt(k, call', call), ButAt(k, answer', answer), ButAt(k, log', log),
         doer' = doer \/ (doer = Nobody /\ doer' = k),
         Fits(request, k, call'[k], answer'[k], log'[k], doer')
  PROVE  Truthful'
<1>1. ASSUME NEW j \in Attempts \ {k} PROVE Fits(request, j, call'[j], answer'[j], log'[j], doer')
  <2>1. Fits(request, j, call[j], answer[j], log[j], doer)
    BY DEF Truthful, Attempt
  <2>2. Fits(request, j, call[j], answer[j], log[j], doer')
    BY <1>1, <2>1, FitsOther
  <2> QED
    BY <1>1, <2>2 DEF ButAt
<1>2. \A j \in Attempts : Fits(request', j, call'[j], answer'[j], log'[j], doer')
  BY <1>1
<1> QED
  BY <1>2 DEF Truthful, Attempt, ButAt

\* Nothing of the calls changes, but that one answer may get lost.
LEMMA Losing ==
  ASSUME Truthful, UNCHANGED <<request, call, rpcCtx, log, doer>>,
         answer' = answer \/ \E k : answer' = [answer EXCEPT ![k] = Nobody]
  PROVE  Truthful'
<1>1. DOMAIN answer' = Attempts /\ \A j \in Attempts : answer'[j] \in {answer[j], Nobody}
  BY DEF Truthful
<1>2. ASSUME NEW j \in Attempts PROVE Fits(request, j, call[j], answer'[j], log[j], doer)
  BY <1>1, <1>2, FitsLost DEF Truthful, Attempt
<1>3. \A j \in Attempts : Fits(request', j, call'[j], answer'[j], log'[j], doer')
  BY <1>2
<1> QED
  BY <1>1, <1>3 DEF Truthful, Attempt

\* The answer of the gateway, by what the chain returned.
LEMMA ReplyIs ==
  ASSUME NEW k \in Attempts, NEW code \in Codes, Reply(k, code), DOMAIN answer = Attempts
  PROVE  /\ ButAt(k, answer', answer)
         /\ answer'[k] = [status |-> Status(code), id |-> ID(request, k)]
<1> DEFINE reply == [status |-> Status(code), id |-> ResponseID(k)]
<1>1. (IF code = "OK" THEN Envelope(k, 200) ELSE GatewayErrorHandler(k, code)) = reply
  <2>1. CASE code = "OK"
    BY <2>1, StatusIs DEF Envelope
  <2>2. CASE code # "OK"
    BY <2>2 DEF GatewayErrorHandler, Status
  <2> QED
    BY <2>1, <2>2
<1>2. answer' = [answer EXCEPT ![k] = reply]
  BY <1>1 DEF Reply
<1>3. ResponseID(k) = ID(request, k)
  BY DEF ResponseID, ID
<1> QED
  BY <1>2, <1>3 DEF ButAt

\* The end of a call: the operation is done by h, the chain returns.
LEMMA Ending ==
  ASSUME Truthful, NEW k \in Attempts, call[k] = "called", NEW h, NEW ch, NEW id \in IncomingIDs(k),
         ResultFits(k, h), ChainFits(ch, h.result, id), doer' = h.by, Returns(k, ch)
  PROVE  Truthful'
<1>1. Fits(request, k, "called", answer[k], log[k], doer)
  BY DEF Truthful, Attempt
<1>2. log[k] = <<>>
  BY <1>1 DEF Fits, Keeps
<1>3. log' = [log EXCEPT ![k] = <<>> \o ch.entries]
  BY <1>2 DEF Returns
<1>4. ButAt(k, log', log) /\ log'[k] = ch.entries
  BY <1>3 DEF Truthful, ButAt, ChainFits, Written
<1>5. ButAt(k, call', call) /\ call'[k] = "ended" /\ rpcCtx' \in [Attempts -> Contexts] /\ request' = request
  BY DEF Truthful, ButAt, Returns, Contexts
<1>6. /\ ButAt(k, answer', answer)
      /\ \/ answer'[k] = answer[k]
         \/ answer[k] = Nobody /\ answer'[k] = [status |-> Status(ch.code), id |-> ID(request, k)]
  <2>1. CASE http[k] = "open" /\ answer[k] = Nobody
    <3>1. Reply(k, ch.code) /\ ch.code \in Codes
      BY <2>1 DEF Returns, ChainFits
    <3> QED
      BY <2>1, <3>1, ReplyIs DEF Truthful
  <2>2. CASE ~(http[k] = "open" /\ answer[k] = Nobody)
    BY <2>2 DEF Returns, Truthful, ButAt
  <2> QED
    BY <2>1, <2>2
<1>7. id \in IDs(request, k)
  BY DEF IncomingIDs, ResponseID, IDs, ID
<1>8. doer' = doer \/ (doer = Nobody /\ doer' = k)
  BY DEF ResultFits
<1>9. Fits(request, k, "ended", answer'[k], ch.entries, doer')
  BY <1>1, <1>2, <1>6, <1>7, <1>8, FitsEnded DEF ResultFits
<1> QED
  BY <1>4, <1>5, <1>6, <1>8, <1>9, OneAttempt

\* Each step answers or changes one attempt and leaves the others' answers
\* true.
LEMMA TruthfulStep == Truthful /\ [Next]_vars => Truthful'
<1> SUFFICES ASSUME Truthful, [Next]_vars PROVE Truthful'
  OBVIOUS
<1>1. CASE UNCHANGED serverVars
  BY <1>1, Losing DEF serverVars
<1>2. CASE Call \/ CallReturns \/ CallerCancels \/ Retrying \/ InClient \/ Timeout \/ Refused
  BY <1>1, <1>2 DEF Call, CallReturns, CallerCancels, Retrying, InClient, Timeout, Refused, serverVars
<1>3. CASE Connect \/ Answered \/ Lost \/ GivenUp
  <2>1. UNCHANGED <<request, call, rpcCtx, log, doer>>
    BY <1>3 DEF Connect, Answered, Lost, GivenUp
  <2>2. answer' = answer \/ answer' = [answer EXCEPT ![Current] = Nobody]
    BY <1>3 DEF Connect, Answered, Lost, GivenUp, Abandoned
  <2> QED
    BY <2>1, <2>2, Losing
<1>4. ASSUME NEW k \in Attempts, InServerStep(k) PROVE Truthful'
  <2>1. /\ Fits(request, k, call[k], answer[k], log[k], doer)
        /\ request \in Requests /\ DOMAIN answer = Attempts
    BY DEF Truthful, Attempt
  <2>2. CASE GatewayCalls(k)
    <3>1. Fits(request, k, "called", answer[k], log[k], doer)
      BY <2>1, <2>2, FitsCalled DEF GatewayCalls
    <3> QED
      BY <2>2, <3>1, OneAttempt DEF GatewayCalls, ButAt, Truthful
  <2>3. CASE GatewayRejects(k)
    <3>1. ButAt(k, answer', answer) /\ answer'[k] = [status |-> Status("InvalidArgument"), id |-> ID(request, k)]
      <4>1. "InvalidArgument" \in Codes
        BY StatusIs DEF Known
      <4> QED
        BY <2>1, <2>3, <4>1, ReplyIs DEF GatewayRejects
    <3>2. Fits(request, k, call[k], answer'[k], log[k], doer)
      BY <2>1, <2>3, <3>1, FitsRejected DEF GatewayRejects
    <3> QED
      BY <2>3, <3>1, <3>2, OneAttempt DEF GatewayRejects, ButAt, Truthful
  <2>4. CASE GatewayExpires(k)
    <3>1. ButAt(k, answer', answer) /\ answer'[k] = [status |-> Status("DeadlineExceeded"), id |-> ID(request, k)]
      <4>1. "DeadlineExceeded" \in Codes
        BY StatusIs DEF Known
      <4> QED
        BY <2>1, <2>4, <4>1, ReplyIs DEF GatewayExpires
    <3>2. Fits(request, k, call[k], answer'[k], log[k], doer)
      BY <2>1, <2>4, <3>1, FitsExpired DEF GatewayExpires
    <3> QED
      BY <2>4, <3>1, <3>2, OneAttempt DEF GatewayExpires, ButAt, Truthful
  <2>5. CASE AuthRejects(k)
    <3>1. PICK id \in IncomingIDs(k) :
            Returns(k, LoggingInterceptor(TimeoutInterceptor("Unauthenticated", rpcCtx[k]), id))
      BY <2>5 DEF AuthRejects
    <3> DEFINE code == TimeoutInterceptor("Unauthenticated", rpcCtx[k])
               h == [result |-> "Unauthorized", by |-> doer]
    <3>2. code \in {"Unauthenticated", "DeadlineExceeded", "Canceled"}
      BY DEF TimeoutInterceptor
    <3>3. ChainFits(LoggingInterceptor(code, id), h.result, id)
      BY <3>2, LoggedAs, StatusIs DEF ChainFits, Known
    <3>4. ResultFits(k, h)
      BY DEF ResultFits, Results
    <3> QED
      BY <2>5, <3>1, <3>3, <3>4, Ending DEF AuthRejects
  <2>6. CASE HandlerReturns(k)
    <3>1. PICK h \in Handler(k), id \in IncomingIDs(k) :
            doer' = h.by /\ Returns(k, Chain(h.result, rpcCtx[k], id))
      BY <2>6 DEF HandlerReturns
    <3>2. doer # k
      BY <2>1, <2>6 DEF HandlerReturns, Fits
    <3>3. ResultFits(k, h)
      BY <2>1, <3>2, HandlerFits
    <3>4. ChainFits(Chain(h.result, rpcCtx[k], id), h.result, id)
      BY <3>3, ChainIs DEF ResultFits, Truthful
    <3> QED
      BY <2>6, <3>1, <3>3, <3>4, Ending DEF HandlerReturns
  <2>7. CASE Expire(k) \/ CancelArrives(k)
    BY <2>1, <2>7, OneAttempt DEF Expire, CancelArrives, ButAt, Truthful, Contexts
  <2> QED
    BY <1>4, <2>2, <2>3, <2>4, <2>5, <2>6, <2>7 DEF InServerStep
<1>5. CASE Elsewhere
  <2>1. UNCHANGED <<request, call, rpcCtx, answer, log>> /\ doer = Nobody /\ doer' = Other
    BY <1>5 DEF Elsewhere, OtherDoes
  <2>2. ASSUME NEW j \in Attempts PROVE Fits(request, j, call[j], answer[j], log[j], doer')
    <3>1. Fits(request, j, call[j], answer[j], log[j], Nobody) /\ doer' # j
      BY <2>1, ServerAssumption DEF Truthful, Attempt
    <3> QED
      BY <3>1, FitsOther
  <2>3. \A j \in Attempts : Fits(request', j, call'[j], answer'[j], log'[j], doer')
    BY <2>1, <2>2
  <2> QED
    BY <2>1, <2>3 DEF Truthful, Attempt
<1> QED
  BY <1>1, <1>2, <1>3, <1>4, <1>5 DEF Next, vars

\* A repeated request is answered for itself (the handlers, ErrorInterceptor,
\* TimeoutInterceptor, GatewayErrorHandler).
THEOREM AnswersAreTrue == Spec => []AnswersTrue
<1>1. Truthful => AnswersTrue
  <2> SUFFICES ASSUME Truthful, NEW k \in Attempts, answer[k] # Nobody
               PROVE  /\ answer[k].status = 200 /\ request.method \in {"CreateUser", "DeleteUser", "Refresh"} => doer = k
                      /\ answer[k].status \in {404, 409} /\ request.method \in UserService => doer \notin {Nobody, k}
                      /\ answer[k].status \in {400, 401, 403} => doer # k
    BY DEF AnswersTrue
  <2> QED
    BY DEF Truthful, Attempt, Fits, Says
<1> QED
  BY <1>1, TruthfulInit, TruthfulStep, PTL DEF Spec

\* Every call that ends is in the log once, with its request id and with the
\* code that is answered (NewGRPCServer's chain, responseEnvelopeMiddleware).
THEOREM CallsAreLoggedOnce == Spec => []LoggedOnce
<1>1. Truthful => LoggedOnce
  <2> SUFFICES ASSUME Truthful, NEW k \in Attempts, call[k] = "ended"
               PROVE  /\ Len(log[k]) <= 1 /\ (Enabled("info") => Len(log[k]) = 1)
                      /\ answer[k] # Nobody =>
                           \A i \in DOMAIN log[k] :
                             /\ request.alias = Nobody => answer[k].id = log[k][i].id
                             /\ \/ answer[k].status = HTTPStatusFromCode[log[k][i].code]
                                \/ request.deadline > 0 /\ answer[k].status = 504
    BY DEF LoggedOnce
  <2>1. Says(request, k, "ended", answer[k], doer) /\ Keeps(request, k, "ended", answer[k], log[k])
    BY DEF Truthful, Attempt, Fits
  <2>2. PICK code \in Codes, id \in IDs(request, k) :
          /\ Written(log[k], code, id)
          /\ answer[k] # Nobody =>
               answer[k].status = Status(code) \/ (request.deadline > 0 /\ answer[k].status = 504)
    BY <2>1 DEF Keeps
  <2>3. CASE log[k] = <<>> /\ ~Enabled("info")
    BY <2>3
  <2>4. CASE log[k] = <<[code |-> code, id |-> id]>>
    <3>1. Len(log[k]) = 1 /\ \A i \in DOMAIN log[k] : log[k][i].code = code /\ log[k][i].id = id
      BY <2>4
    <3>2. answer[k] # Nobody /\ request.alias = Nobody => answer[k].id = id
      BY <2>1 DEF Says, IDs
    <3> QED
      BY <2>2, <3>1, <3>2 DEF Status
  <2> QED
    BY <2>2, <2>3, <2>4 DEF Written
<1> QED
  BY <1>1, TruthfulInit, TruthfulStep, PTL DEF Spec

-----------------------------------------------------------------------------
(* Types *)

RetryTyped ==
  /\ retry \in {"check", "fn", "sleep", "over", "panicked"}
  /\ attempt \in 1..Cfg.MaxAttempts /\ result \in Errors \cup {NoError}
  /\ retry = "sleep" => attempt < Cfg.MaxAttempts
  /\ interval \in Nat /\ (interval <= Cfg.MaxInterval \/ interval <= Cfg.InitialInterval)
  /\ ctx \in {"live", "canceled"}

Answer(r) == r \in [status : Statuses \cup {0}, err : Errors \cup {"none"}]

ClientTyped ==
  /\ reqCtx \in {"live", "deadline", "canceled"}
  /\ client \in {"idle", "exec", "judge", "backoff", "read", "over", "panicked"}
  /\ tries \in 0..(RetryCount + 1) /\ (client = "backoff" => tries < RetryCount + 1)
  /\ response = NoResponse \/ Answer(response)
  /\ client \in {"judge", "read", "over"} => Answer(response)

\* The exchanges that were begun are the first ones, and only the last may be
\* under way, while the client waits for it.
Begun(n) ==
  /\ n \in Nat /\ \A k \in Attempts : http[k] # "unsent" <=> k <= n
  /\ \A k \in Attempts : http[k] = "open" => k = n /\ client = "exec"

ServerTyped ==
  /\ http \in [Attempts -> {"unsent", "open", "answered", "cut"}]
  /\ call \in [Attempts -> {"none", "called", "ended"}]
  /\ doer \in Attempts \cup {Nobody, Other}
  /\ \E n \in 0..Cardinality(Attempts) : Begun(n)

\* The options are within their types whatever is passed.
LEMMA CfgTyped ==
  /\ Cfg.MaxAttempts \in Nat \ {0} /\ Cfg.InitialInterval \in Nat
  /\ Cfg.MaxInterval \in Nat /\ Cfg.BackoffFactor \in Nat
BY RetryAssumption DEF Cfg, ApplyDefaults

\* The last exchange begun is the current one.
LEMMA CurrentIs ==
  ASSUME NEW n \in 0..Cardinality(Attempts), Begun(n), Attempts = 1..Cardinality(Attempts),
         Cardinality(Attempts) \in Nat
  PROVE  Current = n
<1>1. {k \in Attempts : http[k] # "unsent"} = 1..n
  BY DEF Begun
<1>2. Cardinality(1..n) = n
  BY FS_Interval, CallsAssumption
<1> QED
  BY <1>1, <1>2 DEF Current

\* Attempts are the numbers up to their count.
LEMMA AttemptsAre == Cardinality(Attempts) \in Nat /\ Attempts = 1..Cardinality(Attempts)
BY CallsAssumption, FS_CardinalityType

\* The loop of Retry keeps its types.
LEMMA RetryStep == RetryTyped /\ ClientTyped /\ [Next]_vars => RetryTyped'
<1> SUFFICES ASSUME RetryTyped, ClientTyped, [Next]_vars PROVE RetryTyped'
  OBVIOUS
<1> USE CfgTyped DEF RetryTyped, retryVars
<1>1. CASE CallReturns
  <2>1. ASSUME NEW e \in Errors \cup {NoError}, FnReturns(e) PROVE RetryTyped'
    BY <2>1 DEF FnReturns, Return
  <2>2. CASE retry = "fn" /\ client = "over" /\ FnReturns(IF response.err = "none" THEN NoError ELSE response.err)
    BY <2>1, <2>2 DEF ClientTyped, Answer
  <2> QED
    BY <1>1, <2>2 DEF CallReturns
<1>2. CASE CallerCancels
  BY <1>2 DEF CallerCancels, Cancel
<1>3. CASE Wake
  <2>1. interval * Cfg.BackoffFactor \in Nat
    OBVIOUS
  <2>2. NextInterval(interval, Cfg) \in Nat /\ NextInterval(interval, Cfg) <= Cfg.MaxInterval
    BY <2>1 DEF NextInterval
  <2>3. interval' \in Nat /\ interval' <= Cfg.MaxInterval /\ retry' = "check" /\ UNCHANGED <<result, ctx>>
    BY <1>3, <2>2 DEF Wake
  <2>4. attempt' \in 1..Cfg.MaxAttempts
    BY <1>3 DEF Wake
  <2> QED
    BY <2>3, <2>4
<1>4. CASE CheckCtx \/ SleepCanceled
  BY <1>4 DEF CheckCtx, SleepCanceled, Return, Errors
<1>5. CASE UNCHANGED retryVars
  BY <1>5
<1> QED
  BY <1>1, <1>2, <1>3, <1>4, <1>5
     DEF Next, Call, Retrying, InClient, Timeout, Connect, Refused, Answered, Lost, GivenUp,
         InServerStep, Elsewhere, vars

\* Answers are HTTP statuses.
LEMMA StatusesAre == \A k \in Attempts : Truthful /\ answer[k] # Nobody => answer[k].status \in Statuses
<1> SUFFICES ASSUME Truthful, NEW k \in Attempts, answer[k] # Nobody PROVE answer[k].status \in Statuses
  OBVIOUS
<1>1. \A code \in Codes : Status(code) \in Statuses
  BY DEF Status, Codes, HTTPStatusFromCode, Statuses
<1>2. Fits(request, k, call[k], answer[k], log[k], doer)
  BY DEF Truthful, Attempt
<1> QED
  BY <1>1, <1>2 DEF Fits, Says, Keeps, Statuses

\* The client's loop keeps its types.
LEMMA ClientStep == ClientTyped /\ RetryTyped /\ ServerTyped /\ Truthful /\ [Next]_vars => ClientTyped'
<1> SUFFICES ASSUME ClientTyped, RetryTyped, ServerTyped, Truthful, [Next]_vars PROVE ClientTyped'
  OBVIOUS
<1> USE HTTPClientAssumption DEF ClientTyped, clientVars
<1>1. CASE Call
  BY <1>1 DEF Call, Send, RetryTyped
<1>2. CASE CallReturns
  BY <1>2 DEF CallReturns, Idle
<1>3. CASE CallerCancels
  BY <1>3 DEF CallerCancels
<1>4. CASE InClient
  <2>1. CASE Judge
    BY <2>1 DEF Judge, LastTry
  <2>2. CASE BackoffOver
    BY <2>2 DEF BackoffOver
  <2>3. CASE BackoffCanceled
    BY <2>3 DEF BackoffCanceled, Failed, Answer, Errors
  <2>4. CASE Helper
    <3>1. response' = response \/ response' = [response EXCEPT !.err = "body"]
      BY <2>4 DEF Helper
    <3>2. Answer(response)
      BY <2>4 DEF Helper
    <3>3. Answer(response')
      BY <3>1, <3>2 DEF Answer, Errors
    <3> QED
      BY <2>4, <3>3 DEF Helper
  <2> QED
    BY <1>4, <2>1, <2>2, <2>3, <2>4 DEF InClient
<1>5. CASE Timeout
  BY <1>5 DEF Timeout, ClientTimeout
<1>6. ASSUME NEW r, Answer(r), RoundTripReturns(r) PROVE ClientTyped'
  BY <1>6 DEF RoundTripReturns
<1>7. CASE Refused \/ Lost \/ GivenUp
  <2>1. \A e \in Errors : Answer(Failed(e))
    BY DEF Answer, Failed
  <2> QED
    BY <1>6, <1>7, <2>1 DEF Refused, Lost, GivenUp, Errors
<1>8. CASE Answered
  <2>1. Current \in Attempts
    BY <1>8, CurrentIs, AttemptsAre DEF Answered, ServerTyped, UnderWay, Begun
  <2>2. Answer(Responded(answer[Current].status))
    BY <1>8, <2>1, StatusesAre DEF Answered, Answer, Responded
  <2> QED
    BY <1>6, <1>8, <2>2 DEF Answered
<1>9. CASE UNCHANGED clientVars
  BY <1>9
<1> QED
  BY <1>1, <1>2, <1>3, <1>4, <1>5, <1>7, <1>8, <1>9 DEF Next, Retrying, Connect, InServerStep, Elsewhere, vars

\* The service keeps its types, whoever calls.
LEMMA ServerTypedStep == ServerTyped /\ Truthful /\ [Next]_vars => ServerTyped'
<1> SUFFICES ASSUME ServerTyped, Truthful, [Next]_vars PROVE ServerTyped'
  OBVIOUS
<1> DEFINE Max == Cardinality(Attempts)
<1>1. PICK n \in 0..Max : Begun(n)
  BY DEF ServerTyped
<1>2. Current = n /\ Max \in Nat /\ Attempts = 1..Max
  BY <1>1, CurrentIs, AttemptsAre
<1> HIDE DEF Max
<1>3. ASSUME UNCHANGED http, client = "exec" => client' = "exec" \/ ~UnderWay PROVE Begun(n)'
  BY <1>1, <1>3 DEF Begun, UnderWay
<1>4. ASSUME UnderWay, NEW s \in {"answered", "cut"}, http' = [http EXCEPT ![Current] = s]
      PROVE  Begun(n)' /\ http' \in [Attempts -> {"unsent", "open", "answered", "cut"}]
  BY <1>1, <1>2, <1>4 DEF Begun, UnderWay, ServerTyped
<1>5. /\ call' \in [Attempts -> {"none", "called", "ended"}]
      /\ doer' \in Attempts \cup {Nobody, Other}
  <2>1. CASE UNCHANGED <<call, doer>>
    BY <2>1 DEF ServerTyped
  <2>2. ASSUME NEW k \in Attempts, InServerStep(k)
        PROVE  /\ call' \in [Attempts -> {"none", "called", "ended"}]
               /\ doer' \in Attempts \cup {Nobody, Other}
    <3>1. CASE HandlerReturns(k)
      <4>1. PICK h \in Handler(k), id \in IncomingIDs(k) :
              doer' = h.by /\ Returns(k, Chain(h.result, rpcCtx[k], id))
        BY <3>1 DEF HandlerReturns
      <4>2. doer # k
        BY <3>1 DEF HandlerReturns, Truthful, Attempt, Fits
      <4>3. h.by \in {doer, k}
        BY <4>2, HandlerFits DEF ResultFits, Truthful
      <4> QED
        BY <4>1, <4>3 DEF ServerTyped, Returns
    <3>2. CASE AuthRejects(k)
      BY <3>2 DEF AuthRejects, Returns, ServerTyped
    <3>3. CASE GatewayCalls(k) \/ GatewayRejects(k) \/ GatewayExpires(k) \/ Expire(k) \/ CancelArrives(k)
      BY <3>3 DEF GatewayCalls, GatewayRejects, GatewayExpires, Expire, CancelArrives, ServerTyped
    <3> QED
      BY <2>2, <3>1, <3>2, <3>3 DEF InServerStep
  <2>3. CASE Elsewhere
    BY <2>3 DEF Elsewhere, OtherDoes, ServerTyped
  <2> QED
    BY <2>1, <2>2, <2>3
       DEF Next, vars, serverVars, Call, CallReturns, CallerCancels, Retrying, InClient, Timeout,
           Connect, Refused, Answered, Lost, GivenUp
<1>6. http' \in [Attempts -> {"unsent", "open", "answered", "cut"}] /\ \E m \in 0..Max : Begun(m)'
  <2>1. CASE Connect
    <3>1. n + 1 \in Attempts /\ http' = [http EXCEPT ![n + 1] = "open"] /\ client' = "exec" /\ ~UnderWay
      BY <1>2, <2>1 DEF Connect, Exchange, clientVars
    <3>2. Begun(n + 1)'
      BY <1>1, <1>2, <3>1 DEF Begun, UnderWay, ServerTyped
    <3> QED
      BY <1>2, <3>1, <3>2 DEF ServerTyped
  <2>2. CASE Answered \/ Lost \/ (GivenUp /\ UnderWay)
    <3>1. UnderWay /\ \E s \in {"answered", "cut"} : http' = [http EXCEPT ![Current] = s]
      BY <2>2 DEF Answered, Lost, GivenUp, Exchange, Abandoned
    <3> QED
      BY <1>4, <3>1
  <2>3. ASSUME UNCHANGED http, client = "exec" => client' = "exec" \/ ~UnderWay
        PROVE  http' \in [Attempts -> {"unsent", "open", "answered", "cut"}] /\ \E m \in 0..Max : Begun(m)'
    BY <1>3, <2>3 DEF ServerTyped
  <2>4. CASE Refused \/ (GivenUp /\ ~UnderWay)
    BY <2>3, <2>4 DEF Refused, GivenUp, serverVars
  <2>5. CASE Call \/ CallReturns \/ CallerCancels \/ Retrying \/ InClient \/ Timeout
    <3>1. UNCHANGED http
      BY <2>5 DEF Call, CallReturns, CallerCancels, Retrying, InClient, Timeout, serverVars
    <3>2. client = "exec" => client' = "exec"
      BY <2>5 DEF Call, Send, CallReturns, Idle, CallerCancels, Retrying, InClient, Judge, BackoffOver,
                  BackoffCanceled, Helper, Timeout, ClientTimeout, clientVars
    <3> QED
      BY <2>3, <3>1, <3>2
  <2>6. CASE (\E k \in Attempts : InServerStep(k)) \/ Elsewhere \/ UNCHANGED vars
    <3>1. UNCHANGED <<http, client>>
      BY <2>6 DEF InServerStep, GatewayCalls, GatewayRejects, GatewayExpires, AuthRejects, HandlerReturns,
                  Returns, Expire, CancelArrives, Elsewhere, OtherDoes, clientVars, vars, serverVars
    <3> QED
      BY <2>3, <3>1
  <2> QED
    BY <2>1, <2>2, <2>4, <2>5, <2>6 DEF Next
<1> QED
  BY <1>5, <1>6 DEF ServerTyped, Max

Typed == RetryTyped /\ ClientTyped /\ ServerTyped /\ Truthful

\* Everything starts idle.
LEMMA TypedInit == Init => Typed
<1> SUFFICES ASSUME Init PROVE Typed
  OBVIOUS
<1>1. RetryTyped
  BY CfgTyped DEF Init, RetryInit, RetryTyped
<1>2. ClientTyped
  BY HTTPClientAssumption DEF Init, ClientInit, ClientTyped
<1>3. Begun(0)
  BY AttemptsAre DEF Init, ServerInit, Begun
<1>4. ServerTyped
  BY <1>3, AttemptsAre DEF Init, ServerInit, ServerTyped
<1> QED
  BY <1>1, <1>2, <1>4, TruthfulInit DEF Typed

\* The four parts keep their types together.
LEMMA TypedStep == Typed /\ [Next]_vars => Typed'
BY RetryStep, ClientStep, ServerTypedStep, TruthfulStep DEF Typed

\* Every variable has its type, and one exchange at most is under way, the last
\* one, while the client waits for it (http.Client, the gateway's connections).
THEOREM TypeCorrect == Spec => []TypeOK
<1>1. Typed => TypeOK
  <2> SUFFICES ASSUME Typed PROVE TypeOK
    OBVIOUS
  <2>1. /\ retry \in {"check", "fn", "sleep", "over", "panicked"}
        /\ attempt \in 1..Cfg.MaxAttempts /\ result \in Errors \cup {NoError}
        /\ interval \in 0..(IF Cfg.MaxInterval > Cfg.InitialInterval THEN Cfg.MaxInterval ELSE Cfg.InitialInterval)
        /\ ctx \in {"live", "canceled"}
    BY CfgTyped DEF Typed, RetryTyped
  <2>2. /\ reqCtx \in {"live", "deadline", "canceled"}
        /\ client \in {"idle", "exec", "judge", "backoff", "read", "over", "panicked"}
        /\ tries \in 0..(RetryCount + 1)
        /\ response = NoResponse \/ (response.status \in Statuses \cup {0} /\ response.err \in Errors \cup {"none"})
    BY DEF Typed, ClientTyped, Answer
  <2>3. ASSUME NEW k \in Attempts
        PROVE  /\ answer[k] # Nobody => answer[k].status \in Statuses
               /\ \A i \in DOMAIN log[k] : log[k][i].code \in Codes
    <3>1. answer[k] # Nobody => answer[k].status \in Statuses
      BY StatusesAre DEF Typed
    <3>2. log[k] = <<>> \/ \E code \in Codes, id \in IDs(request, k) : log[k] = <<[code |-> code, id |-> id]>>
      BY DEF Typed, Truthful, Attempt, Fits, Keeps, Written
    <3>3. CASE log[k] = <<>>
      BY <3>1, <3>3
    <3>4. ASSUME NEW code \in Codes, NEW id, log[k] = <<[code |-> code, id |-> id]>>
          PROVE  \A i \in DOMAIN log[k] : log[k][i].code \in Codes
      <4>1. DOMAIN log[k] = {1} /\ log[k][1] = [code |-> code, id |-> id]
        BY <3>4
      <4> QED
        BY <4>1
    <3> QED
      BY <3>1, <3>2, <3>3, <3>4
  <2>4. \A k \in Attempts : http[k] = "open" => k = Current /\ client = "exec"
    BY CurrentIs, AttemptsAre DEF Typed, ServerTyped, Begun
  <2> QED
    BY <2>1, <2>2, <2>3, <2>4 DEF TypeOK, Typed, ServerTyped
<1> QED
  BY <1>1, TypedInit, TypedStep, PTL DEF Spec
=============================================================================
