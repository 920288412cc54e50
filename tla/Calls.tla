------------------------------- MODULE Calls -------------------------------
(***************************************************************************)
(* A caller reaches the service with httpclient inside routine.Retry, the  *)
(* use the documentation of the two packages shows, over a network that    *)
(* refuses connections and loses answers.                                  *)
(***************************************************************************)
EXTENDS Retry, HTTPClient, Server, FiniteSets

ASSUME CallsAssumption == IsFiniteSet(Attempts) /\ Attempts = 1..Cardinality(Attempts)

vars == <<retryVars, clientVars, serverVars>>

\* The exchanges with the service are numbered over all round trips and calls:
\* the last one begun, and whether it is under way.
Current == Cardinality({k \in Attempts : http[k] # "unsent"})
UnderWay == \E k \in Attempts : http[k] = "open"

TypeOK ==
  /\ retry \in {"check", "fn", "sleep", "over", "panicked"}
  /\ attempt \in 1..Cfg.MaxAttempts /\ result \in Errors \cup {NoError}
  /\ interval \in 0..(IF Cfg.MaxInterval > Cfg.InitialInterval THEN Cfg.MaxInterval ELSE Cfg.InitialInterval)
  /\ ctx \in {"live", "canceled"} /\ reqCtx \in {"live", "deadline", "canceled"}
  /\ client \in {"idle", "exec", "judge", "backoff", "read", "over", "panicked"}
  /\ tries \in 0..(RetryCount + 1)
  /\ response = NoResponse \/ (response.status \in Statuses \cup {0} /\ response.err \in Errors \cup {"none"})
  /\ http \in [Attempts -> {"unsent", "open", "answered", "cut"}]
  /\ call \in [Attempts -> {"none", "called", "ended"}]
  /\ \A k \in Attempts :
       /\ answer[k] # Nobody => answer[k].status \in Statuses
       /\ \A i \in DOMAIN log[k] : log[k][i].code \in Codes
       /\ http[k] = "open" => k = Current /\ client = "exec"
  /\ doer \in Attempts \cup {Nobody, Other}

Init == RetryInit /\ ClientInit /\ ServerInit

-----------------------------------------------------------------------------
(* The caller *)

Call == retry = "fn" /\ Send(ctx) /\ UNCHANGED <<retryVars, serverVars>>

\* fn returns the helper's error, and a panic is not recovered.
CallReturns ==
  \/ /\ retry = "fn" /\ client = "over"
     /\ FnReturns(IF response.err = "none" THEN NoError ELSE response.err)
     /\ Idle
     /\ UNCHANGED serverVars
  \/ /\ retry = "fn" /\ client = "panicked"
     /\ retry' = "panicked"
     /\ UNCHANGED <<attempt, interval, result, ctx, clientVars, serverVars>>

\* The context of the request is the caller's until its own deadline.
CallerCancels ==
  /\ retry \notin {"over", "panicked"} /\ Cancel
  /\ reqCtx' = IF Running /\ reqCtx = "live" THEN "canceled" ELSE reqCtx
  /\ UNCHANGED <<client, tries, response, open, waitMin, serverVars>>

Retrying ==
  (CheckCtx \/ Wake \/ SleepCanceled) /\ UNCHANGED <<clientVars, serverVars>>

InClient ==
  (Judge \/ BackoffOver \/ BackoffCanceled \/ Helper) /\ UNCHANGED <<retryVars, serverVars>>

Timeout == ClientTimeout /\ UNCHANGED <<retryVars, serverVars>>

-----------------------------------------------------------------------------
(* The network *)

Exchange(k, state) == http' = [http EXCEPT ![k] = state]

\* Attempts bounds the exchanges that reach the service.
Connect ==
  /\ client = "exec" /\ reqCtx = "live" /\ ~UnderWay /\ Current + 1 \in Attempts
  /\ Exchange(Current + 1, "open")
  /\ UNCHANGED <<retryVars, clientVars, request, call, rpcCtx, answer, log, doer>>

Refused ==
  /\ client = "exec" /\ ~UnderWay
  /\ RoundTripReturns(Failed("refused"))
  /\ UNCHANGED <<retryVars, serverVars>>

Answered ==
  /\ client = "exec" /\ UnderWay /\ answer[Current] # Nobody
  /\ RoundTripReturns(Responded(answer[Current].status))
  /\ Exchange(Current, "answered")
  /\ UNCHANGED <<retryVars, request, call, rpcCtx, answer, log, doer>>

\* The connection breaks: a reset, or an end of file in the middle.
Lost ==
  /\ client = "exec" /\ UnderWay
  /\ \E e \in {"reset", "EOF"} : RoundTripReturns(Failed(e))
  /\ Abandoned(Current)
  /\ UNCHANGED <<retryVars, request, call, rpcCtx, log, doer>>

\* A round trip ends with its context, whether it was under way or not.
GivenUp ==
  /\ client = "exec" /\ reqCtx # "live"
  /\ RoundTripReturns(Failed(reqCtx))
  /\ IF UnderWay THEN Abandoned(Current) ELSE UNCHANGED <<http, answer>>
  /\ UNCHANGED <<retryVars, request, call, rpcCtx, log, doer>>

-----------------------------------------------------------------------------

InServerStep(k) ==
  /\ \/ GatewayCalls(k) \/ GatewayRejects(k) \/ GatewayExpires(k)
     \/ AuthRejects(k) \/ HandlerReturns(k)
     \/ Expire(k) \/ CancelArrives(k)
  /\ UNCHANGED <<retryVars, clientVars>>

Elsewhere == OtherDoes /\ UNCHANGED <<retryVars, clientVars>>

Next ==
  \/ Call \/ CallReturns \/ CallerCancels \/ Retrying \/ InClient \/ Timeout
  \/ Connect \/ Refused \/ Answered \/ Lost \/ GivenUp
  \/ \E k \in Attempts : InServerStep(k)
  \/ Elsewhere

\* The caller's and the client's own steps, the client's timer and the end of
\* a round trip whose context ended are taken, and so is the deadline of a
\* handler; a handler need not return before its context has ended.
Fairness ==
  /\ WF_vars(Call) /\ WF_vars(CallReturns) /\ WF_vars(Retrying) /\ WF_vars(InClient)
  /\ WF_vars(Timeout) /\ WF_vars(GivenUp)
  /\ \A k \in Attempts :
       /\ WF_vars(Expire(k) /\ UNCHANGED <<retryVars, clientVars>>)
       /\ WF_vars(rpcCtx[k] # "live" /\ (AuthRejects(k) \/ HandlerReturns(k)) /\ UNCHANGED <<retryVars, clientVars>>)

Spec == Init /\ [][Next]_vars /\ Fairness

-----------------------------------------------------------------------------
(* Properties *)

\* A repeated request is answered for itself: it is told that the operation was
\* done exactly if it did it, that it was refused for the user's sake only if
\* an earlier attempt or somebody else had done it, and that it was wrong only
\* if it did nothing.  Answers for the service's failures leave it open, and so
\* does the 404 of a refresh, which also stands for them
\* (the handlers, ErrorInterceptor, TimeoutInterceptor, GatewayErrorHandler).
AnswersTrue ==
  \A k \in Attempts : answer[k] # Nobody =>
    CASE answer[k].status = 200 -> request.method \in {"CreateUser", "DeleteUser", "Refresh"} => doer = k
      [] answer[k].status \in {404, 409} -> request.method \in UserService => doer \notin {Nobody, k}
      [] answer[k].status \in {400, 401, 403} -> doer # k
      [] OTHER -> TRUE

\* Every call that the server has finished is in its log once (unless the level
\* hides it), a panic too, with the request id of its response and with the code
\* that was answered, unless the deadline the client gave had the gateway answer
\* before (the order of the interceptors in NewGRPCServer,
\* responseEnvelopeMiddleware, the header matcher).
LoggedOnce ==
  \A k \in Attempts : call[k] = "ended" =>
    /\ Len(log[k]) <= 1 /\ (Enabled("info") => Len(log[k]) = 1)
    /\ answer[k] # Nobody =>
         \A i \in DOMAIN log[k] :
           /\ request.alias = Nobody => answer[k].id = log[k][i].id
           /\ \/ answer[k].status = HTTPStatusFromCode[log[k][i].code]
              \/ request.deadline > 0 /\ answer[k].status = 504

\* Between round trips, and after the call, however it ended, no response body
\* is left open, and there is never more than one (RoundTrip, the JSON helpers).
BodiesClosed ==
  /\ open \in 0..1
  /\ client \in {"idle", "exec", "backoff", "over", "panicked"} => open = 0

\* The caller gets its answer, whatever network and service do
\* (http.Client.Timeout bounds the retries as a whole).
CallEnds == <>(retry \in {"over", "panicked"})

\* A handler does not stay in the server: it has a deadline, its client's or
\* the server's (TimeoutInterceptor).
HandlersEnd == \A k \in Attempts : call[k] = "called" ~> call[k] = "ended"
=============================================================================
