----------------------------- MODULE HTTPClient -----------------------------
(***************************************************************************)
(* Package httpclient: one call of a JSON helper, which reads and closes   *)
(* the body, over the transport that repeats a request after a transient   *)
(* failure.  The timeout of the client bounds the whole call, the waits    *)
(* included.                                                               *)
(***************************************************************************)
EXTENDS Integers

CONSTANTS RetryCount,
          RetryWaitMins,  \* values of RetryWaitMin
          RetryWaitMax,
          DurationMax,    \* the largest time.Duration
          NoResponse

ASSUME HTTPClientAssumption ==
  /\ RetryCount \in Nat /\ RetryWaitMins \subseteq Nat \ {0}
  /\ RetryWaitMax \in Nat \ {0} /\ DurationMax \in Nat

VARIABLES
  client,     \* the next step of the call
  tries,      \* the round trip of the call, from 1
  response,   \* what the last one returned
  open,       \* response bodies not yet closed
  reqCtx,     \* the request's context: live, deadline or canceled
  waitMin     \* RetryWaitMin

clientVars == <<client, tries, response, open, reqCtx, waitMin>>

Errors == {"refused", "reset", "EOF", "deadline", "canceled", "body"}
Statuses == {200, 400, 401, 403, 404, 409, 429, 499, 500, 502, 503, 504}

\* A round trip returns a response or an error.
Responded(s) == [status |-> s, err |-> "none"]
Failed(e) == [status |-> 0, err |-> e]

\* Durations wrap.
Duration(n) == ((n + DurationMax + 1) % (2 * (DurationMax + 1))) - (DurationMax + 1)

\* The options ignore what is not positive.
WithRetry(cfg, count, min, max) ==
  [cfg EXCEPT !.RetryCount = IF count > 0 THEN count ELSE @,
              !.RetryWaitMin = IF min > 0 THEN min ELSE @,
              !.RetryWaitMax = IF max > 0 THEN max ELSE @]

WithTimeout(cfg, timeout) == [cfg EXCEPT !.Timeout = IF timeout > 0 THEN timeout ELSE @]

DefaultConfig == [Timeout |-> 15000, RetryCount |-> 0, RetryWaitMin |-> 100, RetryWaitMax |-> 2000]

\* The wait before jitter.  A wait below 5 has no jitter to draw: rand.Int63n
\* panics, and it does when doubling has wrapped below zero.
Backoff(n, min, max) ==
  LET wait == Duration(min * 2 ^ (n - 1)) IN IF wait > max THEN max ELSE wait

JitterPanics(wait) == wait < 5

\* Failures of the network, an expired deadline (context.DeadlineExceeded is a
\* net.Error) and four statuses; neither a canceled context nor an EOF.
ShouldRetry(r) ==
  \/ r.err \in {"refused", "reset", "deadline"}
  \/ r.err = "none" /\ r.status \in {429, 502, 503, 504}

ClientInit ==
  /\ client = "idle" /\ tries = 0 /\ response = NoResponse
  /\ open = 0 /\ reqCtx = "live" /\ waitMin \in RetryWaitMins

-----------------------------------------------------------------------------

\* http.Client derives the request's context from the caller's.
Send(callerCtx) ==
  /\ client = "idle"
  /\ client' = "exec" /\ tries' = 1 /\ reqCtx' = callerCtx
  /\ UNCHANGED <<response, open, waitMin>>

RoundTripReturns(r) ==
  /\ client = "exec"
  /\ client' = "judge" /\ response' = r
  /\ open' = open + (IF r.err = "none" THEN 1 ELSE 0)
  /\ UNCHANGED <<tries, reqCtx, waitMin>>

\* Mutant: the body of the failed attempt is left open.
CloseBeforeRetry_Never == open

\* The body of the failed attempt is drained and closed.
CloseBeforeRetry == IF response.err = "none" THEN open - 1 ELSE open

\* Mutant: one round trip too many.
LastTry_OffByOne == tries > RetryCount + 1

LastTry == tries = RetryCount + 1

Judge ==
  /\ client = "judge"
  /\ IF ~ShouldRetry(response) \/ LastTry
       THEN client' = "read" /\ UNCHANGED <<open, response>>
       ELSE /\ open' = CloseBeforeRetry /\ response' = NoResponse
            /\ client' = IF JitterPanics(Backoff(tries, waitMin, RetryWaitMax))
                           THEN "panicked" ELSE "backoff"
  /\ UNCHANGED <<tries, reqCtx, waitMin>>

\* The select takes either branch when both are ready.
BackoffOver ==
  /\ client = "backoff"
  /\ client' = "exec" /\ tries' = tries + 1
  /\ UNCHANGED <<response, open, reqCtx, waitMin>>

BackoffCanceled ==
  /\ client = "backoff" /\ reqCtx # "live"
  /\ client' = "read" /\ response' = Failed(reqCtx)
  /\ UNCHANGED <<tries, open, reqCtx, waitMin>>

\* The helper returns the error; or reads the body, which may fail, into the
\* target and closes it.  It does not look at the status.
Helper ==
  /\ client = "read"
  /\ client' = "over"
  /\ \/ /\ response.err # "none"
        /\ UNCHANGED <<response, open>>
     \/ /\ response.err = "none"
        /\ open' = open - 1
        /\ response' \in {response} \cup {[response EXCEPT !.err = "body"]}
  /\ UNCHANGED <<tries, reqCtx, waitMin>>

Running == client \notin {"idle", "over", "panicked"}

\* Mutant: an http.Client without Timeout.
ClientTimeout_Unset == FALSE /\ UNCHANGED clientVars

ClientTimeout ==
  /\ Running /\ reqCtx = "live" /\ reqCtx' = "deadline"
  /\ UNCHANGED <<client, tries, response, open, waitMin>>

\* The caller has the response; the next call starts from here.
Idle ==
  /\ client = "over"
  /\ client' = "idle" /\ tries' = 0 /\ response' = NoResponse /\ reqCtx' = "live"
  /\ UNCHANGED <<open, waitMin>>
=============================================================================
