------------------------------- MODULE Retry -------------------------------
(***************************************************************************)
(* routine.Retry: a function called again, after a growing wait, while it  *)
(* fails.  What the function does is left to the module that extends this  *)
(* one.                                                                    *)
(***************************************************************************)
EXTENDS Naturals

CONSTANTS RetryConfig,   \* MaxAttempts, InitialInterval, BackoffFactor, MaxInterval
                         \* (times in milliseconds), Jitter
          RetryIf,       \* the errors it returns true for
          NoError

ASSUME RetryAssumption ==
  /\ RetryConfig.MaxAttempts \in Nat /\ RetryConfig.InitialInterval \in Nat
  /\ RetryConfig.BackoffFactor \in Nat /\ RetryConfig.MaxInterval \in Nat
  /\ RetryConfig.Jitter \in BOOLEAN /\ NoError \notin RetryIf

VARIABLES
  retry,      \* the next step of Retry
  attempt,    \* the attempt, from 1
  interval,   \* currentInterval
  result,     \* the error Retry returned
  ctx         \* the caller's context: live or canceled

retryVars == <<retry, attempt, interval, result, ctx>>

ApplyDefaults(c) ==
  [MaxAttempts |-> IF c.MaxAttempts = 0 THEN 3 ELSE c.MaxAttempts,
   InitialInterval |-> IF c.InitialInterval = 0 THEN 100 ELSE c.InitialInterval,
   BackoffFactor |-> IF c.BackoffFactor <= 1 THEN 2 ELSE c.BackoffFactor,
   MaxInterval |-> IF c.MaxInterval = 0 THEN 5000 ELSE c.MaxInterval,
   Jitter |-> c.Jitter]

Cfg == ApplyDefaults(RetryConfig)

\* How long a wait may last: up to a quarter more, and so possibly longer than
\* MaxInterval.
SleepRange(i, c) == IF c.Jitter /\ i \div 4 > 0 THEN i..(i + i \div 4 - 1) ELSE {i}

\* The cap is applied from the second wait on.
NextInterval(i, c) == IF i * c.BackoffFactor > c.MaxInterval THEN c.MaxInterval ELSE i * c.BackoffFactor

RetryInit ==
  /\ retry = "check" /\ attempt = 1 /\ interval = Cfg.InitialInterval
  /\ result = NoError /\ ctx = "live"

Return(err) == retry' = "over" /\ result' = err /\ UNCHANGED <<attempt, interval, ctx>>

CheckCtx ==
  /\ retry = "check"
  /\ \/ ctx = "live" /\ retry' = "fn" /\ UNCHANGED <<attempt, interval, result, ctx>>
     \/ ctx # "live" /\ Return(ctx)

FnReturns(err) ==
  /\ retry = "fn"
  /\ IF err = NoError \/ attempt = Cfg.MaxAttempts \/ err \notin RetryIf
       THEN Return(err)
       ELSE retry' = "sleep" /\ UNCHANGED <<attempt, interval, result, ctx>>

\* With both the timer and the context ready, the select takes either.
Wake ==
  /\ retry = "sleep"
  /\ retry' = "check" /\ attempt' = attempt + 1 /\ interval' = NextInterval(interval, Cfg)
  /\ UNCHANGED <<result, ctx>>

SleepCanceled == retry = "sleep" /\ ctx # "live" /\ Return(ctx)

Cancel == ctx = "live" /\ ctx' = "canceled" /\ UNCHANGED <<retry, attempt, interval, result>>
=============================================================================
