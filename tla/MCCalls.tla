------------------------------ MODULE MCCalls ------------------------------
(* Small instances of Calls for TLC, and the pure parts against definitions. *)
EXTENDS Calls

CONSTANTS GivenID, AliasID   \* values of the two headers

Twice == [MaxAttempts |-> 2, InitialInterval |-> 0, BackoffFactor |-> 2, MaxInterval |-> 150, Jitter |-> TRUE]

Token(id) == [signed |-> TRUE, expired |-> FALSE, userID |-> id, subject |-> 1]

Plain(method) ==
  [method |-> method, malformed |-> "none", invalid |-> FALSE, token |-> Nobody, user |-> 1,
   id |-> Nobody, alias |-> Nobody, deadline |-> 0]

Sample == {
  [Plain("CreateUser") EXCEPT !.deadline = 5, !.id = GivenID],
  [Plain("CreateUser") EXCEPT !.invalid = TRUE],
  [Plain("CreateUser") EXCEPT !.malformed = "body"],
  [Plain("DeleteUser") EXCEPT !.token = Token(1), !.deadline = 20],
  [Plain("DeleteUser") EXCEPT !.token = Token(2)],
  [Plain("DeleteUser") EXCEPT !.token = [Token(1) EXCEPT !.expired = TRUE]],
  [Plain("GetUser") EXCEPT !.token = Token(0)],
  [Plain("UpdateUser") EXCEPT !.token = Token(1)],
  Plain("Login"), Plain("Refresh"), Plain("Logout"),
  [Plain("Check") EXCEPT !.deadline = 20, !.alias = AliasID],
  Plain("Ready") }

-----------------------------------------------------------------------------
(* The pure parts *)

\* Verb and path name one method, every method of every service has a route,
\* and the methods that need no token are methods of a service.
ASSUME RoutesReachServices ==
  /\ \A r, s \in Routes : r[1] = s[1] /\ r[2] = s[2] => r = s
  /\ {r[3] : r \in Routes} = Services
  /\ publicMethods \subseteq Services

\* No error is answered as a success, no client's error is answered as one to
\* repeat, and of the service's own answers the client repeats exactly those
\* for a deadline and an unavailable dependency.
ASSUME AnswersAreSorted ==
  /\ \A e \in {"AlreadyExists", "NotFound", "InvalidInput", "Unauthorized", "Forbidden", "wrapped", "plain", "Unavailable"},
        c \in {"live", "deadline", "canceled"} : ErrorInterceptor(e, c) # "OK"
  /\ {code \in Codes : ShouldRetry(Responded(HTTPStatusFromCode[code]))} = {"DeadlineExceeded", "Unavailable"}

\* A token names its user by the claim, or else by the subject.
ASSUME TokensNameUsers ==
  \A t \in [signed : BOOLEAN, expired : BOOLEAN, userID : 0..1, subject : 0..2] :
    (ValidateToken(t) # 0) <=> t.signed /\ ~t.expired /\ t.userID + t.subject > 0

\* The options leave a configuration that waits, and never one without a
\* timeout.
ASSUME OptionsKeepWaiting ==
  \A timeout, min, max \in -1..1, count \in -1..2 :
    LET c == WithRetry(WithTimeout(DefaultConfig, timeout), count, min, max) IN
      c.Timeout > 0 /\ c.RetryCount >= 0 /\ c.RetryWaitMin > 0 /\ c.RetryWaitMax > 0

\* The client's wait doubles up to its maximum while it fits a duration; later
\* on it wraps, and the jitter may panic.
ASSUME BackoffDoubles ==
  \A n \in 1..8, min \in 5..9 :
    LET wait == Backoff(n, min, 2000) IN
      /\ wait <= 2000 /\ ~JitterPanics(wait)
      /\ n > 1 /\ wait < 2000 => wait = 2 * Backoff(n - 1, min, 2000)

ASSUME BackoffWraps == \E n \in 9..14 : JitterPanics(Backoff(n, 9, 2000))

\* Retry's wait grows to MaxInterval and, but for the first and the jitter,
\* never beyond it.
ASSUME RetryIntervalsCapped ==
  \A first \in 0..9, factor \in 0..3, cap \in 0..9, jitter \in BOOLEAN :
    LET c == ApplyDefaults([MaxAttempts |-> 0, InitialInterval |-> first, BackoffFactor |-> factor,
                            MaxInterval |-> cap, Jitter |-> jitter])
        wait[n \in 1..5] == IF n = 1 THEN c.InitialInterval ELSE NextInterval(wait[n - 1], c)
    IN \A n \in 2..5 :
         /\ wait[n] <= c.MaxInterval
         /\ wait[n] >= wait[n - 1] \/ wait[n] = c.MaxInterval
         /\ \A d \in SleepRange(wait[n], c) : 4 * d <= 5 * c.MaxInterval
=============================================================================
