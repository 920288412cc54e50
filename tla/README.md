# Verification of go-feature-based-boilerplate

This directory holds TLA+ models of the service in `src/`, the TLC
configurations that check them on small instances, and proofs, checked by
TLAPS, that hold for every instance. `PROJECT.json` maps every definition to
the lines it translates, and lists the runs, the mutants, the hazards and the
findings.

## 1. The system and its components

The program is a Go service: gRPC with an HTTP gateway in front, features
under `internal/`, infrastructure under `infrastructure/`, and a library of
concurrency and reliability helpers under `pkg/`.

| Component | State | Operations | What makes it correct | Modules |
|---|---|---|---|---|
| **auth** (`internal/auth`) | table `refresh_tokens`, tokens in the hands of clients | login, refresh (rotation with replay detection), logout | rotation is all or nothing, no session is lost by a failure, a dead token gets nothing, a replay kills its family; together, a store with atomic operations | TokenStore, AuthSessions, Server |
| **user** (`internal/user`) | table `users`, unique emails | create, find, update (`Save`), delete | no token outlives its user; a deleted or renamed user stays so | Users, AuthSessions, Server |
| **health** (`internal/health`) | none | check, ready | an unreachable database is answered as unavailable | Server |
| **singleflight** (`pkg/routine/singleflight.go`) | map of calls in flight, each with its followers' channels | `Do`, `DoChan`, `Forget` | every follower is served once, with the execution it joined; together, shared executions | SharedCalls, Singleflight |
| **pool** (`pkg/routine/pool.go`) | bounded queue, workers, closed flag | `Submit` (block or discard), `Stop` | it is a set of works: accepted tasks run once, `Stop` returns after them | Pool, WorkSet |
| **group** (`pkg/routine/group.go`) | wait group, semaphore, first error, context | `Submit`, `Wait` | no slot or count leaks, what `Wait` says is true | Group |
| **routine** (`pkg/routine/routine.go`) | tracker of background goroutines | `Go`, `GoDetached`, `Safe`, `WaitForShutdown` | goroutines are waited for before the database closes | Lifecycle |
| **retry** (`pkg/routine/retry.go`) | attempt, interval | `Retry` | attempts and waits bounded, the context obeyed | Retry, Calls |
| **httpclient** (`pkg/httpclient`) | round trip, open bodies | JSON helpers over the retrying transport | bounded by its timeout, no body left open, an operation not done twice unnoticed | HTTPClient, Calls |
| **idempotency** (`pkg/idempotency`) | one record per key: in progress or completed, with expiry; memory map or Redis | `Executor.Execute` over `Lock`, `Get`, `Set`, `Delete` | at most one success per key, no two executions at once | Idempotency |
| **middleware** (`infrastructure/middleware`) | none | recovery, logging, timeout, error and auth interceptors | which answer the client gets, and which line the log, for which outcome | Server, Calls |
| **gateway** (`bootstrap/gateway.go`, `gen/pb/*.gw.go`) | none | routing, decoding, header matching, error handler, envelope | every answer carries the request's id and its status | Server, Calls |
| **bootstrap** (`bootstrap/`, `cmd/api`) | the two servers, the phase of start or shutdown | `InitializeApp`, `StartGRPC`, `StartHTTPGateway`, `Shutdown` | order of draining, bounded end | Lifecycle |
| **pagination** (`pkg/pagination`) | none; a client's walk | offsets, cursors, sort clauses | a walk shows every row once, also while rows change | Pagination, Listing |
| **database** | open transactions | `RunInTransaction` | commit or rollback as a whole | AuthSessions |

How they interact. A request enters the gateway, which calls the service's own
gRPC server; the interceptors bound it with a deadline and translate errors;
handlers call usecases; usecases call repositories, which join the transaction
in the context if there is one. Handlers may launch background work with
`routine.Go`. At shutdown the gateway is drained, then the gRPC server, then
the tracker of background goroutines, and only then the database is closed.
PostgreSQL is shared by all requests: they interact through rows, row locks,
unique indexes and the foreign key of `refresh_tokens`. `singleflight`, `pool`,
`group`, `idempotency`, `retry`, `httpclient` and `pagination` are libraries
that the features may use; their callers are the environment of their models,
taken from the examples in the packages' documentation. In `Calls` the caller
of `httpclient` inside `Retry` is a client of this service.

Hard behaviours:

- statements of two transactions at READ COMMITTED, where each statement has
  its own snapshot and an `UPDATE` that waited re-evaluates only the rows it
  had found;
- deletion of a user against logins, rotations and updates of that user: the
  foreign key, the cascade and the rotation lock in different orders, and
  GORM's `Save` inserts what it cannot update;
- a response that is lost or replaced by `DeadlineExceeded` after its commit,
  and a client that repeats the request by itself;
- retries inside retries, each with its own idea of what to repeat;
- what runs after a mutex was released: sends, the read of a counter, a removal
  from a map that may by then hold another record;
- a flag tested before a channel send, and closed in between;
- semaphores and wait groups on the paths of panic, skip and early return;
- locks that expire under their holder, with commands whose reply is lost;
- a walk through pages of a table that changes;
- start and shutdown racing new work, the deadline racing its own steps.

`PROJECT.json` lists each of these as a hazard at its line.

## 2. Modules

`MC<Module>.tla` extends a module for TLC: it defines sample inputs and
symmetry sets, and states as assumptions, which TLC evaluates, what the pure
operators compute. `<Module>Proofs.tla` holds theorems.

    Group    Idempotency    Lifecycle
    TokenStore    <--implements--   AuthSessions
    SharedCalls   <--implements--   Singleflight
    WorkSet       <--implements--   Pool
    Users, Pagination   <--extends--   Listing
    Retry, HTTPClient, Server   <--extends--   Calls

### AuthSessions, TokenStore

*Code*: `login.go`, `refresh.go`, `logout.go`, `delete.go`, the two
repositories, `tx_manager.go`, the migrations.

Requests are slots that serve one usecase after another. `pc[r]` is the next
SQL statement of slot `r`, so each statement is one step and any number of
other steps can come between two. A refresh goes through

    FindToken -> RevokeToken -> FindByID -> CreateToken -> Commit -> Reply
             \-> Snapshot -> RevokeAll -> Rejected

The committed tables are `users`, `stored`, `revoked`, `expired` and `owner`.
What a transaction has written and not committed is not in the tables; it
follows from `pc`, and so do the locks: `HoldsRow` (a row updated by an open
transaction), `HoldsShare` (the user whose key an open `INSERT` refers to) and
`HoldsUser` (the user being deleted). `CommitRotation` publishes both writes of
a rotation in one step, and `Fail`, possible at every step, drops them: one
action for statement errors, expired deadlines, crashes of the process and
responses lost after the commit, since all leave the same tables behind. The
family revocation is two steps, `SnapshotFamily` and `RevokeAllUserTokens`,
because the one `UPDATE` takes its snapshot first and may then wait for rows of
other transactions. The deletion is two steps for the same reason. `parent`,
`loggedOut`, `killed`, `seen` and `stale` record history for the properties and
guard nothing.

`TokenStore` says what all this is for, without statements, locks or failures:
tokens are issued, exchanged, revoked and given to clients, and a user is
forgotten with all of its tokens and nobody else's, each in one step. Its `rows`
are `stored`, its `live` tokens those of them that are not `revoked`. It promises
of an exchange that the old token was given to a client, that its row and user
are still there and that it is not live afterwards; not that it was live before,
as two overlapping refreshes both succeed (`ExchangedOnce`).

### Users

*Code*: `create.go`, `update.go`, `delete.go`, the user repository, the
migration's unique index, and GORM's `Save`, marked external.

No usecase of the user feature opens a transaction, so each statement commits
alone. `Create` and `Delete` are one step; an update is `FindByID`, then
`Save` (an `UPDATE` of every column), then, when that found no row,
`SaveInserts`. A refused `INSERT` still consumes its id, which is why ids are
never reused and a revived row is recognised. `expected` is history: the name
each row should have by the operations committed, or `Open` once it was
written while an update held it.

### Server

*Code*: `gateway.go`, `grpc.go`, `services.go`, all interceptors, the handlers,
the generated gateway and service code, `jwt.go`, the logger's level and request
id, the default of `config.go`.

The way of one HTTP request: `GatewayCalls` or `GatewayRejects` (a path
parameter, body or `Grpc-Timeout` that does not decode), then `AuthRejects` or
`HandlerReturns`, whose answer goes back through `Chain`: error interceptor,
timeout interceptor, logging, recovery, in the order of `NewGRPCServer`. A
context ends by `Expire` (its deadline) or `CancelArrives` (its client is
gone). Of the domain there is only `doer`: which attempt, or somebody else, has
inserted the user, deleted it, or exchanged the token; each handler is the set
of what it may return and who has done the operation then, including a
statement that commits and then fails.

### Retry, HTTPClient, Calls

*Code*: `retry.go`; `client.go`, `transport.go`, `options.go`.

`Retry` is the loop with its context; `HTTPClient` one call of a JSON helper
over the transport's loop, with the body of each response counted in `open`.
`Calls` composes them with `Server`: `fn` of `Retry` is an HTTP call, its round
trips reach the service's gateway (`Connect`), are refused, lost before or
after they took effect, answered, or given up. Exchanges are numbered over all
round trips of all calls, so that `doer` says which of them did the operation.

### Pagination, Listing

*Code*: `pagination.go`, `cursor.go`, `sort.go`, `gorm.go`; the table of Users.

`Pagination` has the package's functions as operators: normalisation, offsets
with integers that wrap, sort clauses from tokens, cursors. `Listing` is a
client that walks the users with them, by cursor or by page, while the actions
of `Users` change the table. The repository has no endpoint that lists: the
statements of the walk are those of the package's own examples and are marked
external. Where the sort clauses do not decide, the rows come in any order,
another one at each statement (`Results`). `Newest` is the one sequence of a set
of ids that `created_at DESC, id DESC` allows.

### Singleflight, SharedCalls

*Code*: `singleflight.go`. A record is named by the caller that registered it.
Each section under the mutex is one action (`Lead`, `Join`, `Unregister`,
`Forget`); the execution, every single send and the leader's unlocked read of
`dups` are steps of their own. Followers may give up at any time, as their
context may end. `Forget` may come at any time, from anybody.

`SharedCalls` says what sharing means without map, records, channels or counts:
a call starts an execution or takes part in one whose starter has no answer yet;
it returns how that execution ended, with a flag that says whether anybody else
took part, or leaves; and an execution starts while another one runs for the same
key only after a `Forget` of that key.

### Pool, WorkSet

*Code*: `pool.go`. `CheckSubmit` tests the flag and the context; the send is a
later step (`Enqueue`, `Discard`, `CancelSubmit` or `SendOnClosed`). `Stop` is
`BeginStop`, `CloseTasks`, `StopReturn`; `sync.Once` makes other callers wait
for the first. A task may itself submit, from the worker that executes it,
under the strategies in `NestedUnder`. The strategy is chosen in `Init`.

`WorkSet` says what a pool promises without queue, channel or strategy: a task
is refused or accepted, an accepted one runs once and at most `Width` run at a
time, and `Stop` returns only when all accepted ones have ended and accepts no
more. `Pool` implements it: the accepted tasks are those in the channel, the
running ones those of the workers, `Width` is the number of workers.

### Group

*Code*: `group.go`. `wg` and `sem` are counters changed exactly where the code
changes them, separate from `pc`, so that their balance is a property and not
a definition. `Submit` is called until `Wait` is; tasks end by success, error,
panic, by being skipped (context done when the goroutine starts) or dropped
(context done while `Submit` waits for a slot).

### Idempotency

*Code*: `executor.go`, `memory.go`, `redis.go`. One key. Every storage call is
one atomic step, as `MemoryStorage` holds its mutex for it and Redis executes
it as one command. The engine is chosen in `Init`: only the memory map shows a
record at the very instant of its expiry while also letting it be locked over,
and only Redis commands fail or lose their replies. `Crash` ends an execution
without release or record (process death, or a panic of the function, which
`Execute` does not recover). `late` becomes true when an execution is still
under way at the expiry of the lock it took.

### Lifecycle

*Code*: `app.go`, `main.go`, `wire_gen.go`, `routine.go`. `pc` is the phase:
initialisation, serving, and the steps of `Shutdown`. The two servers start in
goroutines of their own, in any order and also after the signal; a port that
cannot be had ends the process for gRPC and is only logged for HTTP. Requests
go gateway, handler, answer; background goroutines are launched by handlers or
by one another, sign off at the tracker, and only then recover from a panic, in
the order of the deferred function. `Go` tells the tracker before the goroutine
exists; `go routine.Safe(fn)` (the constant `Safes`) has a step between its
start and the moment the tracker hears of it. `expired` is the end of the 30
seconds of `main.go`. What is external (the refusal of new calls by a stopping
server, the gateway's client connection) is marked so in the map.

## 3. What the runs check

| Run | Instance | Result |
|---|---|---|
| `sessions` | 2 requests, 2 tokens, 1 user | safety properties hold, `TokenStore` is implemented, every request ends |
| `sessions_exchanged_once` | 3 tokens | **violated**: two overlapping refreshes both succeed |
| `users_update_revives` | 2 updates, 3 ids | **violated**: an update brings a deleted user back |
| `singleflight` | 3 callers, 2 keys | implements `SharedCalls`; every follower is served, correctly, and returns |
| `singleflight_forget` | 3 callers, 1 key | **violated**: after a `Forget`, executions overlap that nobody forgot |
| `pool` | 2 workers, 2 clients, 3 tasks, queue of 1 | implements `WorkSet`; tasks and `Stop` end |
| `pool_submit_stop` | as above, 2 tasks | **violated**: `Submit` panics on the closed channel |
| `group` | 4 tasks, limit 2 | balance, true verdicts, and `Wait` returns |
| `idempotency` | 3 requests, lock 2, record 3, clock to 5 | at most one success while nothing is late |
| `lifecycle` | 2 gateway requests, 1 call, 3 goroutines (one through `Safe`) | order of shutdown, and it ends |
| `calls` | 13 sample requests, 2 calls of 2 round trips, 2 of which reach the service | answers, log and bodies are right; callers and handlers end |
| `listing` | 3 ids, 1 update, 2 names, 3 emails, pages of 1 or 2 | walks are complete; only overlapping updates undo |

**sessions.** `RotationAtomic`: a successor exists only together with the
revocation of its predecessor, for the same user. `NoSessionLost`: every
revoked token was logged out, killed by a replay, or replaced by a committed
successor; a failure between the two writes never costs a session.
`DeadTokenGrantsNothing`: a token revoked or deleted when it is presented
never reaches the writing steps. `ReplayKillsFamily`: after the revocation,
nothing that was stored at detection is usable, though rows may be locked,
deleted or rotated in between. `NoOrphanToken`: deletion never leaves a row
behind; this is where the foreign key's lock matters, and the mutant without it
fails. `ImplementsTokenStore`: what the statements of all requests do to the
tables is a sequence of whole operations of `TokenStore`. `RequestEnds`: a rotation locks its token row and then the user, through
the foreign key, a deletion the user and then the token rows, through the
cascade; PostgreSQL breaks the deadlock, and without the detector the mutant
waits for ever. Two requests suffice for every pairwise race and two tokens for
a login and a rotation; the proofs cover any number of both. With two users
nothing new interacts, as tokens of different users share no row or lock.
What `TokenStore` says of other users' tokens is empty with one user; there the
theorem `SessionsAreATokenStore` is what shows it.

**calls.** The sample has every method of the service, and for the ones whose
answer depends on it a malformed body, an invalid field, a token that is
missing, expired, of another user or names none, deadlines of the client below
and above the server's, and both spellings of the request id. `AnswersTrue`
says what a caller may conclude from an answer although its client repeats
requests by itself: 200 means this very attempt did it, 404 and 409 that an
earlier attempt or somebody else did, 400, 401 and 403 that this attempt did
nothing; 5xx leaves it open. `LoggedOnce` ties the log to what was answered: one
entry per call, panics included, with the id of the response and its code, unless
the deadline the client gave had the gateway answer before the service did. `BodiesClosed` counts open bodies over every way
out of the loop and the helper. `CallEnds` needs the client's timeout;
`HandlersEnd` that a handler always has a deadline, its client's or the
server's. Two calls of two round trips make a retry inside a retry; the waits
{2, 100} are one whose jitter panics and one whose does not.
The assumptions of `MCCalls`: `RoutesReachServices` (verb and path name one
method, every method has a route), `AnswersAreSorted` (no error is answered as a
success, and of the service's own answers `httpclient` repeats exactly those for
a deadline and an unavailable dependency), `TokensNameUsers`,
`OptionsKeepWaiting`, `BackoffDoubles` and `BackoffWraps` (the wait doubles up to
its maximum, and far out wraps below zero, with durations of 14 bits), and
`RetryIntervalsCapped`.

**listing.** `CursorWalkComplete`: whatever happens to the table meanwhile, a
cursor walk returns no user twice and every user that was there all the time.
`OffsetWalkComplete`: a walk by pages does the same if the table does not change
and the sort clauses include the id; without the latter it fails, as ties may
come in another order. `OverlapAloneUndoes`: a committed rename or deletion is
undone only by an update that had read the row before, never by the statements
that follow. Three users and pages of one and two give walks of one to four
windows. The assumptions of `MCListing`: `SortIsFirstMention`, `PagesTile`,
`WindowsEnd` compare the operators with definitions over all small inputs;
`OverflowShowsFirstPage` shows the wrap of the offset, with integers up to 7.

**singleflight.** `NoWaiterLost` and `WaiterReturns` say that a follower is
registered, served or about to be, and that it returns, also when its entry was
forgotten, replaced or removed by another execution. `ResultOfJoined` excludes
results of other executions. `SharedFlagExact` concerns the read of `dups` after
the unlock. `ForgetAloneOverlaps` says that executions for a key overlap only
after a `Forget` of that key. `ImplementsSharedCalls` says all this of the calls
together: nobody joins an execution that was already answered, and all who take
part are told the same. Three callers are a leader, a follower and a second leader.

**pool.** `ImplementsWorkSet` covers tasks accepted between the closed flag and
the closing of the channel, refused tasks that must stay so, and a `Submit` that
panics in a task. `AcceptedEnds` is about panicking tasks, `StopReturns` about
concurrent `Stop`s. A queue of one with three tasks makes it full and makes
submitters wait. Tasks that submit do so under `StrategyDiscard`: under
`StrategyBlock` they can block the pool for ever (see Findings).

**group.** `SlotsBalance`, `NothingOutlivesWait` and `WaitReturns` are about the
counters on all five paths, `VerdictTrue` about what the error or the nil of
`Wait` says of the tasks. Four tasks under a limit of two are enough for two
running, one waiting at the semaphore and one not yet submitted.

**idempotency.** `AtMostOnce`, `Exclusive` and `CompletedKept` hold as long as
no execution outlives its lock. The clock goes beyond both lifetimes, so that
records and locks expire in the run.

**lifecycle.** `UsersKeepDB`: handlers find the database open even if the
deadline passes, goroutines launched with `Go` unless `WaitForShutdown` reported
a timeout. `GatewayCallsFinish` holds until the deadline. `ShutdownEnds` needs
handlers that return, not background goroutines that do.

`CHECK_DEADLOCK FALSE` is set where the system may stop: in `calls` when the
caller has its answer, in `listing` and `users_update_revives` when the ids are
used up.

### Fairness

- AuthSessions: strong fairness on each request's steps, because PostgreSQL
  serves lock waiters in order, and weak fairness on the deadlock detector.
  No fairness on `Fail`, on new requests or on time.
- Calls: weak fairness on the steps of caller and client, on the client's timer
  and on the end of a round trip whose context ended, as `net/http` returns
  then; on a handler's deadline, and on the return of a handler *whose context
  has ended*. A handler need not return before, the network need not answer,
  nobody has to cancel.
- Singleflight: weak fairness per caller: the Go scheduler runs every
  goroutine, and the function called is assumed to return. None on giving up
  or on `Forget`.
- Pool: weak fairness on workers (tasks return) and on a `Stop` under way,
  strong fairness on a blocked submitter, since channels serve their senders
  first in first out. Nobody has to call `Stop`.
- Group: strong fairness per task for the same reason at the semaphore's
  channel; the owner of the group does call `Wait`. The parent need not end.
- Lifecycle: the shutdown, its deadline and the requests move on, as the
  timeout interceptor ends the context of a handler; background goroutines
  need not end, and nobody has to send the signal.

### Findings

The four violated runs are disagreements between the code and what its
comments or the README say; `PROJECT.json` quotes both. Further ones met while
modelling, for which the models leave the code's behaviour in and the
properties are stated around it:

Sessions and users
- The family revocation misses the successor of a rotation that is still open
  when it takes its snapshot: that successor stays usable. If the `UPDATE`
  fails, its error is discarded (`refresh.go:115`).
- Every error of the `SELECT`, a lost connection too, is answered as wrong
  credentials (`login.go:50`) or as a token not found (`refresh.go:63`).
- `httpclient` repeats `POST /auth/refresh` by itself after a 504 or a lost
  answer; the service takes the second one for a replay and revokes the family.

Requests
- Under the server's deadline a success that comes too late is answered
  `DeadlineExceeded` although it is committed (`timeout_interceptor.go:62`).
- A context error that a repository has wrapped in an `AppError` becomes 500
  instead of 504 under a client's own deadline (`error_interceptor.go`).
- A panic is logged by the recovery and not as a request (`grpc.go:29`).
- A `Grpc-Metadata-X-Request-ID` header gives the log another id than the
  response has (`gateway.go:207`).
- The JSON helpers of `httpclient` do not look at the status of the answer.
- The first interval of `Retry`, and every jitter, may exceed `MaxInterval`.

Routines
- `Group`: when the parent context or `WithTimeout` ends, tasks are skipped
  and `Wait` returns nil; `group.go:80-81` speaks of an error that `Submit`
  does not return.
- `Pool`: a task that submits to its own full pool under `StrategyBlock`, or
  stops it, can block for ever.
- `Singleflight`: an `fn` that calls `Do` for its own key waits for itself.
- `routine.Go`: the tracker is released before the panic handler runs
  (`routine.go:77`), so `WaitForShutdown` can report success too early for the
  panic to be logged.
- `routine.Safe`: the new goroutine tells the tracker itself, so one that was
  started and has not run yet is not waited for, and the database closes under
  it; `routine.go:133-134` counts `Safe` among what `WaitForShutdown` waits
  for.

Idempotency
- An execution that outlives its lock is repeated, and then sets or deletes a
  record it no longer owns (`executor.go:117`).
- A request that looked before another completed and locks after it is told
  `ErrConcurrentRequest`, though none is active (`idempotency.go:28-29`).

Start and shutdown
- A gateway request that comes before the gRPC server listens is answered 503.
- An HTTP port that cannot be had is only logged (`app.go:81`): the process
  goes on without its gateway.
- `GracefulStop` is not bounded by the context of `Shutdown`; a handler that
  ignores its own deadline holds the process.

Pagination
- `HasPrev` follows from the first row's cursor (`cursor.go:155`), so it is true
  on the first window as well; `cursor.go:110` speaks of records before it.
- `sort.go:73` names the form `field_desc`, which the code does not split.

## 4. Proofs

The proofs are for any value of the constants that satisfies the assumptions
named in the modules: `None` is no request, token, task, caller, outcome, name,
email or row; in Pool the workers are finitely many, at least one, and no clients; in
Lifecycle a request is not both a gateway request and a direct call; in Server
every request names a method of the services, as the gateway has no route to
another; in Calls the attempts are numbered from one, finitely many; in Listing
page sizes are integers, names finitely many, ids fit into an `int`, and what
`SQL` makes of a sort parameter is a list of clauses (`SortAssumption`: `SQL` is
a fold, so TLC evaluates this for the parameters of the run and the provers take
it from there).

**AuthSessionsProofs** proves the safety properties of the run `sessions`, that
clients hold only committed tokens (`DeliveryFollowsCommit`), that the statements
implement `TokenStore`, and hence that a dead token is never usable again
(`DeadTokensStayDead`). Five layers, each an inductive invariant under the ones
before it:

1. `Typed` is the type invariant with what a request carries at each step
   (`Inputs`). `TypeOK` alone is not inductive: a commit stores the token a
   request drew, which is a token only because of where the request is.
2. `Rotations` adds `Minting`: a drawn token has no row, and nobody else has
   drawn it. Hence a commit changes neither the owner nor the parent of an older
   row, which gives `RotationAtomic`. `NoSessionLost` follows from it with the
   lemma `WhoRevokes`, which names the three actions that touch `revoked` or its
   causes.
3. `Replays` adds that rows are only ever added for tokens nobody presents and
   no snapshot has seen, and that the snapshot of a family `UPDATE` contains
   every unrevoked row of `seen`.
4. `Owners` adds `Exclusion`, that a transaction about to commit and a deletion
   about to cascade never concern the same user, and `Cascaded`, that the
   snapshot of the cascade has every row of its user. Without `Exclusion`, which
   the foreign key's lock provides, neither the step of `CommitRotation` nor
   that of `CascadeDelete` is provable.
5. `Rows` adds `RowsKept`, that the row a rotation has updated is there until it
   ends, as the cascade waits for the row's lock, and `OneFamily`, that a snapshot
   is all of one user.

The refinement has one lemma per operation: `CommitExchanges` needs `Rows` (the
old row is there), `Owners` (its user is) and `Minting` (the new token is fresh);
`CascadeForgets` needs `Cascaded` and `OneFamily` (exactly the user's rows go) and
`NoOrphanToken` (a user that is already gone has none). `Silent` names the
statements that change nothing the store shows.

**SingleflightProofs** proves the safety properties of the run `singleflight`,
and that no channel is sent to twice (`SendsNeverBlock`): `Registered` (an entry
of the map is a record whose leader has not unregistered it), `Delivery` (where
a channel is), `Outcome` (what is put into it), `Flag` (the count against who
joined) and `Attached` (until a `Forget` of it, the entry of a key is the record
being executed). With `Pending` (what a call has before it returns) they give the
refinement of `SharedCalls`, again one lemma per operation: `LeadStarts` rests on
`Attached`, `JoinTakesPart` on `Registered`, `LeaderReturns` on the exact count,
and `ReceiveReturns` on `Outcome`.

**PoolProofs** proves that `Pool` implements `WorkSet`. The invariant `Places`
says that every task is in one place: `Sending` (a task whose `Submit` has
passed the checks is in no queue), `Queueing` (the channel holds a task once, as
"queued"), `Executing` (one worker per task, and one whose loop has not ended)
and `Leaving` (a worker leaves only after the channel is closed and empty, and
`Stop` returns after the last worker). It is needed at three steps: an `Enqueue`
is an acceptance only because the task is nowhere else and no `Stop` has
returned, a `Take` is a start only because the other workers hold one task each
(`RoomForOne`, by counting), and a `StopReturn` finds nothing accepted or running
only because of `Leaving`.

**LifecycleProofs** proves the three safety properties of the run `lifecycle`
from `Order`, which tells the order of `main` and `Shutdown` by what it excludes:
nothing serves before initialisation, no handler runs after `GracefulStop`, no
tracked goroutine after a wait that did not time out, and no gateway request is
left, before the deadline, when the gRPC server stops.

**ListingProofs** proves `OverlapAloneUndoes` for Users and, since a walk takes no
part in what is written (`WalksOnlyWatch`), for Listing, and that walks are
complete. The invariant `Undoing`
adds `HeldIsCurrent`: the row an update holds has the name the update was asked
for, or the name the row is expected to keep, until somebody else writes it; and
`IdsAreFresh`: a row with an id that is still to come does not exist, so a create
never meets an update that holds its id.

`CursorWalkComplete` follows from `CursorAt`: what the walk still has to show is
exactly what lies below its cursor (`Unseen`). A user that was there all the time
is shown or below the cursor, and a user that was shown is not below it. A window
cuts the sequence of what is below after `size` rows (`CutFrom`), and the order of
`created_at` and id is total, so the last row shown separates the two (`Probed`,
`WindowIs`), and the `WHERE` clause asks for just what is not seen yet
(`BelowIsUnseen`). Neither side depends on which rows are there, which is why
creates, deletes and late updates do not disturb it.

`OffsetWalkComplete` follows from `PageAt`: while the table stays and the clauses
decide, every row has one place in every sequence the `SELECT` may give (`Place`,
the number of rows that come no later: `Placed`, `PlacesStay`), page `n` has the
places `(n - 1) * size + 1` to `n * size` (`Pages`, with an offset that does not
wrap: `NotWrapped`), and the pages before it have shown exactly the places before
those (`Behind`). That a row's place is its position needs counting only, no
induction over the sequence.

**IdempotencyProofs** proves the safety properties of the run `idempotency` from
`Owning`, whose core is `HolderOwnsRecord`: while nothing was late, the record is
the holder's own lock and expires exactly at its deadline. Two holders would own
one record. `SuccessIsKept` carries a success from the end of the function to the
record and up to its expiry.

**GroupProofs** proves the safety properties of the run `group`. `Counted` and
`Slotted` say that `wg` and `sem` are the cardinalities of the sets of tasks
under way and of tasks with a slot; `Counting` shows for each step that the set
and the counter change together. `Told` is what is known of a task by where it is,
and that a canceled context, and so a skipped task, has a cause.

**CallsProofs** proves the safety properties of the run `calls`. `OneBody` says
that `open` is one exactly while a response is judged or read. `Truthful` says of
every attempt, by a predicate on the values that concern it (`Fits`), what its
answer may be by where its call is, and that its log is empty until the call ends
and then has the code answered; the lemmas `HandlerFits` and `ChainIs` take a
handler's result through the interceptors, for every method and every context.
`Begun` numbers the exchanges, which makes `Current` the last one.

The properties of the runs were checked by TLC on their instances before they
were proved. The types of Singleflight and Group and `DeadTokensStayDead` are
proved only. Every safety property of a passing run is stated by a theorem.
What is model-checked only: all liveness properties (`RequestEnds`,
`WaiterReturns`, `AcceptedEnds`, `StopReturns`, `WaitReturns`, `ShutdownEnds`,
`CallEnds`, `HandlersEnd`), which rest on fairness, beyond the prover; and the
assumptions about pure operators in `Listing`, `MCCalls` and `MCListing`: they
are about folds, or compare values over small inputs, and what a fold gives for
every input takes induction over the data.

## 5. Not modelled

- **metrics**, **telemetry**, **cache**, **mongo**, **swagger**, the **company
  client**: counters and constructors of clients; no state of their own that
  steps could get wrong, and nothing in `src/` calls the cache, mongo or the
  company client.
- **database**: opening the connection pool. Its transactions are in
  AuthSessions.
- **config**: `Load` passes values through, but for the server's timeout, whose
  default is in Server.
- **helpers**: of the token, hash, error and logger packages the parts that
  decide something are in Server (validation of a token, codes, levels, request
  ids); the rest are pure conversions, and where one can fail, the step that
  calls it can.
- **gateway**: CORS, the documentation and metrics endpoints, and the text of
  messages. **Generated code**: messages and descriptors; routes, services and
  what is decoded before a call are in Server.
- In AuthSessions: validation, password comparison and signing (each can only
  end the request, which `Fail` covers), the claims inside access tokens, time
  other than expiry. In Users: the hash of a password and the role.
- Timeouts of single methods in the timeout interceptor: `NewGRPCServer` passes
  none.

## 6. Plan

Done: the modules above; proofs of every safety property that a passing run
checks, and of the refinements of `WorkSet`, `TokenStore` and `SharedCalls`.

What is left:

1. An abstract specification of Idempotency (a key is executed with success at
   most once, and its result answered to all) that also says what is promised
   once an execution outlives its lock.
2. Action properties of Lifecycle: the order in which `Shutdown` closes what it
   closes, as a refinement of a list of stages.
3. The timeouts of single methods, should `NewGRPCServer` come to pass some.
