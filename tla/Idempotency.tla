----------------------------- MODULE Idempotency -----------------------------
(***************************************************************************)
(* idempotency.Executor over its storage, for one key: requests that carry *)
(* the same key check the record, take the in-progress lock, run the       *)
(* business function, and complete or release the record.                  *)
(*                                                                         *)
(* Each call of the storage is one step, time passes between them, and     *)
(* records expire.  The lock has no owner: Set and Delete act on whatever  *)
(* the key holds.  The engine says how expiry looks at the very instant of *)
(* expires_at: the memory map still shows the record and lets it be        *)
(* locked over, Redis no longer has it.                                    *)
(***************************************************************************)
EXTENDS Naturals

CONSTANTS Requests, None,
          LockTTL, CompleteTTL,
          MaxTime      \* bound on the clock

ASSUME IdempotencyAssumption ==
  /\ LockTTL \in Nat \ {0} /\ CompleteTTL \in Nat \ {0} /\ MaxTime \in Nat
  /\ None \notin Requests

VARIABLES
  engine,      \* the storage: "memory" or "redis"
  now,         \* the clock
  status,      \* the record: its status, "none" when there is no item
  response,    \*   whose response it caches
  expires,     \*   expires_at
  pc,          \* the next step of each request
  deadline,    \* when the lock a request took expires
  result,      \* what Execute returned, and whose response if a value
  succeeded,   \* history: requests whose fn returned without error
  lost,        \* history: those of them whose completed record was not saved
  late         \* history: an execution outlived its lock

record == <<status, response, expires>>
history == <<succeeded, lost, late>>
vars == <<engine, now, record, pc, deadline, result, history>>

Results == [kind : {"none", "value", "conflict", "error"}, from : Requests \cup {None}]

TypeOK ==
  /\ engine \in {"memory", "redis"}
  /\ now \in Nat
  /\ status \in {"none", "IN_PROGRESS", "COMPLETED"}
  /\ response \in Requests \cup {None}
  /\ expires \in Nat
  /\ pc \in [Requests -> {"idle", "get", "lock", "fn", "set", "delete", "done"}]
  /\ deadline \in [Requests -> Nat]
  /\ result \in [Requests -> Results]
  /\ succeeded \subseteq Requests /\ lost \subseteq succeeded
  /\ late \in BOOLEAN

Init ==
  /\ engine \in {"memory", "redis"}
  /\ now = 0
  /\ status = "none" /\ response = None /\ expires = 0
  /\ pc = [r \in Requests |-> "idle"]
  /\ deadline = [r \in Requests |-> 0]
  /\ result = [r \in Requests |-> [kind |-> "none", from |-> None]]
  /\ succeeded = {} /\ lost = {} /\ late = FALSE

Goto(r, step) == pc' = [pc EXCEPT ![r] = step]

\* Execute returns.
Answer(r, kind, from) ==
  /\ Goto(r, "done")
  /\ result' = [result EXCEPT ![r] = [kind |-> kind, from |-> from]]

Holders == {r \in Requests : pc[r] \in {"fn", "set", "delete"}}

-----------------------------------------------------------------------------
(* Storage *)

Visible ==
  /\ status # "none"
  /\ IF engine = "memory" THEN now <= expires ELSE now < expires

\* Mutant: the lock is a plain write.
Lockable_Always == TRUE

Lockable == status = "none" \/ now >= expires

Store(s, from, ttl) ==
  status' = s /\ response' = from /\ expires' = now + ttl

Erase == status' = "none" /\ response' = None /\ expires' = 0

-----------------------------------------------------------------------------
(* Execute *)

Begin(r) ==
  /\ pc[r] = "idle" /\ Goto(r, "get")
  /\ UNCHANGED <<engine, now, record, deadline, result, history>>

Get(r) ==
  /\ pc[r] = "get"
  /\ \/ ~Visible /\ Goto(r, "lock") /\ UNCHANGED result
     \/ Visible /\ status = "COMPLETED" /\ Answer(r, "value", response)
     \/ Visible /\ status = "IN_PROGRESS" /\ Answer(r, "conflict", None)
     \/ engine = "redis" /\ Answer(r, "error", None)
  /\ UNCHANGED <<engine, now, record, deadline, history>>

Lock(r) ==
  /\ pc[r] = "lock"
  /\ \/ /\ Lockable
        /\ Store("IN_PROGRESS", None, LockTTL)
        /\ deadline' = [deadline EXCEPT ![r] = now + LockTTL]
        /\ Goto(r, "fn") /\ UNCHANGED result
     \/ /\ ~Lockable
        /\ Answer(r, "conflict", None)
        /\ UNCHANGED <<record, deadline>>
  /\ UNCHANGED <<engine, now, history>>

\* The command fails, or its reply is lost after it took effect.
LockFails(r) ==
  /\ pc[r] = "lock" /\ engine = "redis"
  /\ Answer(r, "error", None)
  /\ UNCHANGED record \/ (Lockable /\ Store("IN_PROGRESS", None, LockTTL))
  /\ UNCHANGED <<engine, now, deadline, history>>

Run(r) ==
  /\ pc[r] = "fn"
  /\ \/ Goto(r, "set") /\ succeeded' = succeeded \cup {r}
     \/ Goto(r, "delete") /\ UNCHANGED succeeded
  /\ UNCHANGED <<engine, now, record, deadline, result, lost, late>>

\* Mutant: the lock is released instead of completed.
Set_Releases(r) ==
  /\ pc[r] = "set"
  /\ Erase
  /\ Answer(r, "value", r)
  /\ UNCHANGED <<engine, now, deadline, history>>

\* The completed record replaces whatever the key holds.
Set(r) ==
  /\ pc[r] = "set"
  /\ Store("COMPLETED", r, CompleteTTL)
  /\ Answer(r, "value", r)
  /\ UNCHANGED <<engine, now, deadline, history>>

\* json.Marshal or the command fails, or the command's reply is lost.
SetFails(r) ==
  /\ pc[r] = "set"
  /\ Answer(r, "error", r)
  /\ \/ UNCHANGED record /\ lost' = lost \cup {r}
     \/ engine = "redis" /\ Store("COMPLETED", r, CompleteTTL) /\ UNCHANGED lost
  /\ UNCHANGED <<engine, now, deadline, succeeded, late>>

\* Mutant: the failure is recorded, in a status of its own.
Delete_MarksFailed(r) ==
  /\ pc[r] = "delete"
  /\ Store("FAILED", None, LockTTL)
  /\ Answer(r, "error", None)
  /\ UNCHANGED <<engine, now, deadline, history>>

\* fn failed: the key is released, whoever locked or completed it by now.
Delete(r) ==
  /\ pc[r] = "delete"
  /\ Erase \/ (engine = "redis" /\ UNCHANGED record)
  /\ Answer(r, "error", None)
  /\ UNCHANGED <<engine, now, deadline, history>>

\* The process dies, or fn panics through Execute: no release, no record.
Crash(r) ==
  /\ r \in Holders
  /\ Answer(r, "error", None)
  /\ lost' = lost \cup ({r} \cap succeeded)
  /\ UNCHANGED <<engine, now, record, deadline, succeeded, late>>

Tick ==
  /\ now < MaxTime
  /\ now' = now + 1
  /\ late' = (late \/ \E r \in Holders : now' >= deadline[r])
  /\ UNCHANGED <<engine, record, pc, deadline, result, succeeded, lost>>

Finished == (\A r \in Requests : pc[r] = "done") /\ UNCHANGED vars

Execute(r) ==
  \/ Begin(r) \/ Get(r) \/ Lock(r) \/ LockFails(r) \/ Run(r)
  \/ Set(r) \/ SetFails(r) \/ Delete(r) \/ Crash(r)

Next == (\E r \in Requests : Execute(r)) \/ Tick \/ Finished

Spec == Init /\ [][Next]_vars

-----------------------------------------------------------------------------
(* Properties *)

\* As long as no execution has outlived its lock, and while completed records
\* live, at most one request runs the business function to a success that is
\* saved; whatever commands fail, replies are lost and processes die.
AtMostOnce ==
  ~late /\ now < CompleteTTL => \A r, s \in succeeded \ lost : r = s

\* Until then, two requests never execute at the same time.
Exclusive == ~late => \A r, s \in Holders : r = s

\* Until then, a completed record leaves the storage only by expiring: no
\* failure deletes it, no other execution overwrites it.
CompletedKept ==
  [][status = "COMPLETED" /\ now < expires /\ ~late => UNCHANGED record]_vars
=============================================================================
