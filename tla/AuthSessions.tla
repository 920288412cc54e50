---------------------------- MODULE AuthSessions ----------------------------
(***************************************************************************)
(* Refresh-token sessions: the login, refresh (rotation), logout and user  *)
(* deletion usecases running concurrently against PostgreSQL at its        *)
(* default isolation level, READ COMMITTED.                                *)
(*                                                                         *)
(* Each request runs one usecase, one SQL statement per step.  A row       *)
(* written by an open transaction is locked until that transaction ends;   *)
(* the locks are not variables, they follow from where each request is     *)
(* (HoldsRow, HoldsShare, HoldsUser).  A transaction's own writes are      *)
(* published by its Commit step.  Any request may fail at any step (a      *)
(* statement error, the deadline of its context, a crash of the process, a *)
(* response that is lost): Fail rolls back whatever it had open.           *)
(***************************************************************************)
EXTENDS Naturals, FiniteSets

CONSTANTS Requests,   \* the request slots of the service
          Users,      \* user ids
          Tokens,     \* hashes of refresh tokens, known or yet to be drawn
          None        \* no user or no token

ASSUME NoneAssumption == None \notin Users \cup Tokens

VARIABLES
  users,      \* users table
  stored,     \* refresh_tokens: the committed rows
  revoked,    \* tokens whose committed row has revoked = true
  expired,    \* tokens past expires_at
  owner,      \* user_id of every token that was ever committed
  parent,     \* history: the token a rotation consumed to create this one
  known,      \* raw tokens some client has received
  pc,         \* the step each request is about to take
  arg,        \* the token a request presented
  uid,        \* the user a request logs in or deletes
  mint,       \* the token a request has drawn
  victims,    \* rows in the snapshot of RevokeAllUserTokens or of a cascade
  loggedOut,  \* history: tokens revoked by a logout
  killed,     \* history: tokens revoked by a family revocation
  seen,       \* history: the family stored when the replay was detected
  stale       \* history: the token was already dead when it was presented

store == <<users, stored, revoked, expired, owner, parent>>
request == <<pc, arg, uid, mint, victims>>
history == <<loggedOut, killed, seen, stale>>
vars == <<store, known, request, history>>

Steps == {"idle", "FindToken", "RevokeToken", "FindByID", "CreateToken",
          "Commit", "Reply", "Snapshot", "RevokeAll", "Rejected",
          "FindByEmail", "LoginCreate", "Logout", "DeleteUser", "Cascade"}

InTransaction == {"FindToken", "RevokeToken", "FindByID", "CreateToken", "Commit"}

TypeOK ==
  /\ users \subseteq Users
  /\ stored \subseteq Tokens
  /\ revoked \subseteq Tokens
  /\ expired \subseteq Tokens
  /\ owner \in [Tokens -> Users \cup {None}]
  /\ parent \in [Tokens -> Tokens \cup {None}]
  /\ known \subseteq Tokens
  /\ pc \in [Requests -> Steps]
  /\ arg \in [Requests -> Tokens \cup {None}]
  /\ uid \in [Requests -> Users \cup {None}]
  /\ mint \in [Requests -> Tokens \cup {None}]
  /\ victims \in [Requests -> SUBSET Tokens]
  /\ loggedOut \subseteq Tokens
  /\ killed \subseteq Tokens
  /\ seen \in [Requests -> SUBSET Tokens]
  /\ stale \in [Requests -> BOOLEAN]

Init ==
  /\ users = Users
  /\ stored = {} /\ revoked = {} /\ expired = {}
  /\ owner = [t \in Tokens |-> None]
  /\ parent = [t \in Tokens |-> None]
  /\ known = {}
  /\ pc = [r \in Requests |-> "idle"]
  /\ arg = [r \in Requests |-> None]
  /\ uid = [r \in Requests |-> None]
  /\ mint = [r \in Requests |-> None]
  /\ victims = [r \in Requests |-> {}]
  /\ loggedOut = {} /\ killed = {}
  /\ seen = [r \in Requests |-> {}]
  /\ stale = [r \in Requests |-> FALSE]

-----------------------------------------------------------------------------
(* Locks *)

\* r updated row t and has not committed.
HoldsRow(r, t) == arg[r] = t /\ pc[r] \in {"FindByID", "CreateToken", "Commit"}

\* Mutant: no foreign key, hence no lock.
HoldsShare_NoForeignKey(r, u) == FALSE

\* The foreign-key check of r's INSERT keeps a key-share lock on its user.
HoldsShare(r, u) == pc[r] = "Commit" /\ owner[arg[r]] = u

\* r's DELETE holds the users row while the cascade waits for token rows.
HoldsUser(r, u) == pc[r] = "Cascade" /\ uid[r] = u

RowFree(t) == \A r \in Requests : ~HoldsRow(r, t)
UserFree(u) == \A r \in Requests : ~HoldsUser(r, u)
ShareFree(u) == \A r \in Requests : ~HoldsShare(r, u)

Family(u) == {t \in stored : owner[t] = u}

\* A hash nobody stored or is about to store: 256 random bits never collide.
Fresh(t) == owner[t] = None /\ \A r \in Requests : mint[r] # t

\* The bound on tokens: once all are used, GenerateRandomHex reports an error.
Exhausted == \A t \in Tokens : ~Fresh(t)

Goto(r, step) == pc' = [pc EXCEPT ![r] = step]

\* The request is over: its slot serves another one.
End(r) ==
  /\ Goto(r, "idle")
  /\ arg' = [arg EXCEPT ![r] = None]
  /\ uid' = [uid EXCEPT ![r] = None]
  /\ mint' = [mint EXCEPT ![r] = None]
  /\ victims' = [victims EXCEPT ![r] = {}]
  /\ seen' = [seen EXCEPT ![r] = {}]
  /\ stale' = [stale EXCEPT ![r] = FALSE]

-----------------------------------------------------------------------------
(* Refresh *)

\* A client presents any token it was ever given, spent or not.
BeginRefresh(r, t) ==
  /\ pc[r] = "idle" /\ t \in known
  /\ Goto(r, "FindToken")
  /\ arg' = [arg EXCEPT ![r] = t]
  /\ stale' = [stale EXCEPT ![r] = t \in revoked \/ t \notin stored]
  /\ UNCHANGED <<store, known, uid, mint, victims, loggedOut, killed, seen>>

\* Mutant: the revoked flag is not looked at.
Usable_EvenRevoked(t) == t \in stored \ expired

\* The stored token may be rotated.
Usable(t) == t \in stored \ (revoked \cup expired)

\* A plain SELECT: it sees what is committed and locks nothing.
FindTokenByValue(r) ==
  /\ pc[r] = "FindToken"
  /\ LET t == arg[r] IN
     \/ /\ t \in stored \cap revoked
        /\ Goto(r, "Snapshot")
        /\ seen' = [seen EXCEPT ![r] = Family(owner[t])]
        /\ UNCHANGED <<arg, uid, mint, victims, stale>>
     \/ /\ Usable(t)
        /\ Goto(r, "RevokeToken")
        /\ UNCHANGED <<arg, uid, mint, victims, seen, stale>>
     \/ /\ t \notin stored \/ t \in expired \ revoked
        /\ End(r)
  /\ UNCHANGED <<store, known, loggedOut, killed>>

\* Mutant: the UPDATE runs outside the transaction and commits at once.
RevokeToken_OutsideTx(r) ==
  /\ pc[r] = "RevokeToken" /\ RowFree(arg[r]) /\ arg[r] \in stored
  /\ revoked' = revoked \cup {arg[r]}
  /\ Goto(r, "FindByID")
  /\ UNCHANGED <<users, stored, expired, owner, parent, known, arg, uid, mint,
                 victims, history>>

\* UPDATE ... WHERE token = ?: waits for the row, and matches it even if the
\* transaction it waited for has revoked it.
RevokeToken(r) ==
  /\ pc[r] = "RevokeToken" /\ RowFree(arg[r])
  /\ \/ /\ arg[r] \in stored
        /\ Goto(r, "FindByID")
        /\ UNCHANGED <<arg, uid, mint, victims, seen, stale>>
     \/ arg[r] \notin stored /\ End(r)
  /\ UNCHANGED <<store, known, loggedOut, killed>>

FindByID(r) ==
  /\ pc[r] = "FindByID"
  /\ \/ /\ owner[arg[r]] \in users
        /\ Goto(r, "CreateToken")
        /\ UNCHANGED <<arg, uid, mint, victims, seen, stale>>
     \/ owner[arg[r]] \notin users /\ End(r)
  /\ UNCHANGED <<store, known, loggedOut, killed>>

\* The INSERT checks its foreign key under a key-share lock on the user.
CreateToken(r) ==
  /\ pc[r] = "CreateToken" /\ UserFree(owner[arg[r]])
  /\ \/ /\ owner[arg[r]] \in users
        /\ \E t \in Tokens : Fresh(t) /\ mint' = [mint EXCEPT ![r] = t]
        /\ Goto(r, "Commit")
        /\ UNCHANGED <<arg, uid, victims, seen, stale>>
     \/ (owner[arg[r]] \notin users \/ Exhausted) /\ End(r)
  /\ UNCHANGED <<store, known, loggedOut, killed>>

\* Mutant: the old token is not revoked.
Rotate_KeepOld(old, new) ==
  /\ stored' = stored \cup {new}
  /\ owner' = [owner EXCEPT ![new] = owner[old]]
  /\ parent' = [parent EXCEPT ![new] = old]
  /\ UNCHANGED revoked

\* What the transaction writes.
Rotate(old, new) ==
  /\ stored' = stored \cup {new}
  /\ revoked' = revoked \cup {old}
  /\ owner' = [owner EXCEPT ![new] = owner[old]]
  /\ parent' = [parent EXCEPT ![new] = old]

\* RunInTransaction commits: both writes become visible at once.
CommitRotation(r) ==
  /\ pc[r] = "Commit"
  /\ Rotate(arg[r], mint[r])
  /\ Goto(r, "Reply")
  /\ UNCHANGED <<users, expired, known, arg, uid, mint, victims, history>>

\* Mutant: only the replayed token's own row.
Unrevoked_OnlyReplayed(r) == {arg[r]}

\* WHERE user_id = ? AND revoked = false
Unrevoked(r) == Family(owner[arg[r]]) \ revoked

\* The snapshot of the family UPDATE, a statement of its own after the
\* rollback: rows other transactions have not committed are not in it.
SnapshotFamily(r) ==
  /\ pc[r] = "Snapshot"
  /\ victims' = [victims EXCEPT ![r] = Unrevoked(r)]
  /\ Goto(r, "RevokeAll")
  /\ UNCHANGED <<store, known, arg, uid, mint, history>>

RevokeAllUserTokens(r) ==
  /\ pc[r] = "RevokeAll"
  /\ \A t \in victims[r] : RowFree(t)
  /\ revoked' = revoked \cup (victims[r] \cap stored)
  /\ killed' = killed \cup ((victims[r] \cap stored) \ revoked)
  /\ Goto(r, "Rejected")
  /\ UNCHANGED <<users, stored, expired, owner, parent, known, arg, uid, mint,
                 victims, loggedOut, seen, stale>>

\* The error of the family UPDATE is discarded and the client is answered
\* as if it had succeeded.
RevokeAllFails(r) ==
  /\ pc[r] \in {"Snapshot", "RevokeAll"}
  /\ Goto(r, "Rejected")
  /\ seen' = [seen EXCEPT ![r] = {}]
  /\ UNCHANGED <<store, known, arg, uid, mint, victims, loggedOut, killed, stale>>

\* ErrTokenRevoked is answered.
Reject(r) ==
  /\ pc[r] = "Rejected" /\ End(r)
  /\ UNCHANGED <<store, known, loggedOut, killed>>

\* Mutant: the client is sent back the token it presented.
Reply_OldToken(r) ==
  /\ pc[r] = "Reply"
  /\ known' = known \cup {arg[r]}
  /\ End(r)
  /\ UNCHANGED <<store, loggedOut, killed>>

\* The pair reaches the client.
Reply(r) ==
  /\ pc[r] = "Reply"
  /\ known' = known \cup {mint[r]}
  /\ End(r)
  /\ UNCHANGED <<store, loggedOut, killed>>

-----------------------------------------------------------------------------
(* Login, logout and deletion *)

BeginLogin(r, u) ==
  /\ pc[r] = "idle"
  /\ Goto(r, "FindByEmail")
  /\ uid' = [uid EXCEPT ![r] = u]
  /\ UNCHANGED <<store, known, arg, mint, victims, history>>

\* ErrInvalidCredentials, or the user is found and the password matches.
FindByEmail(r) ==
  /\ pc[r] = "FindByEmail"
  /\ \/ /\ uid[r] \in users
        /\ Goto(r, "LoginCreate")
        /\ UNCHANGED <<arg, uid, mint, victims, seen, stale>>
     \/ uid[r] \notin users /\ End(r)
  /\ UNCHANGED <<store, known, loggedOut, killed>>

LoginCreateToken(r) ==
  /\ pc[r] = "LoginCreate" /\ UserFree(uid[r])
  /\ \/ /\ uid[r] \in users
        /\ \E t \in Tokens :
             /\ Fresh(t)
             /\ mint' = [mint EXCEPT ![r] = t]
             /\ stored' = stored \cup {t}
             /\ owner' = [owner EXCEPT ![t] = uid[r]]
        /\ Goto(r, "Reply")
        /\ UNCHANGED <<users, revoked, expired, parent, arg, uid, victims, seen, stale>>
     \/ (uid[r] \notin users \/ Exhausted) /\ End(r) /\ UNCHANGED store
  /\ UNCHANGED <<known, loggedOut, killed>>

BeginLogout(r, t) ==
  /\ pc[r] = "idle" /\ t \in known
  /\ Goto(r, "Logout")
  /\ arg' = [arg EXCEPT ![r] = t]
  /\ UNCHANGED <<store, known, uid, mint, victims, history>>

LogoutRevokeToken(r) ==
  /\ pc[r] = "Logout" /\ RowFree(arg[r])
  /\ revoked' = revoked \cup ({arg[r]} \cap stored)
  /\ loggedOut' = loggedOut \cup (({arg[r]} \cap stored) \ revoked)
  /\ End(r)
  /\ UNCHANGED <<users, stored, expired, owner, parent, known, killed>>

\* The caller's access token names u; it outlives the user.
BeginDelete(r, u) ==
  /\ pc[r] = "idle"
  /\ Goto(r, "DeleteUser")
  /\ uid' = [uid EXCEPT ![r] = u]
  /\ UNCHANGED <<store, known, arg, mint, victims, history>>

\* DELETE FROM users locks the row, once nobody shares or holds it; the
\* cascade is a statement of its own, with its snapshot of the token rows.
LockUser(r) ==
  /\ pc[r] = "DeleteUser" /\ UserFree(uid[r]) /\ ShareFree(uid[r])
  /\ \/ /\ uid[r] \in users
        /\ Goto(r, "Cascade")
        /\ victims' = [victims EXCEPT ![r] = Family(uid[r])]
        /\ UNCHANGED <<arg, uid, mint, seen, stale>>
     \/ uid[r] \notin users /\ End(r)
  /\ UNCHANGED <<store, known, loggedOut, killed>>

\* Mutant: the foreign key does not say ON DELETE CASCADE.
CascadeDelete_KeepsRows(r) ==
  /\ pc[r] = "Cascade"
  /\ users' = users \ {uid[r]}
  /\ End(r)
  /\ UNCHANGED <<stored, revoked, expired, owner, parent, known, loggedOut, killed>>

\* ON DELETE CASCADE takes the token rows in its snapshot, then commits.
CascadeDelete(r) ==
  /\ pc[r] = "Cascade"
  /\ \A t \in victims[r] : RowFree(t)
  /\ users' = users \ {uid[r]}
  /\ stored' = stored \ victims[r]
  /\ End(r)
  /\ UNCHANGED <<revoked, expired, owner, parent, known, loggedOut, killed>>

-----------------------------------------------------------------------------
(* Failures and time *)

\* A statement fails, the deadline passes, the process dies: an open transaction
\* is rolled back; after the commit, the answer is lost.
Fail(r) ==
  /\ pc[r] # "idle"
  /\ End(r)
  /\ UNCHANGED <<store, known, loggedOut, killed>>

\* Mutant: nobody looks for deadlocks.
Deadlocked_Undetected(r, d) == FALSE

\* r inserts for a user whose row d holds while d's cascade waits for r's row.
Deadlocked(r, d) ==
  /\ pc[r] = "CreateToken" /\ HoldsUser(d, owner[arg[r]])
  /\ \E t \in victims[d] \cap stored : HoldsRow(r, t)

\* PostgreSQL's deadlock detector aborts one of the two.
BreakDeadlock(r, d) ==
  /\ Deadlocked(r, d)
  /\ End(r) \/ End(d)
  /\ UNCHANGED <<store, known, loggedOut, killed>>

Expire(t) ==
  /\ t \in stored \ expired
  /\ expired' = expired \cup {t}
  /\ UNCHANGED <<users, stored, revoked, owner, parent, known, request, history>>

Step(r) ==
  \/ FindTokenByValue(r) \/ RevokeToken(r) \/ FindByID(r) \/ CreateToken(r)
  \/ CommitRotation(r) \/ SnapshotFamily(r) \/ RevokeAllUserTokens(r) \/ Reject(r)
  \/ Reply(r) \/ FindByEmail(r) \/ LoginCreateToken(r) \/ LogoutRevokeToken(r)
  \/ LockUser(r) \/ CascadeDelete(r)

Begin(r) ==
  \/ \E t \in Tokens : BeginRefresh(r, t) \/ BeginLogout(r, t)
  \/ \E u \in Users : BeginLogin(r, u) \/ BeginDelete(r, u)

Next ==
  \/ \E r \in Requests : Begin(r) \/ Step(r) \/ RevokeAllFails(r) \/ Fail(r)
  \/ \E r, d \in Requests : BreakDeadlock(r, d)
  \/ \E t \in Tokens : Expire(t)

Spec == Init /\ [][Next]_vars

\* Every request is scheduled and reaches the database.  Lock queues are
\* first come first served, so a waiter is not passed over for ever, and the
\* detector breaks every deadlock.
FairSpec ==
  /\ Spec
  /\ \A r \in Requests : SF_vars(Step(r))
  /\ \A r, d \in Requests : WF_vars(BreakDeadlock(r, d))

-----------------------------------------------------------------------------
(* Properties *)

\* Rotation is all or nothing: a token created by a rotation is committed only
\* together with the revocation of the token it replaces, and for the same
\* user, whatever fails or interleaves.
RotationAtomic ==
  \A t \in Tokens : parent[t] # None =>
    parent[t] \in revoked /\ owner[parent[t]] = owner[t]

\* No session is lost: a token is revoked only by a logout, by a family
\* revocation, or by a rotation that committed its successor.
NoSessionLost == revoked \subseteq loggedOut \cup killed \cup {parent[t] : t \in Tokens}

\* A refresh that starts with a token already revoked or deleted never gets as
\* far as revoking it again and creating a successor.
DeadTokenGrantsNothing ==
  \A r \in Requests : stale[r] => pc[r] \in {"FindToken", "Snapshot", "RevokeAll", "Rejected"}

\* When a detected replay is answered and the family UPDATE succeeded, no row
\* stored when the replay was detected is still usable.
ReplayKillsFamily ==
  \A r \in Requests : pc[r] = "Rejected" => seen[r] \cap stored \subseteq revoked

\* A client is never handed a token whose row was not committed first.
DeliveredWasCommitted == \A t \in known : owner[t] # None

\* No row outlives its user: deletion and a concurrent login or rotation
\* never leave a token that belongs to nobody.
NoOrphanToken == \A t \in stored : owner[t] \in users

Store == INSTANCE TokenStore WITH
  rows <- stored, live <- stored \ revoked, held <- known

\* The store is atomic: statement by statement, with failures, deadlocks and
\* requests that overlap, the tables show nothing but logins, exchanges,
\* revocations and deletions that happened as a whole, an exchange for a token
\* whose row and user are still there, a deletion of all rows of one user.
ImplementsTokenStore == Store!StoreSpec

\* No request waits for ever: row locks, the foreign-key check against the
\* deletion cascade and the family UPDATE never block one another for good.
RequestEnds == \A r \in Requests : pc[r] # "idle" ~> pc[r] = "idle"

\* "ensure safe rotation", "Token Reuse Compromise Detection": a token is
\* exchanged at most once.  (Two overlapping refreshes refute it.)
ExchangedOnce ==
  \A s, t \in Tokens : parent[s] = parent[t] /\ parent[s] # None => s = t
=============================================================================
