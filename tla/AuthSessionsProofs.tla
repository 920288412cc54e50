-------------------------- MODULE AuthSessionsProofs --------------------------
(***************************************************************************)
(* The safety properties of AuthSessions, for any number of requests,      *)
(* users and tokens.                                                       *)
(*                                                                         *)
(* Five inductive invariants, each resting on those before it:             *)
(*   Typed      types, and what a request carries at each of its steps;    *)
(*   Rotations  nobody else has the token a rotation has drawn, and what   *)
(*              the committed rows say of one another;                     *)
(*   Replays    what a dead token can lead to, and what the snapshot of a  *)
(*              family revocation may miss;                                *)
(*   Owners     the foreign key's lock keeps a deletion and a commit apart;*)
(*   Rows       the row lock keeps what a rotation updates from deletion.  *)
(* With them every statement is one step of TokenStore, or none.           *)
(***************************************************************************)
EXTENDS AuthSessions, TLAPS

(* Types *)

\* The steps at which a request carries the token of a refresh.
InRefresh == {"FindToken", "RevokeToken", "FindByID", "CreateToken", "Commit",
              "Snapshot", "RevokeAll", "Rejected"}

Inputs ==
  \A r \in Requests :
    /\ pc[r] \in InRefresh \cup {"Logout"} => arg[r] \in known
    /\ pc[r] \in {"FindByEmail", "LoginCreate", "DeleteUser", "Cascade"} => uid[r] \in Users
    /\ pc[r] \in {"Commit", "Reply"} => mint[r] \in Tokens

Typed == TypeOK /\ Inputs

\* Every request starts idle and carries nothing.
LEMMA TypedInit == Init => Typed
BY DEF Init, Typed, TypeOK, Steps, Inputs, InRefresh

\* A request that ends carries nothing.
LEMMA Ends ==
  ASSUME Typed, NEW r \in Requests, End(r), UNCHANGED <<store, known, loggedOut, killed>>
  PROVE  Typed'
<1> USE DEF Typed, End, Goto, store
<1>1. TypeOK'
  BY DEF TypeOK, Steps
<1>2. Inputs'
  BY DEF TypeOK, Inputs, InRefresh
<1> QED
  BY <1>1, <1>2

\* A request goes on to a step for which it carries enough.
LEMMA Moves ==
  ASSUME Typed, NEW r \in Requests, NEW s \in Steps, Goto(r, s),
         UNCHANGED <<store, known, arg, uid, mint, loggedOut, killed, stale>>,
         victims' \in [Requests -> SUBSET Tokens], seen' \in [Requests -> SUBSET Tokens],
         s \in InRefresh \cup {"Logout"} => arg[r] \in known,
         s \in {"FindByEmail", "LoginCreate", "DeleteUser", "Cascade"} => uid[r] \in Users,
         s \in {"Commit", "Reply"} => mint[r] \in Tokens
  PROVE  Typed'
<1> USE DEF Typed, Goto, store
<1>1. TypeOK'
  BY DEF TypeOK
<1>2. Inputs'
  BY DEF TypeOK, Inputs
<1> QED
  BY <1>1, <1>2

\* Every step leaves each request with what its next step needs.
LEMMA TypedStep == Typed /\ [Next]_vars => Typed'
<1> SUFFICES ASSUME Typed, [Next]_vars PROVE Typed'
  OBVIOUS
<1> USE DEF Typed, TypeOK, Steps, Inputs, InRefresh, store, request, history,
            Goto, End
<1>1. ASSUME NEW r \in Requests, Begin(r) PROVE Typed'
  <2>1. ASSUME NEW t \in Tokens, BeginRefresh(r, t) PROVE Typed'
    BY <2>1 DEF BeginRefresh
  <2>2. ASSUME NEW t \in Tokens, BeginLogout(r, t) PROVE Typed'
    BY <2>2 DEF BeginLogout
  <2>3. ASSUME NEW u \in Users, BeginLogin(r, u) PROVE Typed'
    BY <2>3 DEF BeginLogin
  <2>4. ASSUME NEW u \in Users, BeginDelete(r, u) PROVE Typed'
    BY <2>4 DEF BeginDelete
  <2> QED
    BY <1>1, <2>1, <2>2, <2>3, <2>4 DEF Begin
<1>2. ASSUME NEW r \in Requests, FindTokenByValue(r) PROVE Typed'
  <2>1. CASE arg[r] \in stored \cap revoked /\ Goto(r, "Snapshot")
    BY <1>2, <2>1 DEF FindTokenByValue, Usable, Family
  <2>2. CASE Usable(arg[r])
    BY <1>2, <2>2 DEF FindTokenByValue, Usable
  <2>3. CASE End(r)
    BY <1>2, <2>3, Ends DEF FindTokenByValue
  <2> QED
    BY <1>2, <2>1, <2>2, <2>3 DEF FindTokenByValue
<1>3. ASSUME NEW r \in Requests, RevokeToken(r) PROVE Typed'
  <2>1. CASE pc[r] = "RevokeToken" /\ Goto(r, "FindByID") /\ UNCHANGED <<arg, uid, mint, victims, seen, stale>>
    BY <1>3, <2>1, Moves DEF RevokeToken
  <2>2. CASE End(r)
    BY <1>3, <2>2, Ends DEF RevokeToken
  <2> QED
    BY <1>3, <2>1, <2>2 DEF RevokeToken
<1>4. ASSUME NEW r \in Requests, FindByID(r) PROVE Typed'
  <2>1. CASE pc[r] = "FindByID" /\ Goto(r, "CreateToken") /\ UNCHANGED <<arg, uid, mint, victims, seen, stale>>
    BY <1>4, <2>1, Moves DEF FindByID
  <2>2. CASE End(r)
    BY <1>4, <2>2, Ends DEF FindByID
  <2> QED
    BY <1>4, <2>1, <2>2 DEF FindByID
<1>5. ASSUME NEW r \in Requests, CreateToken(r) PROVE Typed'
  <2>1. ASSUME NEW t \in Tokens, mint' = [mint EXCEPT ![r] = t], Goto(r, "Commit"),
               UNCHANGED <<arg, uid, victims, seen, stale>>
        PROVE Typed'
    BY <1>5, <2>1 DEF CreateToken
  <2>2. CASE End(r)
    BY <1>5, <2>2, Ends DEF CreateToken
  <2> QED
    BY <1>5, <2>1, <2>2 DEF CreateToken
<1>6. ASSUME NEW r \in Requests, CommitRotation(r) PROVE Typed'
  BY <1>6 DEF CommitRotation, Rotate
<1>7. ASSUME NEW r \in Requests, SnapshotFamily(r) PROVE Typed'
  BY <1>7 DEF SnapshotFamily, Unrevoked, Family
<1>8. ASSUME NEW r \in Requests, RevokeAllUserTokens(r) PROVE Typed'
  BY <1>8 DEF RevokeAllUserTokens
<1>9. ASSUME NEW r \in Requests, Reject(r) PROVE Typed'
  BY <1>9, Ends DEF Reject
<1>10. ASSUME NEW r \in Requests, Reply(r) PROVE Typed'
  BY <1>10 DEF Reply
<1>11. ASSUME NEW r \in Requests, FindByEmail(r) PROVE Typed'
  <2>1. CASE pc[r] = "FindByEmail" /\ Goto(r, "LoginCreate") /\ UNCHANGED <<arg, uid, mint, victims, seen, stale>>
    BY <1>11, <2>1, Moves DEF FindByEmail
  <2>2. CASE End(r)
    BY <1>11, <2>2, Ends DEF FindByEmail
  <2> QED
    BY <1>11, <2>1, <2>2 DEF FindByEmail
<1>12. ASSUME NEW r \in Requests, LoginCreateToken(r) PROVE Typed'
  <2>1. ASSUME NEW t \in Tokens,
               mint' = [mint EXCEPT ![r] = t], stored' = stored \cup {t},
               owner' = [owner EXCEPT ![t] = uid[r]], Goto(r, "Reply"),
               UNCHANGED <<users, revoked, expired, parent>>,
               UNCHANGED <<arg, uid, victims, seen, stale>>
        PROVE Typed'
    BY <1>12, <2>1 DEF LoginCreateToken
  <2>2. CASE End(r) /\ UNCHANGED store
    BY <1>12, <2>2, Ends DEF LoginCreateToken
  <2> QED
    BY <1>12, <2>1, <2>2 DEF LoginCreateToken
<1>13. ASSUME NEW r \in Requests, LogoutRevokeToken(r) PROVE Typed'
  BY <1>13 DEF LogoutRevokeToken
<1>14. ASSUME NEW r \in Requests, LockUser(r) PROVE Typed'
  <2>1. CASE /\ pc[r] = "DeleteUser" /\ Goto(r, "Cascade") /\ UNCHANGED <<arg, uid, mint, seen, stale>>
             /\ victims' = [victims EXCEPT ![r] = Family(uid[r])]
    <3>1. Family(uid[r]) \in SUBSET Tokens
      BY DEF Family
    <3>2. victims' \in [Requests -> SUBSET Tokens]
      BY <2>1, <3>1
    <3> QED
      BY <1>14, <2>1, <3>2, Moves DEF LockUser
  <2>2. CASE End(r)
    BY <1>14, <2>2, Ends DEF LockUser
  <2> QED
    BY <1>14, <2>1, <2>2 DEF LockUser
<1>15. ASSUME NEW r \in Requests, CascadeDelete(r) PROVE Typed'
  BY <1>15 DEF CascadeDelete
<1>16. ASSUME NEW r \in Requests, RevokeAllFails(r) PROVE Typed'
  BY <1>16 DEF RevokeAllFails
<1>17. ASSUME NEW r \in Requests, Fail(r) PROVE Typed'
  BY <1>17, Ends DEF Fail
<1>18. ASSUME NEW r \in Requests, NEW d \in Requests, BreakDeadlock(r, d)
      PROVE Typed'
  BY <1>18, Ends DEF BreakDeadlock
<1>19. ASSUME NEW t \in Tokens, Expire(t) PROVE Typed'
  BY <1>19 DEF Expire
<1>20. CASE UNCHANGED vars
  BY <1>20 DEF vars
<1> QED
  BY <1>1, <1>2, <1>3, <1>4, <1>5, <1>6, <1>7, <1>8, <1>9, <1>10, <1>11, <1>12,
     <1>13, <1>14, <1>15, <1>16, <1>17, <1>18, <1>19, <1>20
     DEF Next, Step

\* The type invariant of AuthSessions, whatever the numbers of requests, users
\* and tokens.
THEOREM TypeCorrect == Spec => []TypeOK
<1>1. Typed => TypeOK
  BY DEF Typed
<1> QED
  BY TypedInit, TypedStep, <1>1, PTL DEF Spec

-----------------------------------------------------------------------------
(* Rotations *)

\* The token of an open transaction is in no row and in nobody else's hands.
Minting ==
  \A r \in Requests : pc[r] = "Commit" =>
    /\ owner[mint[r]] = None
    /\ \A s \in Requests \ {r} : mint[s] # mint[r]

\* The token about to be answered is committed.
Delivering == \A r \in Requests : pc[r] = "Reply" => owner[mint[r]] # None

\* Only committed tokens have a parent.
Lineage == \A t \in Tokens : parent[t] # None => owner[t] # None

Rotations ==
  /\ Typed /\ Minting /\ Delivering /\ Lineage
  /\ DeliveredWasCommitted /\ RotationAtomic

\* No token is drawn or committed at the start.
LEMMA RotationsInit == Init => Rotations
BY TypedInit
   DEF Rotations, Init, Minting, Delivering, Lineage, DeliveredWasCommitted,
       RotationAtomic

\* A commit writes the drawn token's row: the token is fresh, so no older row
\* changes its owner or its parent.
LEMMA RotationsStep == Rotations /\ [Next]_vars => Rotations'
<1> SUFFICES ASSUME Rotations, [Next]_vars PROVE Rotations'
  OBVIOUS
<1>0. Typed'
  BY TypedStep DEF Rotations
<1> USE <1>0, NoneAssumption
    DEF Rotations, Typed, TypeOK, Inputs, InRefresh, Minting, Delivering,
        Lineage, DeliveredWasCommitted, RotationAtomic, store, request,
        history, Goto, End
<1>1. ASSUME NEW r \in Requests, Begin(r) PROVE Rotations'
  BY <1>1 DEF Begin, BeginRefresh, BeginLogout, BeginLogin, BeginDelete
<1>2. ASSUME NEW r \in Requests, FindTokenByValue(r) PROVE Rotations'
  BY <1>2 DEF FindTokenByValue, Usable, Family
<1>3. ASSUME NEW r \in Requests, RevokeToken(r) PROVE Rotations'
  BY <1>3 DEF RevokeToken
<1>4. ASSUME NEW r \in Requests, FindByID(r) PROVE Rotations'
  BY <1>4 DEF FindByID
<1>5. ASSUME NEW r \in Requests, CreateToken(r) PROVE Rotations'
  BY <1>5 DEF CreateToken, Fresh
<1>6. ASSUME NEW r \in Requests, CommitRotation(r) PROVE Rotations'
  BY <1>6 DEF CommitRotation, Rotate
<1>7. ASSUME NEW r \in Requests, SnapshotFamily(r) PROVE Rotations'
  BY <1>7 DEF SnapshotFamily, Unrevoked, Family
<1>8. ASSUME NEW r \in Requests, RevokeAllUserTokens(r) PROVE Rotations'
  BY <1>8 DEF RevokeAllUserTokens
<1>9. ASSUME NEW r \in Requests, Reject(r) PROVE Rotations'
  BY <1>9 DEF Reject
<1>10. ASSUME NEW r \in Requests, Reply(r) PROVE Rotations'
  BY <1>10 DEF Reply
<1>11. ASSUME NEW r \in Requests, FindByEmail(r) PROVE Rotations'
  BY <1>11 DEF FindByEmail
<1>12. ASSUME NEW r \in Requests, LoginCreateToken(r) PROVE Rotations'
  BY <1>12 DEF LoginCreateToken, Fresh
<1>13. ASSUME NEW r \in Requests, LogoutRevokeToken(r) PROVE Rotations'
  BY <1>13 DEF LogoutRevokeToken
<1>14. ASSUME NEW r \in Requests, LockUser(r) PROVE Rotations'
  BY <1>14 DEF LockUser, Family
<1>15. ASSUME NEW r \in Requests, CascadeDelete(r) PROVE Rotations'
  BY <1>15 DEF CascadeDelete
<1>16. ASSUME NEW r \in Requests, RevokeAllFails(r) PROVE Rotations'
  BY <1>16 DEF RevokeAllFails
<1>17. ASSUME NEW r \in Requests, Fail(r) PROVE Rotations'
  BY <1>17 DEF Fail
<1>18. ASSUME NEW r \in Requests, NEW d \in Requests, BreakDeadlock(r, d)
      PROVE Rotations'
  BY <1>18 DEF BreakDeadlock
<1>19. ASSUME NEW t \in Tokens, Expire(t) PROVE Rotations'
  BY <1>19 DEF Expire
<1>20. CASE UNCHANGED vars
  BY <1>20 DEF vars
<1> QED
  BY <1>1, <1>2, <1>3, <1>4, <1>5, <1>6, <1>7, <1>8, <1>9, <1>10, <1>11, <1>12,
     <1>13, <1>14, <1>15, <1>16, <1>17, <1>18, <1>19, <1>20
     DEF Next, Step

\* Rotation is atomic: no interleaving, failure or deletion commits a token
\* created by a rotation without the revocation of the token it replaces, nor
\* for another user.
THEOREM RotationIsAtomic == Spec => []RotationAtomic
<1>1. Rotations => RotationAtomic
  BY DEF Rotations
<1> QED
  BY RotationsInit, RotationsStep, <1>1, PTL DEF Spec

\* A client never holds a token that was not committed before it was answered.
THEOREM DeliveryFollowsCommit == Spec => []DeliveredWasCommitted
<1>1. Rotations => DeliveredWasCommitted
  BY DEF Rotations
<1> QED
  BY RotationsInit, RotationsStep, <1>1, PTL DEF Spec

-----------------------------------------------------------------------------
(* Causes of revocation *)

\* Three actions change what the property speaks of.
LEMMA WhoRevokes ==
  ASSUME [Next]_vars
  PROVE  \/ UNCHANGED <<revoked, loggedOut, killed, parent>>
         \/ \E r \in Requests :
              CommitRotation(r) \/ RevokeAllUserTokens(r) \/ LogoutRevokeToken(r)
<1>1. ASSUME NEW r \in Requests, Step(r)
      PROVE \/ UNCHANGED <<revoked, loggedOut, killed, parent>>
            \/ CommitRotation(r) \/ RevokeAllUserTokens(r) \/ LogoutRevokeToken(r)
  BY <1>1 DEF Step, FindTokenByValue, RevokeToken, FindByID, CreateToken,
     SnapshotFamily, Reject, Reply, FindByEmail, LoginCreateToken, LockUser,
     CascadeDelete, store, history
<1>2. ASSUME NEW r \in Requests, Begin(r) \/ RevokeAllFails(r) \/ Fail(r)
      PROVE UNCHANGED <<revoked, loggedOut, killed, parent>>
  BY <1>2 DEF Begin, BeginRefresh, BeginLogout, BeginLogin, BeginDelete,
     RevokeAllFails, Fail, store, history
<1>3. ASSUME NEW r \in Requests, NEW d \in Requests, BreakDeadlock(r, d)
      PROVE UNCHANGED <<revoked, loggedOut, killed, parent>>
  BY <1>3 DEF BreakDeadlock, store
<1>4. ASSUME NEW t \in Tokens, Expire(t)
      PROVE UNCHANGED <<revoked, loggedOut, killed, parent>>
  BY <1>4 DEF Expire, history
<1>5. CASE UNCHANGED vars
  BY <1>5 DEF vars, store, history
<1> QED
  BY <1>1, <1>2, <1>3, <1>4, <1>5 DEF Next

\* Each of them records the cause together with the revocation, and a commit
\* overwrites nobody's parent because its token is fresh.
LEMMA LostStep == Rotations /\ NoSessionLost /\ [Next]_vars => NoSessionLost'
<1> SUFFICES ASSUME Rotations, NoSessionLost, [Next]_vars PROVE NoSessionLost'
  OBVIOUS
<1> USE DEF NoSessionLost
<1>1. ASSUME NEW r \in Requests, CommitRotation(r) PROVE NoSessionLost'
  <2>1. /\ mint[r] \in Tokens /\ arg[r] \in Tokens
        /\ parent[mint[r]] = None
    BY <1>1 DEF CommitRotation, Rotations, Typed, TypeOK, Inputs, InRefresh,
                Minting, Lineage
  <2>2. /\ parent' = [parent EXCEPT ![mint[r]] = arg[r]]
        /\ revoked' = revoked \cup {arg[r]}
        /\ UNCHANGED <<loggedOut, killed>>
    BY <1>1 DEF CommitRotation, Rotate, history
  <2> QED
    BY <2>1, <2>2, NoneAssumption DEF Rotations, Typed, TypeOK
<1>2. ASSUME NEW r \in Requests, RevokeAllUserTokens(r) PROVE NoSessionLost'
  BY <1>2 DEF RevokeAllUserTokens
<1>3. ASSUME NEW r \in Requests, LogoutRevokeToken(r) PROVE NoSessionLost'
  BY <1>3 DEF LogoutRevokeToken
<1>4. CASE UNCHANGED <<revoked, loggedOut, killed, parent>>
  BY <1>4
<1> QED
  BY <1>1, <1>2, <1>3, <1>4, WhoRevokes

\* A session ends only by logout, by a family revocation or by a rotation that
\* committed its successor: a rotation that fails or is answered too late never
\* takes the client's token away for nothing.
THEOREM SessionsAreKept == Spec => []NoSessionLost
<1>1. Init => NoSessionLost
  BY DEF Init, NoSessionLost
<1> QED
  BY RotationsInit, RotationsStep, <1>1, LostStep, PTL DEF Spec

-----------------------------------------------------------------------------
(* Replays *)

\* Rows belong to somebody, also the ones an open revocation remembers.
StoredCommitted == \A t \in stored : owner[t] # None

\* No step brings a revoked or deleted token back to life.
DeadStaysDead ==
  \A r \in Requests : stale[r] => arg[r] \in revoked \/ arg[r] \notin stored

\* What was stored at detection is of the replayed token's owner, and the
\* snapshot has all of it that is not revoked.
Replay ==
  \A r \in Requests :
    /\ \A t \in seen[r] : owner[t] # None
    /\ pc[r] = "Snapshot" => \A t \in seen[r] : owner[t] = owner[arg[r]]
    /\ pc[r] = "RevokeAll" => seen[r] \cap stored \subseteq revoked \cup victims[r]

Replays ==
  /\ StoredCommitted /\ DeadStaysDead /\ Replay
  /\ DeadTokenGrantsNothing /\ ReplayKillsFamily

\* Nothing is stored and no replay is detected at the start.
LEMMA ReplaysInit == Init => Replays
BY DEF Replays, Init, StoredCommitted, DeadStaysDead, Replay,
       DeadTokenGrantsNothing, ReplayKillsFamily

\* Rows are added for fresh tokens only, which no request presents and no
\* snapshot has seen.
LEMMA ReplaysStep == Rotations /\ Replays /\ [Next]_vars => Replays'
<1> SUFFICES ASSUME Rotations, Replays, [Next]_vars PROVE Replays'
  OBVIOUS
<1> USE NoneAssumption
    DEF Replays, StoredCommitted, DeadStaysDead, Replay,
        DeadTokenGrantsNothing, ReplayKillsFamily, Rotations, Typed, TypeOK,
        Inputs, InRefresh, Minting, DeliveredWasCommitted, store, request,
        history, Goto, End
<1>1. ASSUME NEW r \in Requests, Begin(r) PROVE Replays'
  BY <1>1 DEF Begin, BeginRefresh, BeginLogout, BeginLogin, BeginDelete
<1>2. ASSUME NEW r \in Requests, FindTokenByValue(r) PROVE Replays'
  BY <1>2 DEF FindTokenByValue, Usable, Family
<1>3. ASSUME NEW r \in Requests, RevokeToken(r) PROVE Replays'
  <2>1. CASE pc[r] = "RevokeToken" /\ Goto(r, "FindByID") /\ UNCHANGED <<arg, mint, victims, seen, stale>>
    BY <1>3, <2>1 DEF RevokeToken
  <2>2. CASE End(r)
    BY <1>3, <2>2 DEF RevokeToken
  <2> QED
    BY <1>3, <2>1, <2>2 DEF RevokeToken
<1>4. ASSUME NEW r \in Requests, FindByID(r) PROVE Replays'
  BY <1>4 DEF FindByID
<1>5. ASSUME NEW r \in Requests, CreateToken(r) PROVE Replays'
  BY <1>5 DEF CreateToken, Fresh
<1>6. ASSUME NEW r \in Requests, CommitRotation(r) PROVE Replays'
  BY <1>6 DEF CommitRotation, Rotate
<1>7. ASSUME NEW r \in Requests, SnapshotFamily(r) PROVE Replays'
  BY <1>7 DEF SnapshotFamily, Unrevoked, Family
<1>8. ASSUME NEW r \in Requests, RevokeAllUserTokens(r) PROVE Replays'
  BY <1>8 DEF RevokeAllUserTokens
<1>9. ASSUME NEW r \in Requests, Reject(r) PROVE Replays'
  BY <1>9 DEF Reject
<1>10. ASSUME NEW r \in Requests, Reply(r) PROVE Replays'
  BY <1>10 DEF Reply
<1>11. ASSUME NEW r \in Requests, FindByEmail(r) PROVE Replays'
  BY <1>11 DEF FindByEmail
<1>12. ASSUME NEW r \in Requests, LoginCreateToken(r) PROVE Replays'
  BY <1>12 DEF LoginCreateToken, Fresh
<1>13. ASSUME NEW r \in Requests, LogoutRevokeToken(r) PROVE Replays'
  BY <1>13 DEF LogoutRevokeToken
<1>14. ASSUME NEW r \in Requests, LockUser(r) PROVE Replays'
  BY <1>14 DEF LockUser, Family
<1>15. ASSUME NEW r \in Requests, CascadeDelete(r) PROVE Replays'
  BY <1>15 DEF CascadeDelete
<1>16. ASSUME NEW r \in Requests, RevokeAllFails(r) PROVE Replays'
  BY <1>16 DEF RevokeAllFails
<1>17. ASSUME NEW r \in Requests, Fail(r) PROVE Replays'
  BY <1>17 DEF Fail
<1>18. ASSUME NEW r \in Requests, NEW d \in Requests, BreakDeadlock(r, d)
      PROVE Replays'
  BY <1>18 DEF BreakDeadlock
<1>19. ASSUME NEW t \in Tokens, Expire(t) PROVE Replays'
  BY <1>19 DEF Expire
<1>20. CASE UNCHANGED vars
  BY <1>20 DEF vars
<1> QED
  BY <1>1, <1>2, <1>3, <1>4, <1>5, <1>6, <1>7, <1>8, <1>9, <1>10, <1>11, <1>12,
     <1>13, <1>14, <1>15, <1>16, <1>17, <1>18, <1>19, <1>20
     DEF Next, Step

\* A token that was dead when it was presented is never exchanged.
THEOREM DeadTokensAreRefused == Spec => []DeadTokenGrantsNothing
<1>1. Replays => DeadTokenGrantsNothing
  BY DEF Replays
<1> QED
  BY RotationsInit, RotationsStep, ReplaysInit, ReplaysStep, <1>1, PTL DEF Spec

\* A replay that is answered after a successful family UPDATE leaves no row
\* usable that was stored when it was detected.
THEOREM ReplayEndsTheFamily == Spec => []ReplayKillsFamily
<1>1. Replays => ReplayKillsFamily
  BY DEF Replays
<1> QED
  BY RotationsInit, RotationsStep, ReplaysInit, ReplaysStep, <1>1, PTL DEF Spec

-----------------------------------------------------------------------------
(* Deletion of users *)

\* A transaction that is about to commit a token has a user to commit it for,
OwnersLive == \A r \in Requests : pc[r] = "Commit" => owner[arg[r]] \in users

\* because its key-share lock keeps that user from being deleted, and a
\* deletion under way keeps it from taking the lock.
Exclusion ==
  \A r, d \in Requests :
    pc[r] = "Commit" /\ pc[d] = "Cascade" => owner[arg[r]] # uid[d]

\* hence no row of that user is added after the cascade's snapshot.
Cascaded ==
  \A d \in Requests : pc[d] = "Cascade" =>
    \A t \in stored : owner[t] = uid[d] => t \in victims[d]

Owners == OwnersLive /\ Exclusion /\ Cascaded /\ NoOrphanToken

\* No row is stored at the start.
LEMMA OwnersInit == Init => Owners
BY DEF Owners, Init, OwnersLive, Exclusion, Cascaded, NoOrphanToken

\* The locks are taken in CreateToken and LockUser, and what they exclude is
\* needed in CommitRotation and CascadeDelete.
LEMMA OwnersStep == Rotations /\ Owners /\ [Next]_vars => Owners'
<1> SUFFICES ASSUME Rotations, Owners, [Next]_vars PROVE Owners'
  OBVIOUS
<1> USE NoneAssumption
    DEF Owners, OwnersLive, Exclusion, Cascaded, NoOrphanToken, Rotations,
        Typed, TypeOK, Inputs, InRefresh, Minting, DeliveredWasCommitted, store, request,
        history, Goto, End
<1>1. ASSUME NEW r \in Requests, Begin(r) PROVE Owners'
  BY <1>1 DEF Begin, BeginRefresh, BeginLogout, BeginLogin, BeginDelete
<1>2. ASSUME NEW r \in Requests, FindTokenByValue(r) PROVE Owners'
  BY <1>2 DEF FindTokenByValue, Usable
<1>3. ASSUME NEW r \in Requests, RevokeToken(r) PROVE Owners'
  BY <1>3 DEF RevokeToken
<1>4. ASSUME NEW r \in Requests, FindByID(r) PROVE Owners'
  BY <1>4 DEF FindByID
<1>5. ASSUME NEW r \in Requests, CreateToken(r) PROVE Owners'
  BY <1>5 DEF CreateToken, Fresh, UserFree, HoldsUser
<1>6. ASSUME NEW r \in Requests, CommitRotation(r) PROVE Owners'
  BY <1>6 DEF CommitRotation, Rotate
<1>7. ASSUME NEW r \in Requests, SnapshotFamily(r) PROVE Owners'
  BY <1>7 DEF SnapshotFamily, Unrevoked, Family
<1>8. ASSUME NEW r \in Requests, RevokeAllUserTokens(r) PROVE Owners'
  BY <1>8 DEF RevokeAllUserTokens
<1>9. ASSUME NEW r \in Requests, Reject(r) PROVE Owners'
  BY <1>9 DEF Reject
<1>10. ASSUME NEW r \in Requests, Reply(r) PROVE Owners'
  BY <1>10 DEF Reply
<1>11. ASSUME NEW r \in Requests, FindByEmail(r) PROVE Owners'
  BY <1>11 DEF FindByEmail
<1>12. ASSUME NEW r \in Requests, LoginCreateToken(r) PROVE Owners'
  BY <1>12 DEF LoginCreateToken, Fresh, UserFree, HoldsUser
<1>13. ASSUME NEW r \in Requests, LogoutRevokeToken(r) PROVE Owners'
  BY <1>13 DEF LogoutRevokeToken
<1>14. ASSUME NEW r \in Requests, LockUser(r) PROVE Owners'
  BY <1>14 DEF LockUser, UserFree, ShareFree, HoldsShare, HoldsUser, Family
<1>15. ASSUME NEW r \in Requests, CascadeDelete(r) PROVE Owners'
  BY <1>15 DEF CascadeDelete
<1>16. ASSUME NEW r \in Requests, RevokeAllFails(r) PROVE Owners'
  BY <1>16 DEF RevokeAllFails
<1>17. ASSUME NEW r \in Requests, Fail(r) PROVE Owners'
  BY <1>17 DEF Fail
<1>18. ASSUME NEW r \in Requests, NEW d \in Requests, BreakDeadlock(r, d)
      PROVE Owners'
  BY <1>18 DEF BreakDeadlock
<1>19. ASSUME NEW t \in Tokens, Expire(t) PROVE Owners'
  BY <1>19 DEF Expire
<1>20. CASE UNCHANGED vars
  BY <1>20 DEF vars
<1> QED
  BY <1>1, <1>2, <1>3, <1>4, <1>5, <1>6, <1>7, <1>8, <1>9, <1>10, <1>11, <1>12,
     <1>13, <1>14, <1>15, <1>16, <1>17, <1>18, <1>19, <1>20
     DEF Next, Step

\* No token row is left without its user, however logins and rotations overlap
\* with the deletion.
THEOREM NoTokenIsOrphaned == Spec => []NoOrphanToken
<1>1. Owners => NoOrphanToken
  BY DEF Owners
<1> QED
  BY RotationsInit, RotationsStep, OwnersInit, OwnersStep, <1>1, PTL DEF Spec
-----------------------------------------------------------------------------
(* The token store *)

\* The row lock of a rotation keeps the row it has updated from being deleted,
RowsKept ==
  \A r \in Requests : pc[r] \in {"FindByID", "CreateToken", "Commit"} => arg[r] \in stored

\* and what a statement took into its snapshot is all of one user.
OneFamily ==
  \A r \in Requests :
    /\ pc[r] = "RevokeAll" => \A t \in victims[r] : owner[t] = owner[arg[r]]
    /\ pc[r] = "Cascade" => \A t \in victims[r] : owner[t] = uid[r]

RevokedCommitted == \A t \in revoked : owner[t] # None

Rows == RowsKept /\ OneFamily /\ RevokedCommitted

\* No row is updated or in a snapshot at the start.
LEMMA RowsInit == Init => Rows
BY DEF Rows, Init, RowsKept, OneFamily, RevokedCommitted

\* Only CascadeDelete takes rows away, and it waits for those that are locked;
\* owners are written for fresh tokens only, which are in no snapshot.
LEMMA RowsStep == Rotations /\ Replays /\ Rows /\ [Next]_vars => Rows'
<1> SUFFICES ASSUME Rotations, Replays, Rows, [Next]_vars PROVE Rows'
  OBVIOUS
<1> USE NoneAssumption
    DEF Rows, RowsKept, OneFamily, RevokedCommitted, Replays, StoredCommitted,
        Rotations, Typed, TypeOK, Inputs, InRefresh, Minting,
        DeliveredWasCommitted, store, request, history, Goto, End
<1>1. ASSUME NEW r \in Requests, Begin(r) PROVE Rows'
  BY <1>1 DEF Begin, BeginRefresh, BeginLogout, BeginLogin, BeginDelete
<1>2. ASSUME NEW r \in Requests, FindTokenByValue(r) PROVE Rows'
  BY <1>2 DEF FindTokenByValue, Usable
<1>3. ASSUME NEW r \in Requests, RevokeToken(r) PROVE Rows'
  BY <1>3 DEF RevokeToken
<1>4. ASSUME NEW r \in Requests, FindByID(r) PROVE Rows'
  BY <1>4 DEF FindByID
<1>5. ASSUME NEW r \in Requests, CreateToken(r) PROVE Rows'
  BY <1>5 DEF CreateToken
<1>6. ASSUME NEW r \in Requests, CommitRotation(r) PROVE Rows'
  BY <1>6 DEF CommitRotation, Rotate
<1>7. ASSUME NEW r \in Requests, SnapshotFamily(r) PROVE Rows'
  BY <1>7 DEF SnapshotFamily, Unrevoked, Family
<1>8. ASSUME NEW r \in Requests, RevokeAllUserTokens(r) PROVE Rows'
  BY <1>8 DEF RevokeAllUserTokens
<1>9. ASSUME NEW r \in Requests, Reject(r) PROVE Rows'
  BY <1>9 DEF Reject
<1>10. ASSUME NEW r \in Requests, Reply(r) PROVE Rows'
  BY <1>10 DEF Reply
<1>11. ASSUME NEW r \in Requests, FindByEmail(r) PROVE Rows'
  BY <1>11 DEF FindByEmail
<1>12. ASSUME NEW r \in Requests, LoginCreateToken(r) PROVE Rows'
  BY <1>12 DEF LoginCreateToken, Fresh
<1>13. ASSUME NEW r \in Requests, LogoutRevokeToken(r) PROVE Rows'
  BY <1>13 DEF LogoutRevokeToken
<1>14. ASSUME NEW r \in Requests, LockUser(r) PROVE Rows'
  BY <1>14 DEF LockUser, Family
<1>15. ASSUME NEW r \in Requests, CascadeDelete(r) PROVE Rows'
  BY <1>15 DEF CascadeDelete, RowFree, HoldsRow
<1>16. ASSUME NEW r \in Requests, RevokeAllFails(r) PROVE Rows'
  BY <1>16 DEF RevokeAllFails
<1>17. ASSUME NEW r \in Requests, Fail(r) PROVE Rows'
  BY <1>17 DEF Fail
<1>18. ASSUME NEW r \in Requests, NEW d \in Requests, BreakDeadlock(r, d)
      PROVE Rows'
  BY <1>18 DEF BreakDeadlock
<1>19. ASSUME NEW t \in Tokens, Expire(t) PROVE Rows'
  BY <1>19 DEF Expire
<1>20. CASE UNCHANGED vars
  BY <1>20 DEF vars
<1> QED
  BY <1>1, <1>2, <1>3, <1>4, <1>5, <1>6, <1>7, <1>8, <1>9, <1>10, <1>11, <1>12,
     <1>13, <1>14, <1>15, <1>16, <1>17, <1>18, <1>19, <1>20
     DEF Next, Step

\* Both stores start with all users and without tokens.
LEMMA StoreInit == Init => Store!StoreInit
BY DEF Init, Store!StoreInit

\* A committed rotation is an exchange: the old token's row is still there as
\* its lock was held, its user as its key was, and the new token is in nobody
\* else's hands.
LEMMA CommitExchanges ==
  ASSUME Rotations, Rows, Owners, NEW r \in Requests, CommitRotation(r)
  PROVE  Store!StoreNext
<1>1. /\ arg[r] \in Tokens /\ arg[r] \in known /\ arg[r] \in stored
      /\ owner[arg[r]] # None /\ owner[arg[r]] \in users
  BY DEF CommitRotation, Rotations, Typed, TypeOK, Inputs, InRefresh,
     DeliveredWasCommitted, Rows, RowsKept, Owners, OwnersLive
<1>2. mint[r] \in Tokens /\ owner[mint[r]] = None
  BY DEF CommitRotation, Rotations, Typed, Inputs, Minting
<1>3. mint[r] \notin revoked
  BY <1>2 DEF Rows, RevokedCommitted
<1>4. (stored \ revoked)' = ((stored \ revoked) \ {arg[r]}) \cup {mint[r]}
  BY <1>1, <1>2, <1>3 DEF CommitRotation, Rotate
<1>5. Store!Exchange(arg[r], mint[r])
  BY <1>1, <1>2, <1>4 DEF CommitRotation, Rotate, Store!Exchange, Store!New
<1> QED
  BY <1>1, <1>2, <1>5 DEF Store!StoreNext

\* A login issues a token; without a free one or a user it changes nothing.
LEMMA LoginIssues ==
  ASSUME Rotations, Rows, NEW r \in Requests, LoginCreateToken(r)
  PROVE  [Store!StoreNext]_(Store!tokens)
<1>1. CASE UNCHANGED store
  BY <1>1 DEF LoginCreateToken, store, Store!tokens
<1>2. ASSUME NEW t \in Tokens, Fresh(t), uid[r] \in users,
             stored' = stored \cup {t}, owner' = [owner EXCEPT ![t] = uid[r]],
             UNCHANGED <<users, revoked, parent, known>>
      PROVE  Store!StoreNext
  <2>1. t \notin revoked /\ owner[t] = None
    BY <1>2 DEF Fresh, Rows, RevokedCommitted
  <2>2. (stored \ revoked)' = (stored \ revoked) \cup {t}
    BY <1>2, <2>1
  <2>3. Store!Issue(t, uid[r]) /\ uid[r] \in Users
    BY <1>2, <2>1, <2>2 DEF Store!Issue, Store!New, Rotations, Typed, TypeOK
  <2> QED
    BY <2>3 DEF Store!StoreNext
<1> QED
  BY <1>1, <1>2 DEF LoginCreateToken

\* What a logout or a family revocation revokes is of one user.
LEMMA RevocationsRevoke ==
  ASSUME Rotations, NEW S \in SUBSET stored, NEW u \in Users,
         \A t \in S : owner[t] = u, revoked' = revoked \cup S,
         UNCHANGED <<users, stored, known, owner, parent>>
  PROVE  Store!StoreNext
<1>1. (stored \ revoked)' = (stored \ revoked) \ (S \ revoked)
  OBVIOUS
<1>2. Store!Revoke(S \ revoked, u)
  BY <1>1 DEF Store!Revoke
<1> QED
  BY <1>2 DEF Store!StoreNext

\* The cascade takes all rows of its user and no other; a user that somebody
\* else has deleted meanwhile has none.
LEMMA CascadeForgets ==
  ASSUME Rotations, Rows, Owners, NEW r \in Requests, CascadeDelete(r)
  PROVE  [Store!StoreNext]_(Store!tokens)
<1>1. uid[r] \in Users /\ UNCHANGED <<revoked, owner, parent, known>>
  BY DEF CascadeDelete, Rotations, Typed, Inputs
<1>2. stored' = {t \in stored : owner[t] # uid[r]}
  BY DEF CascadeDelete, Rows, OneFamily, Owners, Cascaded
<1>3. (stored \ revoked)' = {t \in stored \ revoked : owner[t] # uid[r]}
  BY <1>1, <1>2
<1>4. users' = users \ {uid[r]}
  BY DEF CascadeDelete
<1>5. CASE uid[r] \in users
  <2>1. Store!Forget(uid[r])
    BY <1>1, <1>2, <1>3, <1>4, <1>5 DEF Store!Forget
  <2> QED
    BY <1>1, <2>1 DEF Store!StoreNext
<1>6. CASE uid[r] \notin users
  <2>1. stored' = stored /\ users' = users
    BY <1>2, <1>4, <1>6 DEF Owners, NoOrphanToken
  <2> QED
    BY <1>1, <2>1 DEF Store!tokens
<1> QED
  BY <1>5, <1>6

\* Every other step reads, locks, or takes note.
LEMMA Silent ==
  ASSUME [Next]_vars
  PROVE  \/ UNCHANGED <<users, stored, revoked, owner, parent, known>>
         \/ \E r \in Requests :
              \/ CommitRotation(r) \/ LoginCreateToken(r) \/ Reply(r)
              \/ LogoutRevokeToken(r) \/ RevokeAllUserTokens(r) \/ CascadeDelete(r)
<1>1. ASSUME NEW r \in Requests, Step(r)
      PROVE \/ UNCHANGED <<users, stored, revoked, owner, parent, known>>
            \/ CommitRotation(r) \/ LoginCreateToken(r) \/ Reply(r)
            \/ LogoutRevokeToken(r) \/ RevokeAllUserTokens(r) \/ CascadeDelete(r)
  BY <1>1 DEF Step, FindTokenByValue, RevokeToken, FindByID, CreateToken,
     SnapshotFamily, Reject, FindByEmail, LockUser, store
<1>2. ASSUME NEW r \in Requests, Begin(r) \/ RevokeAllFails(r) \/ Fail(r)
      PROVE UNCHANGED <<users, stored, revoked, owner, parent, known>>
  BY <1>2 DEF Begin, BeginRefresh, BeginLogout, BeginLogin, BeginDelete,
     RevokeAllFails, Fail, store
<1>3. ASSUME NEW r \in Requests, NEW d \in Requests, BreakDeadlock(r, d)
      PROVE UNCHANGED <<users, stored, revoked, owner, parent, known>>
  BY <1>3 DEF BreakDeadlock, store
<1>4. ASSUME NEW t \in Tokens, Expire(t)
      PROVE UNCHANGED <<users, stored, revoked, owner, parent, known>>
  BY <1>4 DEF Expire
<1>5. CASE UNCHANGED vars
  BY <1>5 DEF vars, store
<1> QED
  BY <1>1, <1>2, <1>3, <1>4, <1>5 DEF Next

\* Every statement is one step of the store, or none.
LEMMA StoreStep ==
  Rotations /\ Replays /\ Owners /\ Rows /\ [Next]_vars
    => [Store!StoreNext]_(Store!tokens)
<1> SUFFICES ASSUME Rotations, Replays, Owners, Rows, [Next]_vars
             PROVE  [Store!StoreNext]_(Store!tokens)
  OBVIOUS
<1>1. ASSUME NEW r \in Requests, Reply(r) PROVE Store!StoreNext
  <2>1. mint[r] \in Tokens /\ owner[mint[r]] # None
    BY <1>1 DEF Reply, Rotations, Typed, Inputs, Delivering
  <2>2. Store!Give(mint[r])
    BY <1>1, <2>1 DEF Reply, store, Store!Give, Store!New
  <2> QED
    BY <2>1, <2>2 DEF Store!StoreNext
<1>2. ASSUME NEW r \in Requests, LogoutRevokeToken(r) PROVE Store!StoreNext
  <2>1. arg[r] \in Tokens /\ owner[arg[r]] \in Users
    BY <1>2 DEF LogoutRevokeToken, Rotations, Typed, TypeOK, Inputs, InRefresh,
       DeliveredWasCommitted
  <2>2. \A t \in {arg[r]} \cap stored : owner[t] = owner[arg[r]]
    OBVIOUS
  <2>3. /\ revoked' = revoked \cup ({arg[r]} \cap stored)
        /\ UNCHANGED <<users, stored, known, owner, parent>>
    BY <1>2 DEF LogoutRevokeToken
  <2> QED
    BY <2>1, <2>2, <2>3, RevocationsRevoke
<1>3. ASSUME NEW r \in Requests, RevokeAllUserTokens(r) PROVE Store!StoreNext
  <2>1. arg[r] \in Tokens /\ owner[arg[r]] \in Users
    BY <1>3 DEF RevokeAllUserTokens, Rotations, Typed, TypeOK, Inputs, InRefresh,
       DeliveredWasCommitted
  <2>2. \A t \in victims[r] \cap stored : owner[t] = owner[arg[r]]
    BY <1>3 DEF RevokeAllUserTokens, Rows, OneFamily
  <2> QED
    BY <1>3, <2>1, <2>2, RevocationsRevoke DEF RevokeAllUserTokens
<1>4. CASE UNCHANGED <<users, stored, revoked, owner, parent, known>>
  BY <1>4 DEF Store!tokens
<1> QED
  BY <1>1, <1>2, <1>3, <1>4, Silent, CommitExchanges, LoginIssues, CascadeForgets

\* The statements of all requests together implement a store whose operations
\* are atomic, for any number of requests, users and tokens.
THEOREM SessionsAreATokenStore == Spec => ImplementsTokenStore
BY RotationsInit, RotationsStep, ReplaysInit, ReplaysStep, OwnersInit, OwnersStep,
   RowsInit, RowsStep, StoreInit, StoreStep, PTL
   DEF Spec, ImplementsTokenStore, Store!StoreSpec

\* Hence nobody gets a session back: a token that was revoked, or deleted with
\* its user, is never usable again.
DeadForGood ==
  \A t \in Tokens :
    owner[t] # None /\ t \notin stored \ revoked => t \notin (stored \ revoked)'

\* The store makes only new tokens live.
LEMMA DeadStep == [Store!StoreNext]_(Store!tokens) => DeadForGood
<1> SUFFICES ASSUME [Store!StoreNext]_(Store!tokens), NEW t \in Tokens,
                    owner[t] # None, t \notin stored \ revoked
             PROVE  t \notin (stored \ revoked)'
  BY DEF DeadForGood
<1>1. ASSUME NEW s \in Tokens, NEW u \in Users, Store!Issue(s, u)
      PROVE  t \notin (stored \ revoked)'
  BY <1>1 DEF Store!Issue, Store!New
<1>2. ASSUME NEW s \in Tokens, NEW n \in Tokens, Store!Exchange(s, n)
      PROVE  t \notin (stored \ revoked)'
  BY <1>2 DEF Store!Exchange, Store!New
<1>3. CASE UNCHANGED Store!tokens
  BY <1>3 DEF Store!tokens
<1>4. ASSUME NEW s \in Tokens, Store!Give(s) PROVE t \notin (stored \ revoked)'
  BY <1>4 DEF Store!Give
<1>5. ASSUME NEW S \in SUBSET (stored \ revoked), NEW u \in Users, Store!Revoke(S, u)
      PROVE  t \notin (stored \ revoked)'
  BY <1>5 DEF Store!Revoke
<1>6. ASSUME NEW u \in Users, Store!Forget(u) PROVE t \notin (stored \ revoked)'
  BY <1>6 DEF Store!Forget
<1> QED
  BY <1>1, <1>2, <1>3, <1>4, <1>5, <1>6 DEF Store!StoreNext

\* No step of any request makes a dead token usable again.
THEOREM DeadTokensStayDead == Spec => [][DeadForGood]_vars
BY RotationsInit, RotationsStep, ReplaysInit, ReplaysStep, OwnersInit, OwnersStep,
   RowsInit, RowsStep, StoreStep, DeadStep, PTL DEF Spec
=============================================================================
