----------------------------- MODULE TokenStore -----------------------------
(***************************************************************************)
(* What the store of refresh tokens promises, without statements, locks or *)
(* failures: tokens are issued, exchanged and revoked, and users deleted,  *)
(* each in one step that happens as a whole or not at all.                 *)
(***************************************************************************)
CONSTANTS Users, Tokens, None

VARIABLES
  users,      \* the users there are
  rows,       \* tokens the store knows
  live,       \* those among them that are not revoked
  held,       \* tokens clients were given
  owner,      \* whose each token is or was
  parent      \* the token it was exchanged for

tokens == <<users, rows, live, held, owner, parent>>

StoreInit ==
  /\ users = Users
  /\ rows = {} /\ live = {} /\ held = {}
  /\ owner = [t \in Tokens |-> None]
  /\ parent = [t \in Tokens |-> None]

New(t) == owner[t] = None

\* A login: the token of a user that exists.
Issue(t, u) ==
  /\ New(t) /\ u \in users
  /\ rows' = rows \cup {t}
  /\ live' = live \cup {t}
  /\ owner' = [owner EXCEPT ![t] = u]
  /\ UNCHANGED <<users, held, parent>>

\* A refresh: the old token goes and the new one comes, for the same user,
\* who exists.  (That the old one was still live is not promised.)
Exchange(s, t) ==
  /\ s \in held \cap rows /\ owner[s] \in users /\ New(t)
  /\ rows' = rows \cup {t}
  /\ live' = (live \ {s}) \cup {t}
  /\ owner' = [owner EXCEPT ![t] = owner[s]]
  /\ parent' = [parent EXCEPT ![t] = s]
  /\ UNCHANGED <<users, held>>

\* Clients are given what is in the store, or was.
Give(t) ==
  /\ ~New(t)
  /\ held' = held \cup {t}
  /\ UNCHANGED <<users, rows, live, owner, parent>>

\* A logout or a family revocation: tokens of one user.
Revoke(S, u) ==
  /\ \A t \in S : owner[t] = u
  /\ live' = live \ S
  /\ UNCHANGED <<users, rows, held, owner, parent>>

\* A user goes with all of its tokens, and with nobody else's.
Forget(u) ==
  /\ u \in users
  /\ users' = users \ {u}
  /\ rows' = {t \in rows : owner[t] # u}
  /\ live' = {t \in live : owner[t] # u}
  /\ UNCHANGED <<held, owner, parent>>

StoreNext ==
  \/ \E t \in Tokens, u \in Users : Issue(t, u)
  \/ \E s, t \in Tokens : Exchange(s, t)
  \/ \E t \in Tokens : Give(t)
  \/ \E S \in SUBSET live, u \in Users : Revoke(S, u)
  \/ \E u \in Users : Forget(u)

StoreSpec == StoreInit /\ [][StoreNext]_tokens
=============================================================================
