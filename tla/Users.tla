-------------------------------- MODULE Users --------------------------------
(***************************************************************************)
(* The users table under concurrent creation, update and deletion.         *)
(*                                                                         *)
(* No usecase of the user feature opens a transaction: every statement     *)
(* commits on its own.  Creation and deletion are one statement each; an   *)
(* update reads the row, changes the name in memory and calls GORM's Save, *)
(* which updates every column by id and, when that touches no row, inserts *)
(* the row it holds.                                                       *)
(***************************************************************************)
EXTENDS Naturals

CONSTANTS Updaters,   \* the slots for update requests
          Names, Emails,
          None,
          MaxId       \* bound on the ids users_id_seq hands out

VARIABLES
  table,      \* users: the committed row of each id, or None
  nextId,     \* users_id_seq
  held,       \* the row an update has read and changed, or None
  step,       \* the statement the update is about to run
  expected    \* history: the name each row has by the operations committed,
              \* or Open once it was written while an update held it

vars == <<table, nextId, held, step, expected>>

Ids == 1..MaxId
Open == "open"
Rows == [name : Names, email : Emails]
Held == [id : Ids, want : Names \cup {None}, row : Rows]

ASSUME UsersAssumption ==
  MaxId \in Nat /\ None \notin Names \cup Emails \cup Updaters /\ None \notin Rows /\ None \notin Held

UsersTypeOK ==
  /\ table \in [Ids -> Rows \cup {None}]
  /\ nextId \in 1..(MaxId + 1)
  /\ held \in [Updaters -> Held \cup {None}]
  /\ step \in [Updaters -> {"idle", "update", "insert"}]
  /\ expected \in [Ids -> Names \cup {None, Open}]

UsersInit ==
  /\ table = [id \in Ids |-> None]
  /\ nextId = 1
  /\ held = [r \in Updaters |-> None]
  /\ step = [r \in Updaters |-> "idle"]
  /\ expected = [id \in Ids |-> None]

Present == {id \in Ids : table[id] # None}

\* Some other row than id's has the email: idx_users_email refuses it.
EmailTaken(e, id) == \E other \in Present \ {id} : table[other].email = e

HeldByOther(id, r) == \E s \in Updaters \ {r} : held[s] # None /\ held[s].id = id

\* The operation committed should leave id's row with the name n.
Expect(id, n, r) ==
  expected' = [expected EXCEPT ![id] = IF HeldByOther(id, r) THEN Open
                                       ELSE IF @ = Open THEN Open ELSE n]

-----------------------------------------------------------------------------
(* Creation, deletion *)

\* A refused INSERT has taken its id from the sequence all the same.
Create(n, e) ==
  /\ nextId <= MaxId
  /\ nextId' = nextId + 1
  /\ \/ /\ EmailTaken(e, nextId)
        /\ UNCHANGED <<table, expected>>
     \/ /\ ~EmailTaken(e, nextId)
        /\ table' = [table EXCEPT ![nextId] = [name |-> n, email |-> e]]
        /\ expected' = [expected EXCEPT ![nextId] = n]
  /\ UNCHANGED <<held, step>>

\* The caller may delete itself only; a second DELETE matches no row.
Delete(id) ==
  /\ id \in Present
  /\ table' = [table EXCEPT ![id] = None]
  /\ Expect(id, None, None)
  /\ UNCHANGED <<nextId, held, step>>

-----------------------------------------------------------------------------
(* Update *)

\* Mutant: the name is assigned whether or not the request has one.
Changed_Always(row, n) == [row EXCEPT !.name = IF n = None THEN CHOOSE m \in Names : TRUE ELSE n]

\* An empty name leaves the name that was read.
Changed(row, n) == [row EXCEPT !.name = IF n = None THEN row.name ELSE n]

\* The caller may update itself only; ErrNotFound without a row.
FindByID(r, id, n) ==
  /\ step[r] = "idle" /\ id \in Present
  /\ held' = [held EXCEPT ![r] = [id |-> id, want |-> n, row |-> Changed(table[id], n)]]
  /\ step' = [step EXCEPT ![r] = "update"]
  /\ UNCHANGED <<table, nextId, expected>>

Done(r) ==
  /\ held' = [held EXCEPT ![r] = None]
  /\ step' = [step EXCEPT ![r] = "idle"]

Write(r) ==
  LET h == held[r] IN
    /\ table' = [table EXCEPT ![h.id] = h.row]
    /\ Expect(h.id, IF h.want = None THEN expected[h.id] ELSE h.want, r)

\* UPDATE users SET every column WHERE id = ?.
Save(r) ==
  /\ step[r] = "update"
  /\ \/ /\ held[r].id \in Present
        /\ Write(r) /\ Done(r)
     \/ /\ held[r].id \notin Present
        /\ step' = [step EXCEPT ![r] = "insert"]
        /\ UNCHANGED <<table, held, expected>>
  /\ UNCHANGED nextId

\* No row was updated: INSERT ... ON CONFLICT (id) DO UPDATE.  RowsAffected is
\* never zero after it.
SaveInserts(r) ==
  /\ step[r] = "insert"
  /\ \/ ~EmailTaken(held[r].row.email, held[r].id) /\ Write(r)
     \/ EmailTaken(held[r].row.email, held[r].id) /\ UNCHANGED <<table, expected>>
  /\ Done(r)
  /\ UNCHANGED nextId

\* A statement fails, the context ends, the process dies.
UpdateFails(r) ==
  /\ step[r] # "idle" /\ Done(r)
  /\ UNCHANGED <<table, nextId, expected>>

UsersNext ==
  \/ \E n \in Names, e \in Emails : Create(n, e)
  \/ \E id \in Ids : Delete(id)
  \/ \E r \in Updaters :
       \/ \E id \in Ids, n \in Names \cup {None} : FindByID(r, id, n)
       \/ Save(r) \/ SaveInserts(r) \/ UpdateFails(r)

UsersSpec == UsersInit /\ [][UsersNext]_vars

-----------------------------------------------------------------------------
(* Properties *)

\* A rename or a deletion that committed is undone only by an update that had
\* read the row before: what nobody held is as the last operation left it.
OverlapAloneUndoes ==
  \A id \in Ids : expected[id] # Open =>
    expected[id] = IF id \in Present THEN table[id].name ELSE None

\* "if result.RowsAffected == 0 return ErrNotFound": a deleted user is not
\* brought back by an update.  (Save's insert refutes it.)
DeletedStaysDeleted ==
  [][\A id \in Ids : id < nextId /\ id \notin Present => table'[id] = None]_vars
=============================================================================
