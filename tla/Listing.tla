------------------------------ MODULE Listing ------------------------------
(***************************************************************************)
(* A client walks the users page by page while users are created, renamed  *)
(* and deleted.                                                            *)
(*                                                                         *)
(* No usecase lists users yet: the client and the query are those of the   *)
(* documentation of package pagination (limit + 1 rows below the cursor,   *)
(* or a COUNT and a SELECT that are two statements), everything computed   *)
(* from their results is the package's.                                    *)
(***************************************************************************)
EXTENDS Users, Pagination, FiniteSets

CONSTANTS Sizes,          \* page sizes clients ask for
          SortParams,     \* sort parameters they send
          Instants        \* values of created_at

\* A varchar has finitely many values, and an int has room for every id.
ASSUME ListingAssumption ==
  /\ Sizes \subseteq Int /\ Instants \subseteq Nat \ {0}
  /\ IsFiniteSet(Names) /\ MaxId <= IntMax

VARIABLES
  created,    \* created_at each id's row has or will have; nothing else reads it,
              \* so it is drawn when a cursor walk begins
  query,      \* kind, size and ORDER BY of the walk
  walk,       \* the next statement of the walk
  at,         \* the page or the cursor it asks for next
  total,      \* the COUNT of the page being fetched
  got,        \* history: how often each id was returned, up to two
  always,     \* history: ids whose row was there ever since a cursor walk began
  still       \* history: the table has not changed since an offset walk began

listing == <<query, walk, at, total, got>>

Kinds == {"cursor", "offset"}
Orders == {"ASC", "DESC"}

ListTypeOK ==
  /\ UsersTypeOK
  /\ created \in [Ids -> Instants \cup {0}]
  /\ walk \in {"idle", "count", "find", "done"}
  /\ walk # "idle" => query.kind \in Kinds /\ query.size \in 1..MaxPageSize
  /\ total \in 0..MaxId /\ got \in [Ids -> 0..2]
  /\ always \subseteq Present /\ still \in BOOLEAN

ListInit ==
  /\ UsersInit
  /\ created = [id \in Ids |-> 0]
  /\ query = None /\ walk = "idle" /\ at = None /\ total = 0
  /\ got = [id \in Ids |-> 0]
  /\ always = {} /\ still = TRUE

-----------------------------------------------------------------------------
(* Queries *)

Whitelist == [id |-> "id", name |-> "name"]

Clauses == [col : {"id", "name"}, order : {"ASC", "DESC"}]

\* What SQL makes of a sort parameter is a list of clauses.  It is a fold, which
\* TLC evaluates and the provers cannot.
ASSUME SortAssumption ==
  \A sort \in SortParams : SQL(ParseSort(sort, "id", "DESC"), Whitelist) \in Seq(Clauses)

\* Names have some order.
Collation == CHOOSE f \in [Names -> 1..Cardinality(Names)] : IsInjective(f)

Column(id, col) == IF col = "id" THEN id ELSE Collation[table[id].name]

\* ORDER BY puts a before b, or leaves it open.
Sooner(a, b, clauses) ==
  \A i \in DOMAIN clauses :
    (\A j \in 1..(i - 1) : Column(a, clauses[j].col) = Column(b, clauses[j].col)) =>
      IF clauses[i].order = "DESC"
        THEN Column(a, clauses[i].col) >= Column(b, clauses[i].col)
        ELSE Column(a, clauses[i].col) <= Column(b, clauses[i].col)

\* The results a SELECT over ids may have: where the clause is not decisive,
\* any order, and another one the next time.
Results(ids, clauses) ==
  {rows \in SetToSeqs(ids) :
     \A i, j \in DOMAIN rows : i < j => Sooner(rows[i], rows[j], clauses)}

\* created_at < ? OR (created_at = ? AND id < ?)
Below(id, c) == created[id] < c.created_at \/ (created[id] = c.created_at /\ id < c.ID)

Newer(a, b) == created[a] > created[b] \/ (created[a] = created[b] /\ a > b)

\* ORDER BY created_at DESC, id DESC: a SELECT over ids has one result.
Newest(ids) ==
  {rows \in SetToSeqs(ids) : \A i, j \in DOMAIN rows : i < j => Newer(rows[i], rows[j])}

Return(items) ==
  got' = [id \in Ids |-> IF (\E i \in DOMAIN items : items[i] = id) /\ got[id] < 2
                           THEN got[id] + 1 ELSE got[id]]

-----------------------------------------------------------------------------
(* The walk *)

BeginWalk ==
  /\ walk = "idle"
  /\ \E size \in Sizes :
       \/ /\ query' = [kind |-> "cursor", size |-> CursorNormalize(size)]
          /\ at' = NoToken /\ walk' = "find"
          /\ created' \in [Ids -> Instants]
       \/ \E sort \in SortParams :
            /\ query' = [kind |-> "offset", size |-> Normalize([page |-> 0, size |-> size]).size,
                         clauses |-> SQL(ParseSort(sort, "id", "DESC"), Whitelist)]
            /\ at' = 1 /\ walk' = "count" /\ UNCHANGED created
  /\ always' = IF query'.kind = "cursor" THEN Present ELSE {}
  /\ still' = TRUE
  /\ UNCHANGED <<vars, total, got>>

FindWindow ==
  /\ walk = "find" /\ query.kind = "cursor"
  /\ LET below == {id \in Present : \A c \in DecodeCursor(at).data : Below(id, c)}
     IN \E newest \in Newest(below) :
          LET rows == Page(newest, 0, query.size + 1)
              result == NewCursorResult(rows, query.size, Len(rows) > query.size,
                                        [id \in Ids |-> EncodeCursor(id, created[id])])
          IN /\ Return(result.items)
             /\ at' = result.nextCursor
             /\ walk' = IF result.hasNext THEN "find" ELSE "done"
  /\ UNCHANGED <<vars, created, query, total, always, still>>

CountRows ==
  /\ walk = "count"
  /\ total' = Cardinality(Present)
  /\ walk' = "find"
  /\ UNCHANGED <<vars, created, query, at, got, always, still>>

FindPage ==
  /\ walk = "find" /\ query.kind = "offset"
  /\ LET p == [page |-> at, size |-> query.size] IN
       \E rows \in Results(Present, query.clauses) :
         LET result == NewResult(GormScope(rows, p), total, p) IN
           /\ Return(result.items)
           /\ at' = result.page + 1
           /\ walk' = IF result.hasNext THEN "count" ELSE "done"
  /\ UNCHANGED <<vars, created, query, total, always, still>>

\* A statement of another request.  What comes after the walk has no part in it.
Elsewhere ==
  /\ walk # "done" /\ UsersNext
  /\ always' = always \cap {id \in Ids : table'[id] # None}
  /\ still' = (still /\ (walk # "idle" /\ query.kind = "offset" => table' = table))
  /\ UNCHANGED <<created, listing>>

ListNext == BeginWalk \/ FindWindow \/ CountRows \/ FindPage \/ Elsewhere

ListSpec == ListInit /\ [][ListNext]_<<vars, created, listing, always, still>>

-----------------------------------------------------------------------------
(* Properties *)

\* Whatever is created, renamed, deleted or brought back meanwhile, a cursor
\* walk returns no user twice, and once it is over it has returned every user
\* that was there all the time.
CursorWalkComplete ==
  walk # "idle" /\ query.kind = "cursor" =>
    /\ \A id \in Ids : got[id] <= 1
    /\ walk = "done" => \A id \in always : got[id] = 1

Decisive(clauses) == \E i \in DOMAIN clauses : clauses[i].col = "id"

\* An offset walk over a table that does not change, sorted by columns that
\* include the id, returns every user exactly once.
OffsetWalkComplete ==
  walk = "done" /\ query.kind = "offset" /\ still /\ Decisive(query.clauses) =>
    \A id \in Ids : got[id] = IF id \in Present THEN 1 ELSE 0
=============================================================================
