----------------------------- MODULE Pagination -----------------------------
(***************************************************************************)
(* Package pagination: pages by offset, windows by cursor, and the ORDER   *)
(* BY clause made from a client's sort parameter.                          *)
(*                                                                         *)
(* Every definition is a function of its arguments.  Go's int is a range   *)
(* around zero in which results wrap.                                      *)
(***************************************************************************)
EXTENDS Integers, Sequences, SequencesExt

CONSTANTS DefaultPageSize, MaxPageSize,
          IntMax          \* the largest int

ASSUME PaginationAssumption ==
  /\ DefaultPageSize \in Nat \ {0} /\ MaxPageSize \in Nat \ {0} /\ IntMax \in Nat
  /\ DefaultPageSize <= MaxPageSize /\ MaxPageSize <= IntMax

Wrap(n) == ((n + IntMax + 1) % (2 * (IntMax + 1))) - (IntMax + 1)

-----------------------------------------------------------------------------
(* Offset *)

\* Mutant: the size is not capped.
Normalize_Uncapped(p) ==
  [page |-> IF p.page < 1 THEN 1 ELSE p.page,
   size |-> IF p.size < 1 THEN DefaultPageSize ELSE p.size]

Normalize(p) ==
  [page |-> IF p.page < 1 THEN 1 ELSE p.page,
   size |-> IF p.size < 1 THEN DefaultPageSize
            ELSE IF p.size > MaxPageSize THEN MaxPageSize ELSE p.size]

Offset(p) == Wrap((p.page - 1) * p.size)

\* GORM writes no OFFSET that is not positive.
Skipped(offset) == IF offset > 0 THEN offset ELSE 0

\* The rows of a result that OFFSET and LIMIT leave.
Page(rows, offset, limit) ==
  LET first == Skipped(offset) + 1
      last == IF Len(rows) < first - 1 + limit THEN Len(rows) ELSE first - 1 + limit
  IN SubSeq(rows, first, last)

GormScope(rows, p) == LET q == Normalize(p) IN Page(rows, Offset(q), q.size)

\* Mutant: the last, incomplete page is not counted.
NewResult_Floor(items, total, p) ==
  LET q == Normalize(p)
      pages == total \div q.size
  IN [items |-> items, totalPages |-> pages, page |-> q.page,
      hasNext |-> q.page < pages, hasPrev |-> q.page > 1 /\ pages > 0]

NewResult(items, total, p) ==
  LET q == Normalize(p)
      pages == (total + q.size - 1) \div q.size
  IN [items |-> items, totalPages |-> pages, page |-> q.page,
      hasNext |-> q.page < pages, hasPrev |-> q.page > 1 /\ pages > 0]

-----------------------------------------------------------------------------
(* Cursor *)

CursorNormalize(limit) ==
  IF limit < 1 THEN DefaultPageSize ELSE IF limit > MaxPageSize THEN MaxPageSize ELSE limit

\* A token is a record of what it encodes, or one of these.
NoToken == [ID |-> 0]
Malformed == [ID |-> -1]

\* The zero time is left out of the token.
EncodeCursor(id, createdAt) ==
  IF createdAt = 0 THEN [ID |-> id] ELSE [ID |-> id, created_at |-> createdAt]

\* An empty token is no cursor and no error.
DecodeCursor(token) ==
  [data |-> IF token \in {NoToken, Malformed} THEN {} ELSE {token},
   err |-> IF token = Malformed THEN {"ErrInvalidCursor"} ELSE {}]

\* Mutant: the next cursor is that of the probe record.
NewCursorResult_OfProbe(items, limit, hasMore, getCursorFn) ==
  LET cap == IF limit < 1 THEN DefaultPageSize ELSE limit
      kept == IF hasMore /\ Len(items) > cap THEN SubSeq(items, 1, cap) ELSE items
  IN [items |-> kept,
      nextCursor |-> IF kept # <<>> /\ hasMore THEN getCursorFn[Last(items)] ELSE NoToken,
      prevCursor |-> IF kept # <<>> THEN getCursorFn[Head(kept)] ELSE NoToken,
      hasNext |-> hasMore, hasPrev |-> kept # <<>>]

\* The limit has a default here and no cap.  hasPrev only says that the window
\* is not empty.
NewCursorResult(items, limit, hasMore, getCursorFn) ==
  LET cap == IF limit < 1 THEN DefaultPageSize ELSE limit
      kept == IF hasMore /\ Len(items) > cap THEN SubSeq(items, 1, cap) ELSE items
  IN [items |-> kept,
      nextCursor |-> IF kept # <<>> /\ hasMore THEN getCursorFn[Last(kept)] ELSE NoToken,
      prevCursor |-> IF kept # <<>> THEN getCursorFn[Head(kept)] ELSE NoToken,
      hasNext |-> hasMore, hasPrev |-> kept # <<>>]

-----------------------------------------------------------------------------
(* Sort *)

\* A token of the sort parameter: sign "-", "+" or "", a field, a direction
\* after a delimiter, or "".  After a sign, the delimiter and the direction
\* belong to the field's name, which is then no column's; a sign alone is a name.
Criteria(token) ==
  CASE token.sign # "" ->
         <<[field |-> IF token.dir # "" THEN "field:dir"
                      ELSE IF token.field # "" THEN token.field ELSE token.sign,
            order |-> IF token.sign = "-" /\ token.field \o token.dir # "" THEN "DESC" ELSE "ASC"]>>
    [] token.sign = "" /\ token.field # "" ->
         <<[field |-> token.field, order |-> IF token.dir = "DESC" THEN "DESC" ELSE "ASC"]>>
    [] OTHER -> <<>>

\* The default stands in for a parameter without criteria.
ParseSort(tokens, field, order) ==
  LET parsed == FlattenSeq([i \in DOMAIN tokens |-> Criteria(tokens[i])]) IN
    IF parsed = <<>> /\ field # ""
      THEN <<[field |-> field, order |-> IF order = "DESC" THEN "DESC" ELSE "ASC"]>>
      ELSE parsed

\* The whitelist's columns in the order of the criteria, each once.  It may
\* leave none, although the parameter had criteria: then there is no ORDER BY.
SQL(criteria, whitelist) ==
  LET Clause(clauses, c) ==
        IF \/ c.field \notin DOMAIN whitelist
           \/ \E i \in DOMAIN clauses : clauses[i].col = whitelist[c.field]
          THEN clauses
          ELSE Append(clauses, [col |-> whitelist[c.field], order |-> c.order])
  IN FoldLeft(Clause, <<>>, criteria)
=============================================================================
