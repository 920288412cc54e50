----------------------------- MODULE MCListing -----------------------------
(* Small instances of Listing for TLC, and Pagination against definitions. *)
EXTENDS Listing

\* Emails are compared for equality only.
Symmetry == Permutations(Emails)

Bare(f) == [sign |-> "", field |-> f, dir |-> ""]
Signed(s, f) == [sign |-> s, field |-> f, dir |-> ""]

Params == {
  <<>>,                                                     \* the default, id:desc
  <<Bare("name"), Bare("name"), Signed("-", "id")>>,        \* decisive
  <<[sign |-> "", field |-> "name", dir |-> "DESC"]>>,      \* ties
  <<Signed("-", ""), Bare("unknown")>> }                    \* no column left

-----------------------------------------------------------------------------
(* The operators of Pagination against reference definitions *)

Tokens == [sign : {"", "-", "+"}, field : {"", "id", "name", "unknown"}, dir : {"", "ASC", "DESC"}]
Lists == UNION {[1..n -> Tokens] : n \in 0..2}
Columns == DOMAIN Whitelist

\* The column a token sorts by, or none.
ColumnOf(t) ==
  IF t.sign = "" \/ t.dir = "" THEN {Whitelist[f] : f \in {t.field} \cap Columns} ELSE {}

Descending(t) == t.sign = "-" \/ (t.sign = "" /\ t.dir = "DESC")

\* Each column a token names sorts once, in the direction and the place of its
\* first mention; the default only if no token has a field or a sign.
ASSUME SortIsFirstMention ==
  \A l \in Lists :
    LET sql == SQL(ParseSort(l, "id", "DESC"), Whitelist)
        named == {i \in DOMAIN l : ColumnOf(l[i]) # {} /\ \A j \in 1..(i - 1) : ColumnOf(l[j]) # ColumnOf(l[i])}
    IN IF \A i \in DOMAIN l : l[i].sign = "" /\ l[i].field = ""
         THEN sql = <<[col |-> "id", order |-> "DESC"]>>
         ELSE /\ Len(sql) = Cardinality(named)
              /\ \A i \in named :
                   LET k == Cardinality({j \in named : j <= i}) IN
                     /\ sql[k].col \in ColumnOf(l[i])
                     /\ sql[k].order = IF Descending(l[i]) THEN "DESC" ELSE "ASC"

Numbers(n) == [i \in 1..n |-> i]

\* As long as the offset fits an int, the pages of a result tile it: a row is
\* on the page its number says and nowhere else, whatever size was asked for.
ASSUME PagesTile ==
  \A n \in 0..5, size \in -1..3, page \in -1..(IntMax + 1) :
    LET q == Normalize([page |-> page, size |-> size]) IN
      (q.page - 1) * q.size <= IntMax =>
        \A i \in 1..n : (\E k \in DOMAIN GormScope(Numbers(n), q) : GormScope(Numbers(n), q)[k] = i)
                          <=> (i - 1) \div q.size = q.page - 1

\* Beyond that it wraps, GORM drops it, and a page that does not exist shows
\* the first rows.
ASSUME OverflowShowsFirstPage ==
  \E page \in 2..IntMax :
    GormScope(Numbers(3), [page |-> page, size |-> 2]) = <<1, 2>>

\* The last window, and only it, has no next cursor, no window is longer than
\* was asked for, and a token that is none is an error.
ASSUME WindowsEnd ==
  \A n \in 0..3, limit \in 0..3 :
    LET more == n > CursorNormalize(limit)
        r == NewCursorResult(Numbers(n), CursorNormalize(limit), more, [i \in 1..n |-> EncodeCursor(i, 0)])
    IN /\ r.hasNext <=> r.nextCursor # NoToken
       /\ Len(r.items) <= CursorNormalize(limit)
       /\ DecodeCursor(Malformed).err # {}
=============================================================================
