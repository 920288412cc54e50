---------------------------- MODULE ListingProofs ----------------------------
(***************************************************************************)
(* What concurrent updates can and cannot undo, for any number of users,   *)
(* updates, names and emails, and that a walk through the users only       *)
(* watches them.                                                           *)
(***************************************************************************)
EXTENDS Listing, FiniteSetTheorems, FunctionTheorems, SequenceTheorems, TLAPS

USE UsersAssumption

\* What an update holds has an id the sequence has handed out and the name it
\* was asked for, or else, unless somebody wrote the row since, the name the row
\* is expected to keep.
HeldIsCurrent ==
  \A r \in Updaters :
    /\ step[r] # "idle" => held[r] # None
    /\ held[r] # None =>
         /\ held[r].id < nextId
         /\ held[r].want # None => held[r].row.name = held[r].want
         /\ expected[held[r].id] # Open /\ held[r].want = None =>
              held[r].row.name = expected[held[r].id]

\* No row has an id that the sequence has yet to hand out.
IdsAreFresh == \A id \in Ids : id >= nextId => table[id] = None

Undoing == UsersTypeOK /\ HeldIsCurrent /\ IdsAreFresh /\ OverlapAloneUndoes

\* None is nothing else.
LEMMA NoneIsNothing == None \notin Names \cup Updaters /\ None \notin Rows /\ None \notin Held /\ Ids \subseteq Nat
BY DEF Ids

\* There are no rows at the start.
LEMMA UndoingInit == UsersInit => Undoing
BY DEF UsersInit, Undoing, UsersTypeOK, HeldIsCurrent, IdsAreFresh, OverlapAloneUndoes, Present, Ids

\* Every statement keeps the types of the table.
LEMMA TypesStep == UsersTypeOK /\ HeldIsCurrent /\ [UsersNext]_vars => UsersTypeOK'
<1> SUFFICES ASSUME UsersTypeOK, HeldIsCurrent, [UsersNext]_vars PROVE UsersTypeOK'
  OBVIOUS
<1> USE DEF UsersTypeOK, HeldIsCurrent, Present, Expect, Write, Done
<1>1. ASSUME NEW n \in Names, NEW e \in Emails, Create(n, e) PROVE UsersTypeOK'
  BY <1>1 DEF Create, Rows, Ids
<1>2. ASSUME NEW id \in Ids, Delete(id) PROVE UsersTypeOK'
  BY <1>2 DEF Delete
<1>3. ASSUME NEW r \in Updaters, NEW id \in Ids, NEW n \in Names \cup {None}, FindByID(r, id, n)
      PROVE UsersTypeOK'
  <2>1. Changed(table[id], n) \in Rows
    BY <1>3 DEF FindByID, Changed, Rows
  <2> QED
    BY <1>3, <2>1 DEF FindByID, Held
<1>4. ASSUME NEW r \in Updaters, Save(r) \/ SaveInserts(r) PROVE UsersTypeOK'
  <2>1. held[r] \in Held
    BY <1>4 DEF Save, SaveInserts
  <2> QED
    BY <1>4, <2>1 DEF Save, SaveInserts, Held
<1>5. ASSUME NEW r \in Updaters, UpdateFails(r) PROVE UsersTypeOK'
  BY <1>5 DEF UpdateFails
<1>6. CASE UNCHANGED vars
  BY <1>6 DEF vars
<1> QED
  BY <1>1, <1>2, <1>3, <1>4, <1>5, <1>6 DEF UsersNext

\* What a write leaves: the row, and what is expected of it.
Leaves(id, row, name, r) ==
  /\ table' = [table EXCEPT ![id] = row]
  /\ nextId' = nextId
  /\ expected'[id] = IF HeldByOther(id, r) \/ expected[id] = Open THEN Open ELSE name
  /\ \A other \in Ids \ {id} : expected'[other] = expected[other]

\* Every statement keeps what is expected of each row.
LEMMA UndoingStep == Undoing /\ [UsersNext]_vars => Undoing'
<1> SUFFICES ASSUME Undoing, [UsersNext]_vars PROVE Undoing'
  OBVIOUS
<1> USE NoneIsNothing DEF Undoing, UsersTypeOK, Present
<1>1. UsersTypeOK'
  BY TypesStep
<1>2. ASSUME NEW n \in Names, NEW e \in Emails, Create(n, e)
      PROVE HeldIsCurrent' /\ IdsAreFresh' /\ OverlapAloneUndoes'
  <2>1. nextId \in Ids /\ nextId' = nextId + 1
    BY <1>2 DEF Create, Ids
  <2>2. HeldIsCurrent'
    <3>1. \A r \in Updaters : held[r] # None => held[r].id \in Ids /\ held[r].id # nextId
      BY <2>1 DEF HeldIsCurrent, Held, Ids
    <3>2. \A id \in Ids \ {nextId} : expected'[id] = expected[id]
      BY <1>2 DEF Create
    <3>3. \A id \in Ids : id < nextId => id < nextId'
      BY <2>1 DEF Ids
    <3> QED
      BY <1>2, <3>1, <3>2, <3>3 DEF Create, HeldIsCurrent
  <2>3. IdsAreFresh'
    <3>1. \A id \in Ids : id >= nextId' => id >= nextId /\ id # nextId
      BY <2>1 DEF Ids
    <3>2. \A id \in Ids \ {nextId} : table'[id] = table[id]
      BY <1>2 DEF Create
    <3> QED
      BY <3>1, <3>2 DEF IdsAreFresh
  <2>4. OverlapAloneUndoes'
    <3>1. CASE UNCHANGED <<table, expected>>
      BY <3>1 DEF OverlapAloneUndoes
    <3>2. CASE /\ table' = [table EXCEPT ![nextId] = [name |-> n, email |-> e]]
               /\ expected' = [expected EXCEPT ![nextId] = n]
      <4>1. table'[nextId] = [name |-> n, email |-> e] /\ table'[nextId] # None /\ expected'[nextId] = n
        BY <2>1, <3>2 DEF Rows
      <4>2. \A id \in Ids \ {nextId} : table'[id] = table[id] /\ expected'[id] = expected[id]
        BY <3>2
      <4> QED
        BY <4>1, <4>2 DEF OverlapAloneUndoes
    <3> QED
      BY <1>2, <3>1, <3>2 DEF Create
  <2> QED
    BY <2>2, <2>3, <2>4
<1>3. ASSUME NEW id \in Ids, Delete(id)
      PROVE HeldIsCurrent' /\ IdsAreFresh' /\ OverlapAloneUndoes'
  <2>1. HeldIsCurrent'
    BY <1>3 DEF Delete, Expect, HeldByOther, HeldIsCurrent, Held
  <2>2. IdsAreFresh'
    BY <1>3 DEF Delete, IdsAreFresh
  <2>3. OverlapAloneUndoes'
    BY <1>3 DEF Delete, Expect, OverlapAloneUndoes
  <2> QED
    BY <2>1, <2>2, <2>3
<1>4. ASSUME NEW r \in Updaters, NEW id \in Ids, NEW n \in Names \cup {None}, FindByID(r, id, n)
      PROVE HeldIsCurrent' /\ IdsAreFresh' /\ OverlapAloneUndoes'
  <2>1. HeldIsCurrent'
    <3> DEFINE h == [id |-> id, want |-> n, row |-> Changed(table[id], n)]
    <3>1. h.row.name = IF n = None THEN table[id].name ELSE n
      BY <1>4 DEF FindByID, Changed, Rows
    <3>2. id < nextId /\ (expected[id] # Open => expected[id] = table[id].name)
      BY <1>4 DEF FindByID, IdsAreFresh, OverlapAloneUndoes, Ids
    <3>3. h # None
      BY <1>4 DEF FindByID, Changed, Held, Rows
    <3> QED
      BY <1>4, <3>1, <3>2, <3>3 DEF FindByID, HeldIsCurrent
  <2>2. IdsAreFresh' /\ OverlapAloneUndoes'
    BY <1>4 DEF FindByID, IdsAreFresh, OverlapAloneUndoes
  <2> QED
    BY <2>1, <2>2
<1>5. ASSUME NEW r \in Updaters, held[r] # None, Write(r), Done(r), nextId' = nextId
      PROVE HeldIsCurrent' /\ IdsAreFresh' /\ OverlapAloneUndoes'
  <2> DEFINE h == held[r]
             name == IF h.want = None THEN expected[h.id] ELSE h.want
  <2>1. h \in Held /\ h.id \in Ids /\ h.id < nextId
    BY <1>5 DEF Held, HeldIsCurrent
  <2>2. Leaves(h.id, h.row, name, r)
    BY <1>5, <2>1 DEF Write, Expect, Leaves
  <2>3. OverlapAloneUndoes'
    <3>1. expected[h.id] # Open => name = h.row.name
      BY <1>5 DEF HeldIsCurrent
    <3> QED
      BY <2>1, <2>2, <3>1 DEF Leaves, OverlapAloneUndoes, Held, Rows
  <2>4. HeldIsCurrent'
    BY <1>5, <2>1, <2>2 DEF Done, Leaves, HeldByOther, HeldIsCurrent, Held
  <2>5. IdsAreFresh'
    BY <2>1, <2>2 DEF Leaves, IdsAreFresh, Ids
  <2> QED
    BY <2>3, <2>4, <2>5
<1>6. ASSUME NEW r \in Updaters, Done(r), UNCHANGED <<table, nextId, expected>>
      PROVE HeldIsCurrent' /\ IdsAreFresh' /\ OverlapAloneUndoes'
  BY <1>6 DEF Done, HeldIsCurrent, IdsAreFresh, OverlapAloneUndoes
<1>7. ASSUME NEW r \in Updaters, Save(r) \/ SaveInserts(r) \/ UpdateFails(r)
      PROVE HeldIsCurrent' /\ IdsAreFresh' /\ OverlapAloneUndoes'
  <2>1. held[r] # None
    BY <1>7 DEF Save, SaveInserts, UpdateFails, HeldIsCurrent
  <2>2. CASE UNCHANGED <<table, held, expected, nextId>> /\ step' = [step EXCEPT ![r] = "insert"]
    BY <2>1, <2>2 DEF HeldIsCurrent, IdsAreFresh, OverlapAloneUndoes
  <2> QED
    BY <1>5, <1>6, <1>7, <2>1, <2>2 DEF Save, SaveInserts, UpdateFails
<1>8. CASE UNCHANGED vars
  BY <1>8 DEF vars, HeldIsCurrent, IdsAreFresh, OverlapAloneUndoes
<1> QED
  BY <1>1, <1>2, <1>3, <1>4, <1>7, <1>8 DEF UsersNext

\* The invariant holds for ever.
LEMMA UndoingKept == UsersSpec => []Undoing
BY UndoingInit, UndoingStep, PTL DEF UsersSpec

-----------------------------------------------------------------------------

\* Every statement keeps the types.
THEOREM TypeCorrect == UsersSpec => []UsersTypeOK
<1>1. Undoing => UsersTypeOK
  BY DEF Undoing
<1> QED
  BY <1>1, UndoingKept, PTL

\* A committed rename or deletion is undone only by an update that had read the
\* row before (UpdateUseCase, Save).
THEOREM OnlyOverlapUndoes == UsersSpec => []OverlapAloneUndoes
<1>1. Undoing => OverlapAloneUndoes
  BY DEF Undoing
<1> QED
  BY <1>1, UndoingKept, PTL

-----------------------------------------------------------------------------
(* Walks *)

\* Every step of a walk is a step of Users, or none.
LEMMA WalkStep == [ListNext]_<<vars, created, listing, always, still>> => [UsersNext]_vars
<1>1. CASE BeginWalk
  BY <1>1 DEF BeginWalk
<1>2. CASE FindWindow
  BY <1>2 DEF FindWindow
<1>3. CASE CountRows
  BY <1>3 DEF CountRows
<1>4. CASE FindPage
  BY <1>4 DEF FindPage
<1>5. CASE Elsewhere
  BY <1>5 DEF Elsewhere
<1>6. CASE UNCHANGED <<vars, created, listing, always, still>>
  BY <1>6
<1> QED
  BY <1>1, <1>2, <1>3, <1>4, <1>5, <1>6 DEF ListNext

\* A walk by cursor or page takes no part in what is written.
THEOREM WalksOnlyWatch == ListSpec => UsersSpec
<1>1. ListInit => UsersInit
  BY DEF ListInit
<1> QED
  BY <1>1, WalkStep, PTL DEF ListSpec, UsersSpec

\* A committed rename or deletion is undone only by an update that had read the
\* row before, also while the users are walked.
THEOREM OnlyOverlapUndoesInWalks == ListSpec => []OverlapAloneUndoes
BY WalksOnlyWatch, OnlyOverlapUndoes, PTL

WalkTyped ==
  /\ created \in [Ids -> Instants \cup {0}]
  /\ walk \in {"idle", "count", "find", "done"}
  /\ walk # "idle" => query.kind \in Kinds /\ query.size \in 1..MaxPageSize
  /\ total \in 0..MaxId /\ got \in [Ids -> 0..2]
  /\ always \subseteq Present /\ still \in BOOLEAN

\* No walk is under way at the start.
LEMMA WalkTypedInit == ListInit => WalkTyped
BY UsersAssumption DEF ListInit, WalkTyped, Ids

\* Counting what is returned stops at two.
LEMMA Returned == ASSUME NEW items, got \in [Ids -> 0..2], Return(items) PROVE got' \in [Ids -> 0..2]
BY DEF Return

\* Every step of a walk keeps its types.
LEMMA WalkTypedStep == WalkTyped /\ [ListNext]_<<vars, created, listing, always, still>> => WalkTyped'
<1> SUFFICES ASSUME WalkTyped, [ListNext]_<<vars, created, listing, always, still>> PROVE WalkTyped'
  OBVIOUS
<1> USE DEF WalkTyped
<1>1. CASE BeginWalk
  <2>1. UNCHANGED <<Present, total, got>> /\ still' \in BOOLEAN /\ always' \subseteq Present
    BY <1>1 DEF BeginWalk, Present, vars
  <2>2. created' \in [Ids -> Instants \cup {0}] /\ walk' \in {"count", "find"}
    BY <1>1 DEF BeginWalk
  <2>3. query'.kind \in Kinds /\ query'.size \in 1..MaxPageSize
    <3>1. ASSUME NEW size \in Sizes
          PROVE  /\ CursorNormalize(size) \in 1..MaxPageSize
                 /\ Normalize([page |-> 0, size |-> size]).size \in 1..MaxPageSize
      BY PaginationAssumption, ListingAssumption DEF CursorNormalize, Normalize
    <3> QED
      BY <1>1, <3>1 DEF BeginWalk, Kinds
  <2> QED
    BY <2>1, <2>2, <2>3
<1>2. CASE FindWindow
  <2>1. UNCHANGED <<Present, created, query, total, always, still>> /\ walk' \in {"find", "done"} /\ walk # "idle"
    BY <1>2 DEF FindWindow, Present, vars
  <2>2. got' \in [Ids -> 0..2]
    BY <1>2, Returned DEF FindWindow
  <2> QED
    BY <2>1, <2>2
<1>3. CASE CountRows
  <2>1. Cardinality(Present) \in 0..MaxId
    <3>1. IsFiniteSet(Ids) /\ Cardinality(Ids) = MaxId
      BY FS_Interval, UsersAssumption DEF Ids
    <3> QED
      BY <3>1, FS_Subset, FS_CardinalityType DEF Present
  <2> QED
    BY <1>3, <2>1 DEF CountRows, Present, vars
<1>4. CASE FindPage
  <2>1. UNCHANGED <<Present, created, query, total, always, still>> /\ walk' \in {"count", "done"} /\ walk # "idle"
    BY <1>4 DEF FindPage, Present, vars
  <2>2. got' \in [Ids -> 0..2]
    BY <1>4, Returned DEF FindPage
  <2> QED
    BY <2>1, <2>2
<1>5. CASE Elsewhere
  <2>1. always' \subseteq Present' /\ still' \in BOOLEAN
    BY <1>5 DEF Elsewhere, Present
  <2> QED
    BY <1>5, <2>1 DEF Elsewhere, listing
<1>6. CASE UNCHANGED <<vars, created, listing, always, still>>
  BY <1>6 DEF vars, listing, Present
<1> QED
  BY <1>1, <1>2, <1>3, <1>4, <1>5, <1>6 DEF ListNext

\* The walk's sizes, counts and history keep their types, whatever is asked for
\* (Normalize, NewResult, NewCursorResult).
THEOREM WalkTypeCorrect == ListSpec => []ListTypeOK
<1>1. WalkTyped /\ UsersTypeOK => ListTypeOK
  BY DEF WalkTyped, ListTypeOK
<1>2. ListSpec => []WalkTyped
  BY WalkTypedInit, WalkTypedStep, PTL DEF ListSpec
<1> QED
  BY <1>1, <1>2, WalksOnlyWatch, TypeCorrect, PTL

-----------------------------------------------------------------------------
(* Sequences of rows *)

\* A result has every row once.
LEMMA Sequenced ==
  ASSUME NEW S, IsFiniteSet(S), NEW rows \in SetToSeqs(S)
  PROVE  /\ rows \in Seq(S) /\ Len(rows) = Cardinality(S) /\ Len(rows) \in Nat
         /\ \A i, j \in 1..Len(rows) : i # j => rows[i] # rows[j]
         /\ \A x \in S : \E i \in 1..Len(rows) : rows[i] = x
<1> DEFINE n == Cardinality(S)
<1>1. n \in Nat
  BY FS_CardinalityType
<1>2. rows \in [1..n -> S] /\ \A i, j \in 1..n : i # j => rows[i] # rows[j]
  BY DEF SetToSeqs
<1>3. rows \in Seq(S) /\ Len(rows) = n
  BY <1>1, <1>2
<1>4. rows \in Surjection(1..n, S)
  <2>1. rows \in Injection(1..n, S)
    BY <1>2 DEF Injection, IsInjective
  <2>2. Cardinality(1..n) = n
    BY <1>1, FS_Interval
  <2> HIDE DEF n
  <2> QED
    BY <2>1, <2>2, FS_Injection DEF n
<1>5. \A x \in S : \E i \in 1..n : rows[i] = x
  BY <1>4 DEF Surjection
<1> QED
  BY <1>1, <1>2, <1>3, <1>5

\* page is what OFFSET and LIMIT leave of rows.
CutFrom(page, rows, skip, limit) ==
  /\ Len(page) = IF Len(rows) < skip THEN 0
                 ELSE IF Len(rows) - skip < limit THEN Len(rows) - skip ELSE limit
  /\ \A i \in 1..Len(page) : page[i] = rows[skip + i]

\* OFFSET skips rows, LIMIT cuts what is left.
LEMMA Paged ==
  ASSUME NEW S, NEW rows \in Seq(S), NEW skip \in Nat, NEW limit \in Nat
  PROVE  Page(rows, skip, limit) \in Seq(S) /\ CutFrom(Page(rows, skip, limit), rows, skip, limit)
<1> DEFINE first == skip + 1
           last == IF Len(rows) < first - 1 + limit THEN Len(rows) ELSE first - 1 + limit
           n == IF Len(rows) < skip THEN 0
                ELSE IF Len(rows) - skip < limit THEN Len(rows) - skip ELSE limit
<1>1. Len(rows) \in Nat /\ \A i \in 1..Len(rows) : rows[i] \in S
  OBVIOUS
<1>2. first \in Int /\ last \in Int /\ n \in Nat
  BY <1>1
<1>3. \A i \in first..last : rows[i] \in S
  BY <1>1
<1>4. Page(rows, skip, limit) = SubSeq(rows, first, last)
  <2>1. Skipped(skip) = skip
    BY DEF Skipped
  <2> QED
    BY <2>1 DEF Page
<1>5. /\ SubSeq(rows, first, last) \in Seq(S)
      /\ Len(SubSeq(rows, first, last)) = IF first <= last THEN last - first + 1 ELSE 0
      /\ \A i \in 1..(last - first + 1) : SubSeq(rows, first, last)[i] = rows[first + i - 1]
  <2> HIDE DEF first, last
  <2> QED
    BY <1>2, <1>3, SubSeqProperties
<1>6. n = IF first <= last THEN last - first + 1 ELSE 0
  BY <1>1
<1>7. \A i \in 1..n : i \in 1..(last - first + 1) /\ first + i - 1 = skip + i
  BY <1>1, <1>2, <1>6
<1> QED
  BY <1>4, <1>5, <1>6, <1>7 DEF CutFrom

\* LIMIT alone keeps the first rows.
LEMMA FirstRows ==
  ASSUME NEW S, NEW rows \in Seq(S), NEW limit \in Nat
  PROVE  /\ Page(rows, 0, limit) \in Seq(S)
         /\ Len(Page(rows, 0, limit)) = IF Len(rows) < limit THEN Len(rows) ELSE limit
         /\ \A i \in 1..Len(Page(rows, 0, limit)) : Page(rows, 0, limit)[i] = rows[i]
<1> DEFINE page == Page(rows, 0, limit)
<1>1. page \in Seq(S) /\ CutFrom(page, rows, 0, limit)
  BY Paged
<1>2. Len(rows) \in Nat /\ \A i \in 1..Len(page) : 0 + i = i
  BY <1>1
<1> HIDE DEF page
<1>3. /\ Len(page) = IF Len(rows) < limit THEN Len(rows) ELSE limit
      /\ \A i \in 1..Len(page) : page[i] = rows[i]
  BY <1>1, <1>2 DEF CutFrom
<1> QED
  BY <1>1, <1>3 DEF page

\* What Return does to each id.
LEMMA ReturnedOnce ==
  ASSUME NEW items, NEW id \in Ids, got \in [Ids -> 0..2], Return(items)
  PROVE  /\ ~(\E i \in DOMAIN items : items[i] = id) => got'[id] = got[id]
         /\ got[id] = 0 /\ (\E i \in DOMAIN items : items[i] = id) => got'[id] = 1
BY DEF Return

-----------------------------------------------------------------------------
(* A cursor's window *)

\* Of the rows of ids, items are all, the cursor being empty, or those down to the
\* one the cursor is of.
Window(ids, result) ==
  LET Shown(id) == \E i \in DOMAIN result.items : result.items[i] = id IN
    /\ result.hasNext \in BOOLEAN
    /\ \A id \in Ids : Shown(id) => id \in ids
    /\ ~result.hasNext => \A id \in ids : Shown(id)
    /\ result.hasNext =>
         \E last \in ids :
           /\ result.nextCursor = [ID |-> last, created_at |-> created[last]]
           /\ \A id \in ids : Shown(id) <=> ~Newer(last, id)

\* The rows up to the limit, and the cursor of the last of them if there are more.
LEMMA Probed ==
  ASSUME NEW S, NEW rows \in Seq(S), NEW size \in Nat \ {0}, NEW cursor
  PROVE  LET result == NewCursorResult(rows, size, Len(rows) > size, cursor)
             k == IF Len(rows) > size THEN size ELSE Len(rows)
         IN /\ result.hasNext = (Len(rows) > size)
            /\ DOMAIN result.items = 1..k
            /\ \A i \in 1..k : result.items[i] = rows[i]
            /\ Len(rows) > size => result.nextCursor = cursor[rows[size]]
<1> DEFINE kept == SubSeq(rows, 1, size)
           result == NewCursorResult(rows, size, Len(rows) > size, cursor)
<1>1. Len(rows) \in Nat /\ DOMAIN rows = 1..Len(rows) /\ \A i \in 1..Len(rows) : rows[i] \in S
  OBVIOUS
<1>2. ~(size < 1)
  OBVIOUS
<1>3. CASE ~(Len(rows) > size)
  <2>1. result.hasNext = (Len(rows) > size)
    BY DEF NewCursorResult
  <2>2. result.items = rows
    BY <1>3 DEF NewCursorResult
  <2> QED
    BY <1>1, <1>3, <2>1, <2>2
<1>4. CASE Len(rows) > size
  <2>1. \A i \in 1..size : rows[i] \in S
    BY <1>1, <1>4
  <2>2. /\ kept \in Seq(S) /\ Len(kept) = size
        /\ \A i \in 1..size : kept[i] = rows[1 + i - 1]
    BY <2>1, SubSeqProperties
  <2>3. \A i \in 1..size : kept[i] = rows[i]
    BY <2>2
  <2>4. DOMAIN kept = 1..size /\ kept # <<>> /\ Last(kept) = rows[size]
    <3>1. kept[size] = rows[size]
      BY <2>3
    <3>2. DOMAIN kept = 1..size /\ kept # <<>>
      <4> HIDE DEF kept
      <4> QED
        BY <2>2
    <3> QED
      BY <2>2, <3>1, <3>2 DEF Last
  <2>5. result.hasNext = (Len(rows) > size)
    BY DEF NewCursorResult
  <2>6. result.items = kept
    BY <1>2, <1>4 DEF NewCursorResult
  <2>7. result.nextCursor = cursor[Last(kept)]
    BY <1>2, <1>4, <2>4 DEF NewCursorResult
  <2> QED
    BY <1>4, <2>3, <2>4, <2>5, <2>6, <2>7
<1> QED
  BY <1>3, <1>4

\* A window shows the newest of the rows asked for, and its cursor separates
\* them from the rest.
LEMMA WindowIs ==
  ASSUME created \in [Ids -> Instants], NEW ids \in SUBSET Ids, NEW newest \in Newest(ids),
         NEW size \in Nat \ {0}
  PROVE  LET rows == Page(newest, 0, size + 1) IN
           Window(ids, NewCursorResult(rows, size, Len(rows) > size,
                                       [id \in Ids |-> EncodeCursor(id, created[id])]))
<1> DEFINE rows == Page(newest, 0, size + 1)
           cursor == [id \in Ids |-> EncodeCursor(id, created[id])]
           result == NewCursorResult(rows, size, Len(rows) > size, cursor)
           n == Len(newest)
           k == IF n > size THEN size ELSE n
<1>1. IsFiniteSet(ids)
  <2>1. IsFiniteSet(Ids)
    BY FS_Interval, UsersAssumption DEF Ids
  <2> QED
    BY <2>1, FS_Subset
<1>2. /\ newest \in Seq(ids) /\ n \in Nat
      /\ \A i \in 1..n : newest[i] \in ids
      /\ \A x \in ids : \E i \in 1..n : newest[i] = x
  BY <1>1, Sequenced DEF Newest
<1>3. \A i, j \in 1..n : i < j => Newer(newest[i], newest[j])
  <2>1. DOMAIN newest = 1..n
    BY <1>2
  <2> HIDE DEF n
  <2> QED
    BY <2>1 DEF Newest
<1>4. /\ rows \in Seq(ids) /\ Len(rows) = IF n < size + 1 THEN n ELSE size + 1
      /\ \A i \in 1..Len(rows) : rows[i] = newest[i]
  BY <1>2, FirstRows
<1>5. /\ result.hasNext = (n > size) /\ DOMAIN result.items = 1..k
      /\ \A i \in 1..k : result.items[i] = newest[i]
      /\ n > size => result.nextCursor = cursor[newest[size]]
  <2>1. (Len(rows) > size) = (n > size) /\ k = IF Len(rows) > size THEN size ELSE Len(rows)
    <3> HIDE DEF rows, n
    <3> QED
      BY <1>2, <1>4
  <2>2. LET m == IF Len(rows) > size THEN size ELSE Len(rows)
        IN /\ result.hasNext = (Len(rows) > size)
           /\ DOMAIN result.items = 1..m
           /\ \A i \in 1..m : result.items[i] = rows[i]
           /\ Len(rows) > size => result.nextCursor = cursor[rows[size]]
    <3> HIDE DEF rows, cursor
    <3> QED
      BY <1>4, Probed
  <2>3. k \in 0..Len(rows) /\ (n > size => size \in 1..Len(rows))
    <3> HIDE DEF rows, n
    <3> QED
      BY <1>2, <1>4
  <2> HIDE DEF rows, cursor, n, k, result
  <2> QED
    BY <1>4, <2>1, <2>2, <2>3
<1>6. n > size => cursor[newest[size]] = [ID |-> newest[size], created_at |-> created[newest[size]]]
  <2> SUFFICES ASSUME n > size PROVE cursor[newest[size]] = [ID |-> newest[size], created_at |-> created[newest[size]]]
    OBVIOUS
  <2>1. newest[size] \in Ids
    BY <1>2
  <2> QED
    BY <2>1, ListingAssumption DEF EncodeCursor
<1>7. \A i, j \in 1..n : Newer(newest[i], newest[j]) <=> i < j
  <2>1. \A a, b \in Ids : ~(Newer(a, b) /\ Newer(b, a)) /\ ~Newer(a, a)
    <3>1. \A a \in Ids : a \in Nat /\ created[a] \in Nat
      BY ListingAssumption, NoneIsNothing
    <3> QED
      BY <3>1 DEF Newer
  <2> HIDE DEF n
  <2> QED
    BY <1>2, <1>3, <2>1
<1> HIDE DEF rows, cursor, result, n, k
<1>8. \A id \in Ids : (\E i \in DOMAIN result.items : result.items[i] = id) <=> \E i \in 1..k : newest[i] = id
  BY <1>5
<1>9. k \in Nat /\ k <= n /\ (n > size => k = size) /\ (~(n > size) => k = n)
  BY <1>2 DEF k
<1>10. ASSUME n > size
       PROVE  /\ newest[size] \in ids
              /\ \A id \in ids : (\E i \in 1..k : newest[i] = id) <=> ~Newer(newest[size], id)
  <2>1. size \in 1..n
    BY <1>2, <1>10
  <2>2. \A j \in 1..n : Newer(newest[size], newest[j]) <=> ~(j <= size)
    BY <1>2, <1>7, <2>1
  <2> QED
    BY <1>2, <1>9, <1>10, <2>1, <2>2
<1>11. \A id \in Ids : (\E i \in 1..k : newest[i] = id) => id \in ids
  BY <1>2, <1>9
<1>12. ~(n > size) => \A id \in ids : \E i \in 1..k : newest[i] = id
  BY <1>2, <1>9
<1>13. Window(ids, result)
  <2>1. result.hasNext \in BOOLEAN
    BY <1>5
  <2> QED
    BY <1>5, <1>6, <1>8, <1>10, <1>11, <1>12, <2>1 DEF Window
<1> QED
  BY <1>13 DEF result, rows, cursor

\* The rows the walk has not come to yet.
Unseen(id) ==
  at # NoToken => \E last \in Ids : at.ID = last /\ Newer(last, id)

\* A walk by cursor has returned what is not below its cursor, once, and all that
\* was there all the time.
CursorAt ==
  /\ walk = "idle" => \A id \in Ids : got[id] = 0
  /\ walk # "idle" /\ query.kind = "cursor" =>
       /\ walk \in {"find", "done"}
       /\ created \in [Ids -> Instants]
       /\ at = NoToken \/ \E last \in Ids : at = [ID |-> last, created_at |-> created[last]]
       /\ walk = "find" => \A id \in Ids : Unseen(id) => got[id] = 0
       /\ \A id \in always : walk = "done" \/ ~Unseen(id) => got[id] = 1
       /\ \A id \in Ids : got[id] <= 1

\* The SELECT asks for the rows not yet seen.
LEMMA BelowIsUnseen ==
  ASSUME created \in [Ids -> Instants],
         at = NoToken \/ \E last \in Ids : at = [ID |-> last, created_at |-> created[last]]
  PROVE  {id \in Present : \A c \in DecodeCursor(at).data : Below(id, c)} = {id \in Present : Unseen(id)}
<1>1. CASE at = NoToken
  BY <1>1 DEF DecodeCursor, Unseen
<1>2. ASSUME NEW last \in Ids, at = [ID |-> last, created_at |-> created[last]]
      PROVE {id \in Present : \A c \in DecodeCursor(at).data : Below(id, c)} = {id \in Present : Unseen(id)}
  <2>1. at \notin {NoToken, Malformed} /\ at.ID = last /\ at.created_at = created[last]
    <3>1. last # 0 /\ last # -1
      BY NoneIsNothing DEF Ids
    <3>2. at.ID # NoToken.ID /\ at.ID # Malformed.ID
      BY <1>2, <3>1 DEF NoToken, Malformed
    <3> QED
      BY <1>2, <3>2
  <2>2. DecodeCursor(at).data = {at}
    BY <2>1 DEF DecodeCursor
  <2>3. \A id \in Ids : Below(id, at) <=> Newer(last, id)
    <3>1. \A id \in Ids : id \in Nat /\ created[id] \in Nat
      BY ListingAssumption, NoneIsNothing
    <3> QED
      BY <2>1, <3>1 DEF Below, Newer
  <2>4. \A id \in Ids : Unseen(id) <=> Newer(last, id)
    BY <2>1 DEF Unseen
  <2> QED
    BY <2>2, <2>3, <2>4 DEF Present
<1> QED
  BY <1>1, <1>2

\* No user is returned before a walk.
LEMMA CursorStart == ListInit => CursorAt
BY DEF ListInit, CursorAt

\* A window returns rows not yet seen, and moves the cursor below them.
LEMMA CursorFind ==
  ASSUME WalkTyped, CursorAt, FindWindow
  PROVE  CursorAt'
<1> DEFINE ids == {id \in Present : Unseen(id)}
<1> USE DEF WalkTyped
<1>1. /\ created \in [Ids -> Instants] /\ UNCHANGED <<created, query, always>>
      /\ at = NoToken \/ \E last \in Ids : at = [ID |-> last, created_at |-> created[last]]
      /\ \A id \in Ids : Unseen(id) => got[id] = 0
      /\ \A id \in always : ~Unseen(id) => got[id] = 1
      /\ \A id \in Ids : got[id] <= 1
      /\ query.kind = "cursor" /\ query.size \in Nat \ {0}
  BY DEF FindWindow, CursorAt
<1>2. PICK result :
        /\ Window(ids, result) /\ Return(result.items) /\ at' = result.nextCursor
        /\ walk' = IF result.hasNext THEN "find" ELSE "done"
        /\ ~result.hasNext => result.nextCursor = NoToken
  <2>1. PICK newest \in Newest(ids) :
          LET rows == Page(newest, 0, query.size + 1)
              result == NewCursorResult(rows, query.size, Len(rows) > query.size,
                                        [id \in Ids |-> EncodeCursor(id, created[id])])
          IN /\ Return(result.items)
             /\ at' = result.nextCursor
             /\ walk' = IF result.hasNext THEN "find" ELSE "done"
    BY <1>1, BelowIsUnseen DEF FindWindow
  <2> DEFINE rows == Page(newest, 0, query.size + 1)
             result == NewCursorResult(rows, query.size, Len(rows) > query.size,
                                       [id \in Ids |-> EncodeCursor(id, created[id])])
  <2>2. Window(ids, result)
    <3>1. ids \in SUBSET Ids
      BY DEF Present
    <3> HIDE DEF ids
    <3> QED
      BY <1>1, <3>1, WindowIs
  <2>3. ~result.hasNext => result.nextCursor = NoToken
    BY DEF NewCursorResult
  <2> HIDE DEF rows, result
  <2> QED
    BY <2>1, <2>2, <2>3 DEF result, rows
<1> DEFINE Shown(id) == \E i \in DOMAIN result.items : result.items[i] = id
<1>3. /\ \A id \in Ids : ~Shown(id) => got'[id] = got[id]
      /\ \A id \in Ids : got[id] = 0 /\ Shown(id) => got'[id] = 1
      /\ \A id \in Ids : Shown(id) => id \in ids
  BY <1>2, ReturnedOnce DEF Window
<1>4. \A id \in Ids : got'[id] <= 1
  BY <1>1, <1>3
<1>5. CASE ~result.hasNext
  <2>1. walk' = "done" /\ at' = NoToken
    BY <1>2, <1>5
  <2>2. \A id \in always' : got'[id] = 1
    BY <1>1, <1>2, <1>3, <1>5 DEF Window, Present
  <2> QED
    BY <1>1, <1>4, <2>1, <2>2 DEF CursorAt
<1>6. CASE result.hasNext
  <2>1. PICK last \in ids :
          /\ at' = [ID |-> last, created_at |-> created[last]]
          /\ \A id \in ids : Shown(id) <=> ~Newer(last, id)
    BY <1>2, <1>6 DEF Window
  <2>2. walk' = "find" /\ last \in Ids
    BY <1>2, <1>6 DEF Present
  <2>3. \A id \in Ids : Unseen(id)' <=> Newer(last, id)
    <3>1. at' # NoToken /\ at'.ID = last
      BY <2>1, <2>2, NoneIsNothing DEF NoToken, Ids
    <3> QED
      BY <1>1, <2>2, <3>1 DEF Unseen, Newer
  <2>4. \A id \in Ids : Newer(last, id) => Unseen(id)
    <3>1. \A id \in Ids : id \in Nat /\ created[id] \in Nat
      BY <1>1, ListingAssumption, NoneIsNothing
    <3>2. \A a, b, c \in Ids : Newer(a, b) /\ Newer(b, c) => Newer(a, c)
      BY <3>1 DEF Newer
    <3> QED
      BY <2>1, <2>2, <3>2 DEF Unseen
  <2>5. \A id \in Ids : Unseen(id)' => got'[id] = 0
    BY <1>1, <1>3, <2>1, <2>3, <2>4
  <2>6. \A id \in always' : ~Unseen(id)' => got'[id] = 1
    <3>1. \A id \in always : id \in Ids /\ id \in Present
      BY DEF Present
    <3> QED
      BY <1>1, <1>3, <2>1, <2>3, <3>1
  <2> QED
    BY <1>1, <1>4, <2>1, <2>2, <2>5, <2>6 DEF CursorAt
<1>7. result.hasNext \in BOOLEAN
  BY <1>2 DEF Window
<1> QED
  BY <1>5, <1>6, <1>7

\* Every step keeps the walk's cursor between what is seen and what is not.
LEMMA CursorStep ==
  WalkTyped /\ CursorAt /\ [ListNext]_<<vars, created, listing, always, still>> => CursorAt'
<1> SUFFICES ASSUME WalkTyped, CursorAt, [ListNext]_<<vars, created, listing, always, still>>
             PROVE  CursorAt'
  OBVIOUS
<1>1. CASE BeginWalk
  <2>1. got' = got /\ \A id \in Ids : got[id] = 0
    BY <1>1 DEF BeginWalk, CursorAt
  <2>2. CASE query'.kind = "cursor"
    <3>1. /\ at' = NoToken /\ walk' = "find" /\ created' \in [Ids -> Instants]
      BY <1>1, <2>2 DEF BeginWalk
    <3>2. \A id \in Ids : Unseen(id)'
      BY <3>1 DEF Unseen
    <3>3. always' \subseteq Ids
      BY <1>1 DEF BeginWalk, Present
    <3> QED
      BY <2>1, <3>1, <3>2, <3>3 DEF CursorAt
  <2>3. CASE query'.kind # "cursor"
    BY <1>1, <2>1, <2>3 DEF CursorAt
  <2> QED
    BY <2>2, <2>3
<1>2. CASE FindWindow
  BY <1>2, CursorFind
<1>3. CASE CountRows
  <2>1. query.kind # "cursor" /\ query' = query /\ walk' = "find"
    BY <1>3 DEF CountRows, CursorAt
  <2> QED
    BY <2>1 DEF CursorAt
<1>4. CASE FindPage
  <2>1. query'.kind # "cursor" /\ walk' # "idle"
    BY <1>4 DEF FindPage
  <2> QED
    BY <2>1 DEF CursorAt
<1>5. CASE Elsewhere
  <2>1. UNCHANGED <<created, query, walk, at, got>> /\ always' \subseteq always
    BY <1>5 DEF Elsewhere, listing
  <2> QED
    BY <2>1 DEF CursorAt, Unseen, Newer
<1>6. CASE UNCHANGED <<vars, created, listing, always, still>>
  BY <1>6 DEF CursorAt, Unseen, Newer, listing
<1> QED
  BY <1>1, <1>2, <1>3, <1>4, <1>5, <1>6 DEF ListNext

\* A walk by cursor returns no user twice and misses none that was there all the
\* time, whatever is written meanwhile and however many rows share an instant of
\* creation (NewCursorResult, EncodeCursor, DecodeCursor).
THEOREM CursorWalksAreComplete == ListSpec => []CursorWalkComplete
<1>1. WalkTyped /\ CursorAt => CursorWalkComplete
  BY DEF WalkTyped, CursorAt, CursorWalkComplete, Present
<1> QED
  BY <1>1, WalkTypedInit, WalkTypedStep, CursorStart, CursorStep, PTL DEF ListSpec

-----------------------------------------------------------------------------
(* Order *)

\* Finitely many names have a collation.
LEMMA NamesAreOrdered == Collation \in [Names -> Nat]
<1> DEFINE n == Cardinality(Names)
<1>1. n \in Nat /\ ExistsBijection(1..n, Names)
  BY ListingAssumption, FS_CardinalityType
<1>2. ExistsBijection(Names, 1..n)
  BY <1>1, Fun_ExistsBijSymmetric
<1>3. \E f \in [Names -> 1..n] : IsInjective(f)
  BY <1>2 DEF ExistsBijection, Bijection, Injection
<1>4. Collation \in [Names -> 1..n]
  BY <1>3 DEF Collation
<1> QED
  BY <1>1, <1>4

\* Columns are compared as integers.
LEMMA ColumnsAreInts == UsersTypeOK => \A col : \A x \in Present : Column(x, col) \in Int
BY NamesAreOrdered, NoneIsNothing DEF Column, Present, UsersTypeOK, Rows

\* A set of naturals has a least element.
LEMMA LeastOf == ASSUME NEW D \in SUBSET Nat, D # {} PROVE \E i \in D : \A j \in D : i <= j
<1>1. PICK i \in D : \A j \in D : ~(<<j, i>> \in OpToRel(<, Nat))
  BY NatLessThanWellFounded, WFMin, Zenon
<1>2. \A j \in D : ~(j < i)
  BY <1>1 DEF OpToRel
<1> QED
  BY <1>2

\* Columns that include the id put one of two rows before the other.
LEMMA Decides ==
  ASSUME UsersTypeOK, NEW clauses \in Seq(Clauses), Decisive(clauses),
         NEW a \in Present, NEW b \in Present, Sooner(a, b, clauses), Sooner(b, a, clauses)
  PROVE  a = b
<1> DEFINE D == {i \in DOMAIN clauses : Column(a, clauses[i].col) # Column(b, clauses[i].col)}
<1>1. DOMAIN clauses = 1..Len(clauses) /\ Len(clauses) \in Nat
  OBVIOUS
<1>2. \A col : \A x \in Present : Column(x, col) \in Int
  BY ColumnsAreInts
<1>3. SUFFICES ASSUME a # b PROVE FALSE
  OBVIOUS
<1>4. D # {}
  BY <1>3 DEF Decisive, Column
<1>5. PICK i \in D : \A j \in D : i <= j
  <2>1. D \in SUBSET Nat
    BY <1>1
  <2> HIDE DEF D
  <2> QED
    BY <1>4, <2>1, LeastOf
<1>6. \A j \in 1..(i - 1) : Column(a, clauses[j].col) = Column(b, clauses[j].col)
  BY <1>1, <1>5
<1>7. Column(a, clauses[i].col) = Column(b, clauses[i].col)
  <2>1. i \in DOMAIN clauses
    BY <1>5
  <2>2. Column(a, clauses[i].col) \in Int /\ Column(b, clauses[i].col) \in Int
    BY <1>2
  <2>3. IF clauses[i].order = "DESC"
          THEN Column(a, clauses[i].col) >= Column(b, clauses[i].col)
          ELSE Column(a, clauses[i].col) <= Column(b, clauses[i].col)
    BY ONLY Sooner(a, b, clauses), <1>6, <2>1, Zenon DEF Sooner
  <2>4. \A j \in 1..(i - 1) : Column(b, clauses[j].col) = Column(a, clauses[j].col)
    BY ONLY <1>6, Zenon
  <2>5. IF clauses[i].order = "DESC"
          THEN Column(b, clauses[i].col) >= Column(a, clauses[i].col)
          ELSE Column(b, clauses[i].col) <= Column(a, clauses[i].col)
    BY ONLY Sooner(b, a, clauses), <2>1, <2>4, Zenon DEF Sooner
  <2> QED
    BY ONLY <2>2, <2>3, <2>5
<1> QED
  BY <1>5, <1>7

\* The number of rows that come no later than id's.
Place(id) == Cardinality({x \in Present : Sooner(x, id, query.clauses)})

\* A decisive ORDER BY leaves one order: a row's place does not depend on the result.
LEMMA Placed ==
  ASSUME UsersTypeOK, NEW rows \in Results(Present, query.clauses),
         query.clauses \in Seq(Clauses), Decisive(query.clauses)
  PROVE  /\ rows \in Seq(Present) /\ Len(rows) = Cardinality(Present) /\ Len(rows) \in Nat
         /\ \A i \in 1..Len(rows) : Place(rows[i]) = i
         /\ \A x \in Present : \E i \in 1..Len(rows) : rows[i] = x
<1> DEFINE n == Len(rows)
<1>1. IsFiniteSet(Present)
  <2>1. IsFiniteSet(Ids)
    BY FS_Interval, UsersAssumption DEF Ids
  <2> QED
    BY <2>1, FS_Subset DEF Present
<1>2. /\ rows \in Seq(Present) /\ n = Cardinality(Present) /\ n \in Nat
      /\ \A i, j \in 1..n : i # j => rows[i] # rows[j]
      /\ \A x \in Present : \E i \in 1..n : rows[i] = x
  BY <1>1, Sequenced DEF Results
<1>3. \A i, j \in 1..n : i < j => Sooner(rows[i], rows[j], query.clauses)
  <2>1. DOMAIN rows = 1..n
    BY <1>2
  <2> HIDE DEF n
  <2> QED
    BY <2>1 DEF Results
<1>4. ASSUME NEW i \in 1..n PROVE Place(rows[i]) = i
  <2> DEFINE T == {x \in Present : Sooner(x, rows[i], query.clauses)}
             f == [j \in 1..i |-> rows[j]]
  <2> HIDE DEF n
  <2>1. \A j \in 1..n : rows[j] \in Present
    BY <1>2 DEF n
  <2>2. \A j \in 1..n : rows[j] \in T <=> j <= i
    <3>1. Sooner(rows[i], rows[i], query.clauses)
      BY <2>1, ColumnsAreInts DEF Sooner
    <3>2. ASSUME NEW j \in 1..n, j > i PROVE rows[j] \notin T
      <4>1. Sooner(rows[i], rows[j], query.clauses) /\ rows[i] # rows[j]
        BY <1>2, <1>3, <3>2
      <4> QED
        BY <2>1, <4>1, Decides
    <3> QED
      BY <1>2, <1>3, <2>1, <3>1, <3>2
  <2>3. f \in Bijection(1..i, T)
    <3>1. i \in Nat /\ 1..i \subseteq 1..n
      BY <1>2
    <3>2. f \in [1..i -> T]
      BY <2>2, <3>1
    <3>3. f \in Injection(1..i, T)
      BY <1>2, <3>1, <3>2 DEF Injection, IsInjective
    <3>4. \A x \in T : \E j \in 1..i : f[j] = x
      BY <1>2, <2>2, <3>1
    <3> QED
      BY <3>2, <3>3, <3>4 DEF Bijection, Surjection
  <2>4. Cardinality(T) = i
    <3>1. ExistsBijection(1..i, T)
      BY <2>3 DEF ExistsBijection
    <3>2. IsFiniteSet(1..i) /\ Cardinality(1..i) = i
      BY <1>2, FS_Interval
    <3> HIDE DEF T
    <3> QED
      BY <3>1, <3>2, FS_Bijection
  <2> QED
    BY <2>4 DEF Place
<1> QED
  BY <1>2, <1>4

-----------------------------------------------------------------------------
(* A page *)

\* The rows up to a page and the rows up to the next differ by one page.
LEMMA Products ==
  ASSUME NEW at0 \in Nat \ {0}, NEW size \in Nat \ {0}
  PROVE  (at0 - 1) * size \in Nat /\ ((at0 + 1) - 1) * size = (at0 - 1) * size + size
OBVIOUS

\* A page is not the last as long as rows come after it.
LEMMA Pages ==
  ASSUME NEW at0 \in Nat \ {0}, NEW size \in Nat \ {0}, NEW n \in Nat
  PROVE  at0 < (n + size - 1) \div size <=> (at0 - 1) * size + size < n
<1> DEFINE q == (n + size - 1) \div size
<1>1. q \in Int /\ size * q <= n + size - 1 /\ n + size - 1 < size * (q + 1)
  OBVIOUS
<1>2. (at0 - 1) * size + size = size * at0 /\ size * (q + 1) = size * q + size
  BY <1>1
<1>3. CASE at0 < q
  <2>1. size * (at0 + 1) <= size * q /\ size * (at0 + 1) = size * at0 + size
    BY <1>1, <1>3
  <2> QED
    BY <1>1, <1>2, <1>3, <2>1
<1>4. CASE ~(at0 < q)
  <2>1. size * q <= size * at0
    BY <1>1, <1>4
  <2> QED
    BY <1>1, <1>2, <1>4, <2>1
<1> QED
  BY <1>3, <1>4

\* An int holds every number up to its largest.
LEMMA NotWrapped == ASSUME NEW n \in 0..IntMax PROVE Wrap(n) = n
BY PaginationAssumption DEF Wrap

\* items are the rows after o, up to size of them.
Fetched(items, rows, o, size) ==
  \A x : (\E i \in DOMAIN items : items[i] = x)
           <=> \E k \in 1..Len(rows) : o < k /\ k <= o + size /\ rows[k] = x

\* A page has the rows at the next places, whatever their number.
LEMMA PageIs ==
  ASSUME NEW S, NEW rows \in Seq(S), NEW at0 \in Nat \ {0}, NEW size \in 1..MaxPageSize,
         NEW p, p = [page |-> at0, size |-> size], NEW o \in Nat, Offset(p) = o,
         NEW result, result = NewResult(GormScope(rows, p), Len(rows), p)
  PROVE  /\ Fetched(result.items, rows, o, size)
         /\ result.page = at0
         /\ result.hasNext = (at0 < (Len(rows) + size - 1) \div size)
<1> DEFINE n == IF Len(rows) < o THEN 0 ELSE IF Len(rows) - o < size THEN Len(rows) - o ELSE size
           items == GormScope(rows, p)
<1>1. size \in Nat \ {0} /\ Len(rows) \in Nat
  BY PaginationAssumption
<1>2. Normalize(p) = p /\ p.page = at0 /\ p.size = size
  <2>1. p.page = at0 /\ p.size = size /\ ~(at0 < 1) /\ ~(size < 1) /\ ~(size > MaxPageSize)
    BY PaginationAssumption
  <2>2. Normalize(p) = [page |-> p.page, size |-> p.size]
    BY <2>1 DEF Normalize
  <2> QED
    BY <2>1, <2>2
<1>3. items = Page(rows, o, size)
  BY <1>2 DEF GormScope
<1>4. /\ items \in Seq(S) /\ Len(items) = n /\ n \in Nat
      /\ \A i \in 1..n : items[i] = rows[o + i]
  <2>1. n \in Nat /\ size \in Nat
    BY <1>1
  <2>2. rows \in Seq(S) /\ o \in Nat /\ size \in Nat
    BY <1>1
  <2>3. Page(rows, o, size) \in Seq(S) /\ CutFrom(Page(rows, o, size), rows, o, size)
    BY ONLY <2>2, Paged
  <2> HIDE DEF n, items
  <2> QED
    BY <1>3, <2>1, <2>3 DEF n, CutFrom
<1>5. /\ result.items = items /\ result.page = at0
      /\ result.hasNext = (at0 < (Len(rows) + size - 1) \div size)
  <2> HIDE DEF items
  <2> QED
    BY <1>2 DEF NewResult, items
<1>6. DOMAIN items = 1..n
  <2> HIDE DEF items, n
  <2> QED
    BY <1>4
<1>7. /\ \A i \in 1..n : o + i \in 1..Len(rows) /\ o < o + i /\ o + i <= o + size
      /\ \A k \in 1..Len(rows) : o < k /\ k <= o + size => k - o \in 1..n /\ o + (k - o) = k
  BY <1>1
<1> HIDE DEF n, items
<1>8. ASSUME NEW x, NEW i \in DOMAIN result.items, result.items[i] = x
      PROVE \E k \in 1..Len(rows) : o < k /\ k <= o + size /\ rows[k] = x
  <2>1. i \in 1..n /\ items[i] = x
    BY <1>5, <1>6, <1>8
  <2>2. o + i \in 1..Len(rows) /\ o < o + i /\ o + i <= o + size /\ rows[o + i] = x
    BY <1>4, <1>7, <2>1
  <2> QED
    BY <2>2
<1>9. ASSUME NEW x, NEW k \in 1..Len(rows), o < k, k <= o + size, rows[k] = x
      PROVE \E i \in DOMAIN result.items : result.items[i] = x
  <2>1. k - o \in 1..n /\ items[k - o] = rows[k]
    BY <1>4, <1>7, <1>9
  <2> QED
    BY <1>5, <1>6, <1>9, <2>1
<1> QED
  BY <1>5, <1>8, <1>9 DEF Fetched

-----------------------------------------------------------------------------
(* The walk by page *)

\* The rows on the pages before the one asked for next.
Behind(id) == id \in Present /\ Place(id) <= (at - 1) * query.size

\* A walk by page over a table that does not change has returned the rows at the
\* places its pages cover.
PageAt ==
  /\ walk = "idle" => \A id \in Ids : got[id] = 0
  /\ walk # "idle" /\ query.kind = "offset" => query.clauses \in Seq(Clauses)
  /\ walk # "idle" /\ query.kind = "offset" /\ still /\ Decisive(query.clauses) =>
       /\ at \in Nat \ {0}
       /\ walk # "done" => /\ at = 1 \/ (at - 1) * query.size < Cardinality(Present)
                           /\ \A id \in Ids : got[id] = IF Behind(id) THEN 1 ELSE 0
       /\ walk = "find" => total = Cardinality(Present)
       /\ walk = "done" => \A id \in Ids : got[id] = IF id \in Present THEN 1 ELSE 0

\* No user is returned before a walk.
LEMMA PageStart == ListInit => PageAt
BY DEF ListInit, PageAt

\* While the table stays as it is, so does every place.
LEMMA PlacesStay ==
  ASSUME table' = table, query' = query
  PROVE  Present' = Present /\ \A id : Place(id)' = Place(id)
<1>1. Present' = Present
  BY DEF Present
<1>2. ASSUME NEW id PROVE Place(id)' = Place(id)
  <2>1. \A x : Sooner(x, id, query.clauses)' <=> Sooner(x, id, query.clauses)
    BY DEF Sooner, Column
  <2>2. {x \in Present : Sooner(x, id, query.clauses)}' = {x \in Present : Sooner(x, id, query.clauses)}
    BY <1>1, <2>1
  <2> QED
    BY <2>2 DEF Place
<1> QED
  BY <1>1, <1>2

\* The table has no more rows than ids.
LEMMA PresentIsFinite == IsFiniteSet(Present) /\ Cardinality(Present) \in 0..IntMax
<1>1. IsFiniteSet(Ids) /\ Cardinality(Ids) = MaxId
  BY FS_Interval, UsersAssumption DEF Ids
<1> QED
  BY <1>1, FS_Subset, FS_CardinalityType, ListingAssumption, PaginationAssumption, UsersAssumption DEF Present

\* A page returns the rows at its places, and no more come after the last.
LEMMA PageFind ==
  ASSUME UsersTypeOK, WalkTyped, PageAt, FindPage, still, Decisive(query.clauses)
  PROVE  PageAt'
<1> USE DEF WalkTyped
<1> DEFINE o == (at - 1) * query.size
           n == Cardinality(Present)
           p == [page |-> at, size |-> query.size]
<1>1. /\ at \in Nat \ {0} /\ query.size \in 1..MaxPageSize /\ query.size \in Nat \ {0}
      /\ query.clauses \in Seq(Clauses)
      /\ at = 1 \/ o < n
      /\ \A id \in Ids : got[id] = IF id \in Present /\ Place(id) <= o THEN 1 ELSE 0
      /\ total = n
      /\ UNCHANGED <<table, query, total, still>>
  BY DEF FindPage, PageAt, Behind, vars
<1>2. PICK rows \in Results(Present, query.clauses) :
        LET result == NewResult(GormScope(rows, p), total, p) IN
          /\ Return(result.items)
          /\ at' = result.page + 1
          /\ walk' = IF result.hasNext THEN "count" ELSE "done"
  BY DEF FindPage
<1>3. /\ rows \in Seq(Present) /\ Len(rows) = n /\ n \in Nat
      /\ \A i \in 1..n : Place(rows[i]) = i
      /\ \A x \in Present : \E i \in 1..n : rows[i] = x
  BY <1>1, Placed
<1> DEFINE result == NewResult(GormScope(rows, p), n, p)
           Shown(x) == \E i \in DOMAIN result.items : result.items[i] = x
<1>4. /\ o \in Nat
      /\ \A x : Shown(x) <=> \E k \in 1..n : o < k /\ k <= o + query.size /\ rows[k] = x
      /\ result.page = at
      /\ result.hasNext = (o + query.size < n)
  <2>1. Len(rows) <= IntMax
    BY <1>3, PresentIsFinite
  <2>2. result = NewResult(GormScope(rows, p), Len(rows), p)
    BY <1>3
  <2>3. o \in Nat /\ (at = 1 => o = 0)
    BY <1>1, Products
  <2>4. Offset(p) = o
    <3>1. Offset(p) = Wrap(o)
      BY DEF Offset
    <3> HIDE DEF o, n
    <3>2. o \in 0..IntMax
      BY <1>1, <1>3, <2>1, <2>3, PaginationAssumption
    <3> QED
      BY <3>1, <3>2, NotWrapped
  <2>5. at < (n + query.size - 1) \div query.size <=> o + query.size < n
    <3> HIDE DEF n
    <3> QED
      BY <1>1, <1>3, Pages
  <2>6. /\ \A x : Shown(x) <=> \E k \in 1..n : o < k /\ k <= o + query.size /\ rows[k] = x
        /\ result.page = at
        /\ result.hasNext = (at < (n + query.size - 1) \div query.size)
    <3>1. /\ Fetched(result.items, rows, o, query.size)
          /\ result.page = at
          /\ result.hasNext = (at < (Len(rows) + query.size - 1) \div query.size)
      <4>1. p = [page |-> at, size |-> query.size]
        OBVIOUS
      <4> HIDE DEF n, result, o, p
      <4>2. rows \in Seq(Present) /\ at \in Nat \ {0} /\ query.size \in 1..MaxPageSize
        BY <1>1, <1>3
      <4> QED
        BY ONLY <2>2, <2>3, <2>4, <4>1, <4>2, PageIs
    <3> HIDE DEF n, result, o
    <3> QED
      BY <1>3, <3>1 DEF Fetched
  <2>7. (at < (n + query.size - 1) \div query.size) = (o + query.size < n)
    BY <2>5
  <2> QED
    BY <2>3, <2>6, <2>7
<1>5. /\ Return(result.items) /\ at' = at + 1
      /\ walk' = IF o + query.size < n THEN "count" ELSE "done"
  BY <1>1, <1>2, <1>4
<1> HIDE DEF result, n
<1>6. \A x \in Present : Place(x) \in 1..n /\ (Shown(x) <=> o < Place(x) /\ Place(x) <= o + query.size)
  <2>1. ASSUME NEW x \in Present PROVE Place(x) \in 1..n /\ (Shown(x) <=> o < Place(x) /\ Place(x) <= o + query.size)
    <3>1. PICK k \in 1..n : rows[k] = x
      BY <1>3
    <3>2. Place(x) = k /\ \A j \in 1..n : rows[j] = x => j = k
      BY <1>3, <3>1
    <3> HIDE DEF o, Shown
    <3> QED
      BY <1>4, <3>1, <3>2
  <2> QED
    BY <2>1
<1>7. \A x \in Ids : x \notin Present => ~Shown(x)
  <2>1. \A k \in 1..n : rows[k] \in Present
    BY <1>3
  <2> QED
    BY <1>4, <2>1
<1>8. (at' - 1) * query.size = o + query.size
  BY <1>1, <1>5, Products
<1>9. \A id \in Ids : got'[id] = IF id \in Present /\ Place(id) <= o + query.size THEN 1 ELSE 0
  <2>1. ASSUME NEW id \in Ids PROVE got'[id] = IF id \in Present /\ Place(id) <= o + query.size THEN 1 ELSE 0
    <3>1. /\ ~Shown(id) => got'[id] = got[id]
          /\ got[id] = 0 /\ Shown(id) => got'[id] = 1
      BY <1>5, ReturnedOnce
    <3> HIDE DEF o, Shown
    <3>2. CASE id \in Present
      BY <1>1, <1>3, <1>4, <1>6, <3>1, <3>2
    <3>3. CASE id \notin Present
      BY <1>1, <1>7, <3>1, <3>3
    <3> QED
      BY <3>2, <3>3
  <2> QED
    BY <2>1
<1>10. Present' = Present /\ \A id : Place(id)' = Place(id)
  BY <1>1, PlacesStay
<1>11. \A id \in Ids : got'[id] = IF Behind(id)' THEN 1 ELSE 0
  BY <1>1, <1>8, <1>9, <1>10 DEF Behind
<1>12. ~(o + query.size < n) => \A id \in Ids : got'[id] = IF id \in Present THEN 1 ELSE 0
  <2> HIDE DEF o
  <2> QED
    BY <1>1, <1>3, <1>4, <1>6, <1>9
<1>13. at' \in Nat \ {0} /\ query' = query /\ Cardinality(Present)' = n /\ walk' \in {"count", "done"}
  BY <1>1, <1>5, <1>10 DEF n
<1> QED
  <2> HIDE DEF o
  <2> QED
    BY <1>1, <1>5, <1>8, <1>10, <1>11, <1>12, <1>13 DEF PageAt

\* Every step keeps the places returned those of the pages before.
LEMMA PageStep ==
  UsersTypeOK /\ WalkTyped /\ PageAt /\ [ListNext]_<<vars, created, listing, always, still>> => PageAt'
<1> SUFFICES ASSUME UsersTypeOK, WalkTyped, PageAt, [ListNext]_<<vars, created, listing, always, still>>
             PROVE  PageAt'
  OBVIOUS
<1>1. CASE BeginWalk
  <2>1. /\ \A id \in Ids : got'[id] = 0
        /\ walk' \in {"find", "count"} /\ (walk' = "find" => query'.kind = "cursor")
        /\ query'.kind = "offset" => at' = 1 /\ query'.clauses \in Seq(Clauses)
    BY <1>1, SortAssumption DEF BeginWalk, PageAt
  <2>2. ASSUME query'.kind = "offset", Decisive(query'.clauses), query'.clauses \in Seq(Clauses), NEW id \in Ids
        PROVE ~Behind(id)'
    <3>1. query'.size \in Nat \ {0} /\ (at' - 1) * query'.size = 0
      <4>1. query'.size \in 1..MaxPageSize
        BY <1>1, WalkTypedStep, <2>1 DEF ListNext, WalkTyped
      <4> QED
        BY <2>1, <2>2, <4>1, PaginationAssumption
    <3>2. CASE id \in Present'
      <4>1. table' = table /\ Present' = Present
        BY <1>1 DEF BeginWalk, vars, Present
      <4>2. \A col : Column(id, col)' \in Int
        BY <3>2, <4>1, ColumnsAreInts DEF Column
      <4>3. Sooner(id, id, query.clauses)'
        BY <4>2 DEF Sooner
      <4> DEFINE T == {x \in Present' : Sooner(x, id, query.clauses)'}
      <4>4. IsFiniteSet(T) /\ id \in T
        BY <3>2, <4>1, <4>3, PresentIsFinite, FS_Subset
      <4>5. Cardinality(T) \in Nat /\ Cardinality(T) # 0
        <5> HIDE DEF T
        <5> QED
          BY <4>4, FS_CardinalityType, FS_EmptySet
      <4>6. Place(id)' = Cardinality(T)
        BY DEF Place
      <4> QED
        BY <3>1, <4>5, <4>6 DEF Behind
    <3> QED
      BY <3>2 DEF Behind
  <2> QED
    BY <2>1, <2>2 DEF PageAt
<1>2. CASE FindWindow
  <2>1. query'.kind # "offset" /\ walk' # "idle"
    BY <1>2 DEF FindWindow
  <2> QED
    BY <2>1 DEF PageAt
<1>3. CASE CountRows
  <2>1. /\ UNCHANGED <<table, query, at, got, still>> /\ walk = "count" /\ walk' = "find"
        /\ total' = Cardinality(Present)
    BY <1>3 DEF CountRows, vars
  <2>2. Present' = Present /\ \A id : Place(id)' = Place(id)
    BY <2>1, PlacesStay
  <2>3. \A id \in Ids : Behind(id)' <=> Behind(id)
    BY <2>1, <2>2 DEF Behind
  <2> QED
    BY <2>1, <2>2, <2>3 DEF PageAt
<1>4. CASE FindPage
  <2>1. CASE still /\ Decisive(query.clauses)
    BY <1>4, <2>1, PageFind
  <2>2. CASE ~(still /\ Decisive(query.clauses))
    BY <1>4, <2>2 DEF FindPage, PageAt
  <2> QED
    BY <2>1, <2>2
<1>5. CASE Elsewhere
  <2>1. /\ UNCHANGED <<query, walk, at, total, got>>
        /\ still' => still
        /\ still' /\ walk # "idle" /\ query.kind = "offset" => table' = table
    BY <1>5 DEF Elsewhere, listing
  <2>2. table' = table => /\ Present' = Present
                          /\ \A id : Place(id)' = Place(id)
                          /\ \A id \in Ids : Behind(id)' <=> Behind(id)
    BY <2>1, PlacesStay DEF Behind
  <2> QED
    BY <2>1, <2>2 DEF PageAt
<1>6. CASE UNCHANGED <<vars, created, listing, always, still>>
  <2>1. UNCHANGED <<table, query, walk, at, total, got, still>>
    BY <1>6 DEF vars, listing
  <2>2. /\ Present' = Present
        /\ \A id : Place(id)' = Place(id)
        /\ \A id \in Ids : Behind(id)' <=> Behind(id)
    BY <2>1, PlacesStay DEF Behind
  <2> QED
    BY <2>1, <2>2 DEF PageAt
<1> QED
  BY <1>1, <1>2, <1>3, <1>4, <1>5, <1>6 DEF ListNext

\* A walk by page over a table that does not change, sorted by columns that
\* include the id, returns every user exactly once (GormScope, NewResult, SQL).
THEOREM OffsetWalksAreComplete == ListSpec => []OffsetWalkComplete
<1>1. PageAt => OffsetWalkComplete
  BY DEF PageAt, OffsetWalkComplete
<1> QED
  BY <1>1, WalksOnlyWatch, TypeCorrect, WalkTypedInit, WalkTypedStep, PageStart, PageStep, PTL DEF ListSpec
=============================================================================
