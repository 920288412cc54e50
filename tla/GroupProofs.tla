----------------------------- MODULE GroupProofs -----------------------------
(***************************************************************************)
(* The counters of a group and the verdict of Wait, for any number of      *)
(* tasks and any limit.                                                    *)
(***************************************************************************)
EXTENDS Group, FiniteSetTheorems, TLAPS

USE GroupAssumption

\* The tasks counted by the wait group, and those that hold a slot.
Active == {t \in Tasks : pc[t] \notin {"new", "over"}}
Holding == {t \in Tasks : pc[t] \in {"spawned", "running", "ended", "release"}}

\* Each Submit is matched by one Done, each acquired slot by one release.
Counted == IsFiniteSet(Active) /\ wg = Cardinality(Active)
Slotted == /\ sem = IF Limit = 0 THEN 0 ELSE Cardinality(Holding)
           /\ Limit > 0 => sem <= Limit

\* What is known of a task's end by where it is, and what a skipped task means.
Told ==
  /\ \A t \in Tasks :
       /\ pc[t] \in {"new", "acquire", "spawned", "running"} => fate[t] = "open"
       /\ pc[t] = "ended" => fate[t] \in Failures
       /\ fate[t] \in Failures /\ pc[t] # "ended" => err # None
       /\ fate[t] \in {"skipped", "dropped"} => err # None \/ parentEnded
  /\ err # None => fate[err] \in Failures
  /\ canceled => err # None \/ parentEnded \/ wait = "returned"

Balanced == TypeOK /\ Counted /\ Slotted /\ NothingOutlivesWait /\ Told

\* No task is under way and no slot taken at the start.
LEMMA BalancedInit == Init => Balanced
<1> SUFFICES ASSUME Init PROVE Balanced
  OBVIOUS
<1>1. TypeOK /\ NothingOutlivesWait /\ Told
  BY DEF Init, TypeOK, NothingOutlivesWait, Told, Failures
<1>2. Active = {} /\ Holding = {}
  BY DEF Init, Active, Holding
<1> QED
  BY <1>1, <1>2, FS_EmptySet DEF Init, Balanced, Counted, Slotted

\* Counting: one element more.
LEMMA OneMore ==
  ASSUME NEW S, IsFiniteSet(S), NEW x, x \notin S
  PROVE  IsFiniteSet(S \cup {x}) /\ Cardinality(S \cup {x}) = Cardinality(S) + 1
BY FS_AddElement

\* Counting: one element less.
LEMMA OneLess ==
  ASSUME NEW S, IsFiniteSet(S), NEW x \in S
  PROVE  IsFiniteSet(S \ {x}) /\ Cardinality(S \ {x}) = Cardinality(S) - 1
BY FS_RemoveElement

\* How a step changes the two sets.
LEMMA Counting ==
  ASSUME TypeOK, Counted, Slotted, [Next]_vars
  PROVE  (wg \in Nat /\ sem \in Nat)' /\ Counted' /\ Slotted'
<1> USE DEF TypeOK, Counted, Slotted, Goto
<1>1. IsFiniteSet(Holding) /\ Cardinality(Holding) \in Nat /\ Cardinality(Active) \in Nat
  BY FS_Subset, FS_CardinalityType DEF Active, Holding
<1>2. ASSUME NEW t \in Tasks, Submit(t) PROVE (wg \in Nat /\ sem \in Nat)' /\ Counted' /\ Slotted'
  <2>1. Active' = Active \cup {t} /\ t \notin Active
    BY <1>2 DEF Submit, Active
  <2>2. Limit = 0 \/ Holding' = Holding
    BY <1>2 DEF Submit, Holding
  <2>3. wg' = wg + 1 /\ sem' = sem
    BY <1>2 DEF Submit
  <2> QED
    BY <1>1, <2>1, <2>2, <2>3, OneMore
<1>3. ASSUME NEW t \in Tasks, Acquire(t) PROVE (wg \in Nat /\ sem \in Nat)' /\ Counted' /\ Slotted'
  <2>1. Active' = Active
    BY <1>3 DEF Acquire, Active
  <2>2. Holding' = Holding \cup {t} /\ t \notin Holding
    BY <1>3 DEF Acquire, Holding
  <2>3. wg' = wg /\ sem' = sem + 1 /\ sem < Limit
    BY <1>3 DEF Acquire, SlotFree
  <2> QED
    BY <1>1, <2>1, <2>2, <2>3, OneMore
<1>4. ASSUME NEW t \in Tasks, Drop(t) \/ SignOff(t) PROVE (wg \in Nat /\ sem \in Nat)' /\ Counted' /\ Slotted'
  <2>1. Active' = Active \ {t} /\ t \in Active
    BY <1>4 DEF Drop, SignOff, Active
  <2>2. Holding' = Holding
    BY <1>4 DEF Drop, SignOff, Holding
  <2>3. wg' = wg - 1 /\ sem' = sem
    BY <1>4 DEF Drop, SignOff
  <2> QED
    BY <1>1, <2>1, <2>2, <2>3, OneLess, FS_CardinalityType
<1>5. ASSUME NEW t \in Tasks, Release(t) PROVE (wg \in Nat /\ sem \in Nat)' /\ Counted' /\ Slotted'
  <2>1. Active' = Active
    BY <1>5 DEF Release, Active
  <2>2. Holding' = Holding \ {t} /\ t \in Holding
    BY <1>5 DEF Release, Holding
  <2>3. wg' = wg /\ sem' = IF Limit = 0 THEN sem ELSE sem - 1
    BY <1>5 DEF Release
  <2> QED
    BY <1>1, <2>1, <2>2, <2>3, OneLess, FS_CardinalityType
<1>6. ASSUME NEW t \in Tasks, Start(t) \/ Return(t) \/ RecordError(t)
      PROVE (wg \in Nat /\ sem \in Nat)' /\ Counted' /\ Slotted'
  <2>1. Active' = Active /\ Holding' = Holding
    BY <1>6 DEF Start, Return, RecordError, Active, Holding
  <2>2. wg' = wg /\ sem' = sem
    BY <1>6 DEF Start, Return, RecordError
  <2> QED
    BY <2>1, <2>2
<1>7. CASE UNCHANGED <<wg, sem, pc>>
  BY <1>7 DEF Active, Holding
<1> QED
  BY <1>2, <1>3, <1>4, <1>5, <1>6, <1>7
    DEF Next, Progress, BeginWait, EndWait, ParentEnds, Finished, vars

\* Each step changes a set and its counter together.
LEMMA BalancedStep == Balanced /\ [Next]_vars => Balanced'
<1> SUFFICES ASSUME Balanced, [Next]_vars PROVE Balanced'
  OBVIOUS
<1> USE DEF Balanced, Goto, EndsAs
<1>1. (wg \in Nat /\ sem \in Nat)' /\ Counted' /\ Slotted'
  BY Counting
<1>2. TypeOK'
  <2> USE <1>1 DEF TypeOK, Failures
  <2>1. ASSUME NEW t \in Tasks, Submit(t) \/ Acquire(t) \/ Drop(t) PROVE TypeOK'
    BY <2>1 DEF Submit, Acquire, Drop
  <2>2. ASSUME NEW t \in Tasks, Start(t) \/ Return(t) \/ RecordError(t) PROVE TypeOK'
    BY <2>2 DEF Start, Return, RecordError
  <2>3. ASSUME NEW t \in Tasks, Release(t) \/ SignOff(t) PROVE TypeOK'
    BY <2>3 DEF Release, SignOff
  <2>4. CASE BeginWait \/ EndWait \/ ParentEnds \/ UNCHANGED vars
    BY <2>4 DEF BeginWait, EndWait, ParentEnds, vars
  <2> QED
    BY <2>1, <2>2, <2>3, <2>4 DEF Next, Progress, Finished
<1>3. NothingOutlivesWait'
  <2>1. CASE EndWait
    <3>1. Active = {}
      BY <2>1, FS_EmptySet DEF EndWait, Counted
    <3> QED
      BY <2>1, <3>1 DEF EndWait, NothingOutlivesWait, Active, TypeOK
  <2> QED
    BY <2>1 DEF NothingOutlivesWait, TypeOK, Next, Progress, Submit, Acquire, Drop, Start, Return, RecordError,
      Release, SignOff, BeginWait, ParentEnds, Finished, vars
<1>4. Told'
  <2> USE DEF Told, TypeOK, NothingOutlivesWait, Failures
  <2>1. ASSUME NEW t \in Tasks, Submit(t) \/ Acquire(t) PROVE Told'
    BY <2>1 DEF Submit, Acquire
  <2>2. ASSUME NEW t \in Tasks, Drop(t) \/ Start(t) PROVE Told'
    BY <2>2 DEF Drop, Start
  <2>3. ASSUME NEW t \in Tasks, Return(t) PROVE Told'
    BY <2>3 DEF Return
  <2>4. ASSUME NEW t \in Tasks, RecordError(t) PROVE Told'
    BY <2>4 DEF RecordError
  <2>5. ASSUME NEW t \in Tasks, Release(t) \/ SignOff(t) PROVE Told'
    BY <2>5 DEF Release, SignOff
  <2>6. CASE BeginWait \/ EndWait \/ ParentEnds
    BY <2>6 DEF BeginWait, EndWait, ParentEnds
  <2>7. CASE UNCHANGED vars
    BY <2>7 DEF vars
  <2> QED
    BY <2>1, <2>2, <2>3, <2>4, <2>5, <2>6, <2>7 DEF Next, Progress, Finished
<1> QED
  BY <1>1, <1>2, <1>3, <1>4

\* The invariant holds for ever.
LEMMA BalancedKept == Spec => []Balanced
BY BalancedInit, BalancedStep, PTL DEF Spec

-----------------------------------------------------------------------------

\* Every step of Submit, the tasks and Wait keeps the types.
THEOREM TypeCorrect == Spec => []TypeOK
<1>1. Balanced => TypeOK
  BY DEF Balanced
<1> QED
  BY <1>1, BalancedKept, PTL

\* The semaphore's count is the number of tasks that hold a slot, on every path.
THEOREM SlotsAreBalanced == Spec => []SlotsBalance
<1>1. Balanced => SlotsBalance
  BY DEF Balanced, Slotted, Holding, SlotsBalance
<1> QED
  BY <1>1, BalancedKept, PTL

\* When Wait has returned no task of the group is left (Group.Wait).
THEOREM WaitIsLast == Spec => []NothingOutlivesWait
<1>1. Balanced => NothingOutlivesWait
  BY DEF Balanced
<1> QED
  BY <1>1, BalancedKept, PTL

\* The error or the nil of Wait is true of the tasks (RecordError, Wait).
THEOREM VerdictIsTrue == Spec => []VerdictTrue
<1>1. Balanced => VerdictTrue
  BY DEF Balanced, Told, NothingOutlivesWait, TypeOK, VerdictTrue, Failures
<1> QED
  BY <1>1, BalancedKept, PTL
=============================================================================
