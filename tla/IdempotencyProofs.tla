-------------------------- MODULE IdempotencyProofs --------------------------
(***************************************************************************)
(* What the executor guarantees while no execution outlives its lock, for  *)
(* any number of requests, any lifetimes and either storage.               *)
(***************************************************************************)
EXTENDS Idempotency, TLAPS

USE IdempotencyAssumption

\* What is about to be saved has succeeded.
SavedSucceeded == \A r \in Requests : pc[r] = "set" => r \in succeeded

\* The record is the holder's own lock until it expires: Lock takes effect only
\* where there is none, and only a holder writes.
HolderOwnsRecord ==
  ~late => \A r \in Holders : status = "IN_PROGRESS" /\ expires = deadline[r] /\ now < expires

\* A success that was not lost is about to be saved, or is what the key holds.
SuccessIsKept ==
  ~late /\ now < CompleteTTL =>
    \A r \in succeeded \ lost : pc[r] = "set" \/ (status = "COMPLETED" /\ expires >= CompleteTTL)

Owning == TypeOK /\ SavedSucceeded /\ Exclusive /\ HolderOwnsRecord /\ SuccessIsKept /\ AtMostOnce

\* There is no record and no holder at the start.
LEMMA OwningInit == Init => Owning
<1> SUFFICES ASSUME Init PROVE Owning
  OBVIOUS
<1>1. TypeOK /\ SavedSucceeded
  BY DEF Init, TypeOK, Results, SavedSucceeded
<1>2. Exclusive /\ HolderOwnsRecord
  BY DEF Init, Exclusive, HolderOwnsRecord, Holders
<1>3. SuccessIsKept /\ AtMostOnce
  BY DEF Init, SuccessIsKept, AtMostOnce
<1> QED
  BY <1>1, <1>2, <1>3 DEF Owning

\* Every step keeps the types.
LEMMA TypesStep == TypeOK /\ SavedSucceeded /\ [Next]_vars => TypeOK'
<1> SUFFICES ASSUME TypeOK, SavedSucceeded, [Next]_vars PROVE TypeOK'
  OBVIOUS
<1> USE DEF TypeOK, Goto, record, history
<1>1. ASSUME NEW r \in Requests, NEW k \in {"value", "conflict", "error"}, NEW from \in Requests \cup {None},
             Answer(r, k, from)
      PROVE  /\ pc' \in [Requests -> {"idle", "get", "lock", "fn", "set", "delete", "done"}]
             /\ result' \in [Requests -> Results]
  BY <1>1 DEF Answer, Results
<1>2. ASSUME NEW r \in Requests, Begin(r) \/ Run(r) PROVE TypeOK'
  BY <1>2 DEF Begin, Run
<1>3. ASSUME NEW r \in Requests, Get(r) PROVE TypeOK'
  BY <1>1, <1>3 DEF Get
<1>4. ASSUME NEW r \in Requests, Lock(r) \/ LockFails(r) PROVE TypeOK'
  BY <1>1, <1>4 DEF Lock, LockFails, Store
<1>5. ASSUME NEW r \in Requests, Set(r) \/ SetFails(r) \/ Delete(r) \/ Crash(r) PROVE TypeOK'
  <2>1. CASE Set(r)
    BY <1>1, <2>1 DEF Set, Store
  <2>2. CASE SetFails(r)
    BY <1>1, <2>2 DEF SetFails, Store, SavedSucceeded
  <2>3. CASE Delete(r)
    BY <1>1, <2>3 DEF Delete, Erase
  <2>4. CASE Crash(r)
    BY <1>1, <2>4 DEF Crash
  <2> QED
    BY <1>5, <2>1, <2>2, <2>3, <2>4
<1>6. CASE Tick
  BY <1>6 DEF Tick
<1>7. CASE UNCHANGED vars
  BY <1>7 DEF vars
<1> QED
  BY <1>2, <1>3, <1>4, <1>5, <1>6, <1>7 DEF Next, Execute, Finished

\* A record changes hands only when its lock has expired or its holder is done.
LEMMA OwningStep == Owning /\ [Next]_vars => Owning'
<1> SUFFICES ASSUME Owning, [Next]_vars PROVE Owning'
  OBVIOUS
<1> USE DEF Owning, Goto, Answer, record, history
<1>1. TypeOK' /\ SavedSucceeded'
  <2>1. SavedSucceeded'
    BY DEF Next, Execute, Finished, TypeOK, SavedSucceeded, Begin, Get, Lock, LockFails, Run, Set, SetFails,
      Delete, Crash, Tick, vars
  <2> QED
    BY <2>1, TypesStep
<1>2. Exclusive' /\ HolderOwnsRecord'
  <2> USE DEF TypeOK, Exclusive, HolderOwnsRecord, Holders
  <2>1. ASSUME NEW r \in Requests, Begin(r) \/ Get(r) \/ Run(r) PROVE Exclusive' /\ HolderOwnsRecord'
    BY <2>1 DEF Begin, Get, Run
  <2>2. ASSUME NEW r \in Requests, Lock(r) \/ LockFails(r) PROVE Exclusive' /\ HolderOwnsRecord'
    BY <2>2 DEF Lock, LockFails, Lockable, Store
  <2>3. ASSUME NEW r \in Requests, Set(r) \/ SetFails(r) \/ Delete(r) \/ Crash(r)
        PROVE Exclusive' /\ HolderOwnsRecord'
    BY <2>3 DEF Set, SetFails, Delete, Crash
  <2>4. CASE Tick
    <3>1. pc' = pc /\ status' = status /\ expires' = expires /\ deadline' = deadline /\ now' \in Nat
      BY <2>4 DEF Tick
    <3>2. ~late' => ~late /\ \A r \in Holders : now' < deadline[r]
      <4>1. ~late' => ~late /\ \A r \in Holders : ~(now' >= deadline[r])
        BY <2>4, Zenon DEF Tick
      <4> QED
        BY <3>1, <4>1
    <3> QED
      BY <3>1, <3>2
  <2>5. CASE UNCHANGED vars
    BY <2>5 DEF vars
  <2> QED
    BY <2>1, <2>2, <2>3, <2>4, <2>5 DEF Next, Execute, Finished
<1>3. SuccessIsKept' /\ AtMostOnce'
  <2> USE DEF TypeOK, Exclusive, HolderOwnsRecord, Holders, SuccessIsKept, AtMostOnce
  <2>1. ASSUME NEW r \in Requests, Begin(r) \/ Get(r) PROVE SuccessIsKept' /\ AtMostOnce'
    BY <2>1 DEF Begin, Get
  <2>2. ASSUME NEW r \in Requests, Run(r) PROVE SuccessIsKept' /\ AtMostOnce'
    BY <2>2 DEF Run
  <2>3. ASSUME NEW r \in Requests, Lock(r) \/ LockFails(r) PROVE SuccessIsKept' /\ AtMostOnce'
    BY <2>3 DEF Lock, LockFails, Lockable, Store
  <2>4. ASSUME NEW r \in Requests, Set(r) \/ SetFails(r) PROVE SuccessIsKept' /\ AtMostOnce'
    BY <2>4 DEF Set, SetFails, Store
  <2>5. ASSUME NEW r \in Requests, Delete(r) \/ Crash(r) PROVE SuccessIsKept' /\ AtMostOnce'
    BY <2>5 DEF Delete, Crash
  <2>6. CASE Tick
    BY <2>6 DEF Tick
  <2>7. CASE UNCHANGED vars
    BY <2>7 DEF vars
  <2> QED
    BY <2>1, <2>2, <2>3, <2>4, <2>5, <2>6, <2>7 DEF Next, Execute, Finished
<1> QED
  BY <1>1, <1>2, <1>3

\* The invariant holds for ever.
LEMMA OwningKept == Spec => []Owning
BY OwningInit, OwningStep, PTL DEF Spec

-----------------------------------------------------------------------------

\* Every call of the storage and every step of Execute keeps the types.
THEOREM TypeCorrect == Spec => []TypeOK
<1>1. Owning => TypeOK
  BY DEF Owning
<1> QED
  BY <1>1, OwningKept, PTL

\* Two requests with one key execute at the same time only after an execution
\* outlived its lock (Executor.Execute, Storage.Lock).
THEOREM ExecutionIsExclusive == Spec => []Exclusive
<1>1. Owning => Exclusive
  BY DEF Owning
<1> QED
  BY <1>1, OwningKept, PTL

\* Until then, and while completed records live, one request at most has the
\* business function succeed and the success saved.
THEOREM SucceedsAtMostOnce == Spec => []AtMostOnce
<1>1. Owning => AtMostOnce
  BY DEF Owning
<1> QED
  BY <1>1, OwningKept, PTL

\* Until then, a completed record is neither deleted nor overwritten before it
\* expires.
THEOREM CompletedRecordsStay == Spec => CompletedKept
<1>1. Owning /\ [Next]_vars =>
        [status = "COMPLETED" /\ now < expires /\ ~late => UNCHANGED record]_vars
  <2> SUFFICES ASSUME Owning, [Next]_vars, status = "COMPLETED", now < expires, ~late
               PROVE  UNCHANGED record
    OBVIOUS
  <2>1. Holders = {}
    BY DEF Owning, HolderOwnsRecord
  <2>2. ~Lockable
    BY DEF Lockable, Owning, TypeOK
  <2> QED
    BY <2>1, <2>2 DEF Next, Execute, Finished, Begin, Get, Lock, LockFails, Run, Set, SetFails, Delete,
      Crash, Tick, Holders, record, vars
<1> QED
  BY <1>1, OwningKept, PTL DEF Spec, CompletedKept
=============================================================================
