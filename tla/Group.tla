-------------------------------- MODULE Group --------------------------------
(***************************************************************************)
(* routine.Group: fan-out of tasks with a concurrency limit, cancellation  *)
(* of the siblings on the first error, and Wait.                           *)
(*                                                                         *)
(* The wait group and the semaphore are counters of their own, changed     *)
(* where the code changes them, so that their balance on every path        *)
(* (success, error, panic, skipped, dropped) is something to check.        *)
(***************************************************************************)
EXTENDS Naturals, FiniteSets

CONSTANTS Tasks, None,
          Limit           \* capacity of the semaphore, 0 for no limit

ASSUME GroupAssumption ==
  Limit \in Nat /\ None \notin Tasks

VARIABLES
  wg,        \* g.wg
  sem,       \* slots of g.sem in use
  canceled,  \* g.ctx is done
  parentEnded, \* the parent context, or WithTimeout, ended before g.ctx
  err,       \* the task whose error errOnce stored in g.err
  pc,        \* where each task is, from its Submit to its wg.Done
  fate,      \* how it ended
  wait       \* the call of Wait

vars == <<wg, sem, canceled, parentEnded, err, pc, fate, wait>>

Failures == {"error", "panic"}

TypeOK ==
  /\ wg \in Nat /\ sem \in Nat
  /\ canceled \in BOOLEAN /\ parentEnded \in BOOLEAN
  /\ err \in Tasks \cup {None}
  /\ pc \in [Tasks -> {"new", "acquire", "spawned", "running", "ended", "release", "signoff", "over"}]
  /\ fate \in [Tasks -> Failures \cup {"open", "ok", "skipped", "dropped"}]
  /\ wait \in {"no", "waiting", "returned"}

Init ==
  /\ wg = 0 /\ sem = 0
  /\ canceled = FALSE /\ parentEnded = FALSE /\ err = None
  /\ pc = [t \in Tasks |-> "new"]
  /\ fate = [t \in Tasks |-> "open"]
  /\ wait = "no"

Goto(t, step) == pc' = [pc EXCEPT ![t] = step]
EndsAs(t, f) == fate' = [fate EXCEPT ![t] = f]

-----------------------------------------------------------------------------

\* Mutant: the task is not added to the wait group.
Submit_Uncounted(t) ==
  /\ pc[t] = "new" /\ wait = "no"
  /\ Goto(t, IF Limit = 0 THEN "spawned" ELSE "acquire")
  /\ UNCHANGED <<wg, sem, canceled, parentEnded, err, fate, wait>>

\* Submit is called before Wait, from any goroutine.
Submit(t) ==
  /\ pc[t] = "new" /\ wait = "no"
  /\ wg' = wg + 1
  /\ Goto(t, IF Limit = 0 THEN "spawned" ELSE "acquire")
  /\ UNCHANGED <<sem, canceled, parentEnded, err, fate, wait>>

SlotFree == sem < Limit

Acquire(t) ==
  /\ pc[t] = "acquire" /\ SlotFree
  /\ sem' = sem + 1
  /\ Goto(t, "spawned")
  /\ UNCHANGED <<wg, canceled, parentEnded, err, fate, wait>>

\* Mutant: wg.Done is missing on the early return.
Drop_Uncounted(t) ==
  /\ pc[t] = "acquire" /\ canceled
  /\ Goto(t, "over") /\ EndsAs(t, "dropped")
  /\ UNCHANGED <<wg, sem, canceled, parentEnded, err, wait>>

\* The select takes ctx.Done: Submit returns, and returns nothing.
Drop(t) ==
  /\ pc[t] = "acquire" /\ canceled
  /\ wg' = wg - 1
  /\ Goto(t, "over") /\ EndsAs(t, "dropped")
  /\ UNCHANGED <<sem, canceled, parentEnded, err, wait>>

\* The goroutine looks at the context once, then runs fn.
Start(t) ==
  /\ pc[t] = "spawned"
  /\ \/ canceled /\ Goto(t, "release") /\ EndsAs(t, "skipped")
     \/ ~canceled /\ Goto(t, "running") /\ UNCHANGED fate
  /\ UNCHANGED <<wg, sem, canceled, parentEnded, err, wait>>

Return(t) ==
  /\ pc[t] = "running"
  /\ \/ Goto(t, "release") /\ EndsAs(t, "ok")
     \/ Goto(t, "ended") /\ \E f \in Failures : EndsAs(t, f)
  /\ UNCHANGED <<wg, sem, canceled, parentEnded, err, wait>>

\* Mutant: the siblings are cancelled and the error is lost.
RecordError_Lost(t) ==
  /\ pc[t] = "ended"
  /\ canceled' = TRUE
  /\ Goto(t, "release")
  /\ UNCHANGED <<wg, sem, parentEnded, err, fate, wait>>

RecordError(t) ==
  /\ pc[t] = "ended"
  /\ \/ err = None /\ err' = t /\ canceled' = TRUE
     \/ err # None /\ UNCHANGED <<err, canceled>>
  /\ Goto(t, "release")
  /\ UNCHANGED <<wg, sem, parentEnded, fate, wait>>

\* Mutant: a cancelled group frees no slot.
Release_UnlessCanceled(t) ==
  /\ pc[t] = "release"
  /\ sem' = IF Limit = 0 \/ canceled THEN sem ELSE sem - 1
  /\ Goto(t, "signoff")
  /\ UNCHANGED <<wg, canceled, parentEnded, err, fate, wait>>

\* The deferred function frees the slot, then signs off.
Release(t) ==
  /\ pc[t] = "release"
  /\ sem' = IF Limit = 0 THEN sem ELSE sem - 1
  /\ Goto(t, "signoff")
  /\ UNCHANGED <<wg, canceled, parentEnded, err, fate, wait>>

SignOff(t) ==
  /\ pc[t] = "signoff"
  /\ wg' = wg - 1
  /\ Goto(t, "over")
  /\ UNCHANGED <<sem, canceled, parentEnded, err, fate, wait>>

\* The goroutine that made the group calls Wait once its Submits returned.
BeginWait ==
  /\ wait = "no" /\ \A t \in Tasks : pc[t] # "acquire"
  /\ wait' = "waiting"
  /\ UNCHANGED <<wg, sem, canceled, parentEnded, err, pc, fate>>

\* Wait returns g.err and releases the context.
EndWait ==
  /\ wait = "waiting" /\ wg = 0
  /\ wait' = "returned" /\ canceled' = TRUE
  /\ UNCHANGED <<wg, sem, parentEnded, err, pc, fate>>

ParentEnds ==
  /\ ~canceled
  /\ canceled' = TRUE /\ parentEnded' = TRUE
  /\ UNCHANGED <<wg, sem, err, pc, fate, wait>>

Progress(t) ==
  Acquire(t) \/ Drop(t) \/ Start(t) \/ Return(t) \/ RecordError(t) \/ Release(t) \/ SignOff(t)

Finished == wait = "returned" /\ UNCHANGED vars

Next ==
  \/ \E t \in Tasks : Submit(t) \/ Progress(t)
  \/ BeginWait \/ EndWait \/ ParentEnds \/ Finished

Spec == Init /\ [][Next]_vars

\* Goroutines are scheduled, tasks return, senders on the semaphore are
\* served in turn, and the owner does call Wait.
FairSpec ==
  /\ Spec
  /\ \A t \in Tasks : SF_vars(Progress(t))
  /\ WF_vars(BeginWait) /\ WF_vars(EndWait)

-----------------------------------------------------------------------------
(* Properties *)

\* The semaphore's count is the number of tasks that hold a slot, on every
\* path of success, error, panic, skip and drop, and it is never more than Limit.
SlotsBalance ==
  /\ sem = IF Limit = 0 THEN 0
           ELSE Cardinality({t \in Tasks : pc[t] \in {"spawned", "running", "ended", "release"}})
  /\ Limit > 0 => sem <= Limit

\* Once Wait has returned, no task of the group is running or about to.
NothingOutlivesWait == wait = "returned" => \A t \in Tasks : pc[t] \in {"new", "over"}

\* What Wait returns is true.  An error is that of a task that failed or
\* panicked; nil means that no task did, and, unless the parent context or
\* WithTimeout ended first, that every submitted task ran: none was skipped
\* in silence.
VerdictTrue ==
  wait = "returned" =>
    /\ err # None => fate[err] \in Failures
    /\ err = None =>
         \A t \in Tasks :
           /\ fate[t] \notin Failures
           /\ ~parentEnded => fate[t] \in {"ok", "open"}

\* Wait returns: no slot and no count of the wait group is lost on any path.
WaitReturns == <>(wait = "returned")
=============================================================================
