-------------------------------- MODULE Pool --------------------------------
(***************************************************************************)
(* routine.Pool: a bounded queue, a fixed set of workers, Submit with      *)
(* blocking or discarding backpressure, and Stop.                          *)
(*                                                                         *)
(* Submit checks the closed flag and the context, and only later sends on  *)
(* the channel; Stop sets the flag, then closes the channel, then waits    *)
(* for the workers.  Each of these is a step of its own.  A task may call  *)
(* Submit itself, from the worker that executes it.                        *)
(***************************************************************************)
EXTENDS Naturals, Sequences, FiniteSets

CONSTANTS Workers, Clients, Tasks, None,
          QueueSize,      \* capacity of the channel, never zero
          Cancelable,     \* tasks submitted with a context that may end
          NestedUnder     \* strategies under which tasks call Submit themselves

ASSUME PoolAssumption ==
  /\ QueueSize \in Nat \ {0} /\ IsFiniteSet(Workers) /\ Workers # {}
  /\ Cancelable \subseteq Tasks
  /\ NestedUnder \subseteq {"block", "discard"}
  /\ None \notin Tasks
  /\ Workers \cap Clients = {}

VARIABLES
  strategy,   \* p.strategy, an option of the pool
  closed,     \* p.closed
  tasks,      \* the content of the channel p.tasks
  chanClosed, \* close(p.tasks) has run
  once,       \* p.stopOnce
  cur,        \* the task each worker executes
  exited,     \* workers whose loop has ended (p.wg)
  sub,        \* the task an actor has passed the checks for and must send
  stop,       \* how far an actor's call of Stop is
  status      \* what has become of each task

vars == <<strategy, closed, tasks, chanClosed, once, cur, exited, sub, stop, status>>

Actors == Workers \cup Clients

Refusals == {"ErrPoolClosed", "ErrQueueFull", "ctx.Err", "send panic"}
Ended == Refusals \cup {"done", "panicked"}

TypeOK ==
  /\ strategy \in {"block", "discard"}
  /\ closed \in BOOLEAN /\ chanClosed \in BOOLEAN
  /\ tasks \in Seq(Tasks)
  /\ once \in {"new", "running", "done"}
  /\ cur \in [Workers -> Tasks \cup {None}]
  /\ exited \subseteq Workers
  /\ sub \in [Actors -> Tasks \cup {None}]
  /\ stop \in [Actors -> {"no", "closing", "waiting", "returned"}]
  /\ status \in [Tasks -> Ended \cup {"new", "sending", "queued", "running"}]

Init ==
  /\ strategy \in {"block", "discard"}
  /\ closed = FALSE /\ chanClosed = FALSE /\ once = "new"
  /\ tasks = <<>>
  /\ cur = [w \in Workers |-> None]
  /\ exited = {}
  /\ sub = [a \in Actors |-> None]
  /\ stop = [a \in Actors |-> "no"]
  /\ status = [t \in Tasks |-> "new"]

\* a can call Submit: a client, or a worker from inside a task.
CanSubmit(a) ==
  /\ sub[a] = None /\ stop[a] = "no"
  /\ a \in Workers => cur[a] # None /\ strategy \in NestedUnder

Becomes(t, s) == status' = [status EXCEPT ![t] = s]

-----------------------------------------------------------------------------
(* Submit *)

\* The flag and the context are tested; nothing is held afterwards.
CheckSubmit(a, t) ==
  /\ CanSubmit(a) /\ status[t] = "new"
  /\ \/ closed /\ Becomes(t, "ErrPoolClosed") /\ UNCHANGED sub
     \/ ~closed /\ t \in Cancelable /\ Becomes(t, "ctx.Err") /\ UNCHANGED sub
     \/ ~closed /\ Becomes(t, "sending") /\ sub' = [sub EXCEPT ![a] = t]
  /\ UNCHANGED <<strategy, closed, tasks, chanClosed, once, cur, exited, stop>>

\* Mutant: the task is zeroed before it is sent.
Enqueue_Zeroed(a) ==
  /\ sub[a] # None /\ ~chanClosed /\ Len(tasks) < QueueSize
  /\ sub' = [sub EXCEPT ![a] = None]
  /\ tasks' = Append(tasks, sub'[a])
  /\ Becomes(sub[a], "queued")
  /\ UNCHANGED <<strategy, closed, chanClosed, once, cur, exited, stop>>

Enqueue(a) ==
  /\ sub[a] # None /\ ~chanClosed /\ Len(tasks) < QueueSize
  /\ tasks' = Append(tasks, sub[a])
  /\ Becomes(sub[a], "queued")
  /\ sub' = [sub EXCEPT ![a] = None]
  /\ UNCHANGED <<strategy, closed, chanClosed, once, cur, exited, stop>>

Discard(a) ==
  /\ strategy = "discard"
  /\ sub[a] # None /\ ~chanClosed /\ Len(tasks) = QueueSize
  /\ Becomes(sub[a], "ErrQueueFull")
  /\ sub' = [sub EXCEPT ![a] = None]
  /\ UNCHANGED <<strategy, closed, tasks, chanClosed, once, cur, exited, stop>>

\* The blocking select takes the context's branch.
CancelSubmit(a) ==
  /\ strategy = "block"
  /\ sub[a] \in Cancelable
  /\ Becomes(sub[a], "ctx.Err")
  /\ sub' = [sub EXCEPT ![a] = None]
  /\ UNCHANGED <<strategy, closed, tasks, chanClosed, once, cur, exited, stop>>

\* The channel was closed after the check: the send panics.  In a task the
\* panic ends that task too and is recovered by executeTask.
SendOnClosed(a) ==
  /\ sub[a] # None /\ chanClosed
  /\ sub' = [sub EXCEPT ![a] = None]
  /\ IF a \in Workers
       THEN /\ status' = [status EXCEPT ![sub[a]] = "send panic", ![cur[a]] = "panicked"]
            /\ cur' = [cur EXCEPT ![a] = None]
       ELSE Becomes(sub[a], "send panic") /\ UNCHANGED cur
  /\ UNCHANGED <<strategy, closed, tasks, chanClosed, once, exited, stop>>

-----------------------------------------------------------------------------
(* Workers *)

Take(w) ==
  /\ cur[w] = None /\ w \notin exited /\ tasks # <<>>
  /\ cur' = [cur EXCEPT ![w] = Head(tasks)]
  /\ Becomes(Head(tasks), "running")
  /\ tasks' = Tail(tasks)
  /\ UNCHANGED <<strategy, closed, chanClosed, once, exited, sub, stop>>

\* Mutant: a panic is not recovered and ends the worker.
Finish_Unrecovered(w) ==
  /\ cur[w] # None /\ sub[w] = None
  /\ \/ Becomes(cur[w], "done") /\ UNCHANGED exited
     \/ Becomes(cur[w], "panicked") /\ exited' = exited \cup {w}
  /\ cur' = [cur EXCEPT ![w] = None]
  /\ UNCHANGED <<strategy, closed, tasks, chanClosed, once, sub, stop>>

\* The task returns, or panics and is recovered: the worker goes on.
Finish(w) ==
  /\ cur[w] # None /\ sub[w] = None
  /\ Becomes(cur[w], "done") \/ Becomes(cur[w], "panicked")
  /\ cur' = [cur EXCEPT ![w] = None]
  /\ UNCHANGED <<strategy, closed, tasks, chanClosed, once, exited, sub, stop>>

\* The range loop ends when the channel is closed and drained.
Exit(w) ==
  /\ cur[w] = None /\ w \notin exited /\ tasks = <<>> /\ chanClosed
  /\ exited' = exited \cup {w}
  /\ UNCHANGED <<strategy, closed, tasks, chanClosed, once, cur, sub, stop, status>>

-----------------------------------------------------------------------------
(* Stop *)

\* The first caller runs the once body; one that comes while it runs blocks
\* here, a later one goes on to wait.
BeginStop(a) ==
  /\ a \in Clients /\ sub[a] = None /\ stop[a] = "no"
  /\ \/ /\ once = "new"
        /\ once' = "running" /\ closed' = TRUE
        /\ stop' = [stop EXCEPT ![a] = "closing"]
     \/ /\ once = "done"
        /\ stop' = [stop EXCEPT ![a] = "waiting"]
        /\ UNCHANGED <<once, closed>>
  /\ UNCHANGED <<strategy, tasks, chanClosed, cur, exited, sub, status>>

\* Mutant: the channel is not closed.
CloseTasks_Forgotten(a) ==
  /\ stop[a] = "closing"
  /\ once' = "done"
  /\ stop' = [stop EXCEPT ![a] = "waiting"]
  /\ UNCHANGED <<strategy, closed, tasks, chanClosed, cur, exited, sub, status>>

CloseTasks(a) ==
  /\ stop[a] = "closing"
  /\ chanClosed' = TRUE /\ once' = "done"
  /\ stop' = [stop EXCEPT ![a] = "waiting"]
  /\ UNCHANGED <<strategy, closed, tasks, cur, exited, sub, status>>

\* Mutant: the wait group is not waited for.
AllExited_Unwaited == TRUE

\* p.wg.Wait returns.
AllExited == exited = Workers

StopReturn(a) ==
  /\ stop[a] = "waiting" /\ AllExited
  /\ stop' = [stop EXCEPT ![a] = "returned"]
  /\ UNCHANGED <<strategy, closed, tasks, chanClosed, once, cur, exited, sub, status>>

-----------------------------------------------------------------------------

Submitting(a) == Enqueue(a) \/ Discard(a) \/ SendOnClosed(a)
Working(w) == Take(w) \/ Finish(w) \/ Exit(w)
Stopping(a) == CloseTasks(a) \/ StopReturn(a)

\* Every task submitted is accounted for and every call of Stop has returned.
Finished ==
  /\ \A t \in Tasks : status[t] \in Ended \cup {"new"}
  /\ \A a \in Actors : sub[a] = None /\ stop[a] \in {"no", "returned"}
  /\ UNCHANGED vars

Next ==
  \/ \E a \in Actors, t \in Tasks : CheckSubmit(a, t)
  \/ \E a \in Actors :
       Submitting(a) \/ CancelSubmit(a) \/ BeginStop(a) \/ Stopping(a)
  \/ \E w \in Workers : Working(w)
  \/ Finished

Spec == Init /\ [][Next]_vars

\* Goroutines are scheduled and tasks return; a blocked sender is served in
\* its turn.  No context is ever obliged to end and nobody to call Stop.
FairSpec ==
  /\ Spec
  /\ \A w \in Workers : WF_vars(Working(w))
  /\ \A a \in Actors : SF_vars(Submitting(a)) /\ WF_vars(Stopping(a))

-----------------------------------------------------------------------------
(* Properties *)

Refused == {t \in Tasks : status[t] \in Refusals}
Queued == {tasks[i] : i \in 1..Len(tasks)}
Executed == {cur[w] : w \in Workers} \ {None}
Over == {t \in Tasks : status[t] \in {"done", "panicked"}}
Stopped == \E a \in Actors : stop[a] = "returned"

W == INSTANCE WorkSet WITH
       Width <- Cardinality(Workers), refused <- Refused, accepted <- Queued,
       running <- Executed, ended <- Over, stopped <- Stopped

\* The pool is a work set: what Submit refused never runs, what it accepted is
\* run once, by one worker, and what ended stays so; "blocks until all queued
\* tasks have finished executing": Stop returns when all accepted tasks have
\* ended, also those sent between the closed flag and the closing.
ImplementsWorkSet == W!WorkSpec

\* Every accepted task runs to its end, whoever panics and whenever Stop comes.
AcceptedEnds == \A t \in Tasks : status[t] = "queued" ~> status[t] \in Ended

\* Every call of Stop returns.
StopReturns == \A a \in Actors : stop[a] = "closing" ~> stop[a] = "returned"

\* "If the pool is stopped, returns ErrPoolClosed": Submit never panics.  (A
\* Submit that overlaps Stop refutes it.)
SubmitNeverPanics == \A t \in Tasks : status[t] # "send panic"
=============================================================================
