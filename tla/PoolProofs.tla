----------------------------- MODULE PoolProofs -----------------------------
(***************************************************************************)
(* The pool implements the set of works, for any number of workers,        *)
(* clients and tasks, any size of the queue and both strategies.           *)
(***************************************************************************)
EXTENDS Pool, FunctionTheorems, FiniteSetTheorems, TLAPS

(* TypeOK in three parts, which the provers take one at a time. *)

Statuses == Ended \cup {"new", "sending", "queued", "running"}

StatusTyped == status \in [Tasks -> Statuses]

QueueTyped == tasks \in Seq(Tasks)

ActorsTyped ==
  /\ strategy \in {"block", "discard"}
  /\ closed \in BOOLEAN /\ chanClosed \in BOOLEAN
  /\ once \in {"new", "running", "done"}
  /\ cur \in [Workers -> Tasks \cup {None}]
  /\ exited \subseteq Workers
  /\ sub \in [Actors -> Tasks \cup {None}]
  /\ stop \in [Actors -> {"no", "closing", "waiting", "returned"}]

Typed == StatusTyped /\ QueueTyped /\ ActorsTyped

\* The statuses, one by one.
LEMMA StatusesAre ==
  Statuses = {"ErrPoolClosed", "ErrQueueFull", "ctx.Err", "send panic", "done", "panicked",
              "new", "sending", "queued", "running"}
BY DEF Statuses, Ended, Refusals

\* The head of the queue is a task, and the rest is the queue without it.
LEMMA HeadAndTail ==
  ASSUME QueueTyped, tasks # <<>>
  PROVE  /\ Head(tasks) = tasks[1] /\ Head(tasks) \in Tasks /\ Tail(tasks) \in Seq(Tasks)
         /\ Len(tasks) \in Nat /\ 1 \in 1..Len(tasks) /\ Len(Tail(tasks)) = Len(tasks) - 1
         /\ \A i \in 1..Len(Tail(tasks)) : Tail(tasks)[i] = tasks[i + 1] /\ i + 1 \in 1..Len(tasks)
BY DEF QueueTyped

\* What a step does to a worker's task or an actor's submission is typed.
LEMMA TypedStep == Typed /\ [Next]_vars => Typed'
<1> SUFFICES ASSUME StatusTyped, QueueTyped, ActorsTyped, [Next]_vars PROVE Typed'
  BY DEF Typed
<1> USE DEF Becomes
<1>1. StatusTyped'
  <2> USE StatusesAre DEF StatusTyped
  <2>1. ASSUME NEW a \in Actors, NEW t \in Tasks, CheckSubmit(a, t) PROVE StatusTyped'
    BY <2>1 DEF CheckSubmit, CanSubmit
  <2>2. ASSUME NEW a \in Actors, Enqueue(a) \/ Discard(a) \/ CancelSubmit(a) PROVE StatusTyped'
    BY <2>2 DEF Enqueue, Discard, CancelSubmit
  <2>3. ASSUME NEW a \in Actors, SendOnClosed(a) PROVE StatusTyped'
    BY <2>3 DEF SendOnClosed
  <2>4. ASSUME NEW w \in Workers, Take(w) \/ Finish(w) \/ Exit(w) PROVE StatusTyped'
    BY <2>4 DEF Take, Finish, Exit
  <2>5. ASSUME NEW a \in Actors, BeginStop(a) \/ CloseTasks(a) \/ StopReturn(a) PROVE StatusTyped'
    BY <2>5 DEF BeginStop, CloseTasks, StopReturn
  <2> QED
    BY <2>1, <2>2, <2>3, <2>4, <2>5 DEF Next, Submitting, Working, Stopping, Finished, vars
<1>2. QueueTyped'
  <2>1. ASSUME NEW a \in Actors, Enqueue(a) PROVE QueueTyped'
    BY <2>1 DEF Enqueue, QueueTyped, ActorsTyped
  <2>2. ASSUME NEW w \in Workers, Take(w) PROVE QueueTyped'
    BY <2>2, HeadAndTail DEF Take, QueueTyped
  <2>3. CASE UNCHANGED tasks
    BY <2>3 DEF QueueTyped
  <2> QED
    BY <2>1, <2>2, <2>3 DEF Next, Submitting, Working, Stopping, Finished, vars, CheckSubmit, Discard,
      CancelSubmit, SendOnClosed, Finish, Exit, BeginStop, CloseTasks, StopReturn
<1>3. ActorsTyped'
  <2> USE DEF ActorsTyped
  <2>1. ASSUME NEW a \in Actors, NEW t \in Tasks, CheckSubmit(a, t) PROVE ActorsTyped'
    BY <2>1 DEF CheckSubmit, CanSubmit
  <2>2. ASSUME NEW a \in Actors, Enqueue(a) \/ Discard(a) \/ CancelSubmit(a) PROVE ActorsTyped'
    BY <2>2 DEF Enqueue, Discard, CancelSubmit
  <2>3. ASSUME NEW a \in Actors, SendOnClosed(a) PROVE ActorsTyped'
    BY <2>3 DEF SendOnClosed
  <2>4. ASSUME NEW w \in Workers, Take(w) PROVE ActorsTyped'
    BY <2>4, HeadAndTail DEF Take
  <2>5. ASSUME NEW w \in Workers, Finish(w) \/ Exit(w) PROVE ActorsTyped'
    BY <2>5 DEF Finish, Exit
  <2>6. ASSUME NEW a \in Actors, BeginStop(a) \/ CloseTasks(a) \/ StopReturn(a) PROVE ActorsTyped'
    BY <2>6 DEF BeginStop, CloseTasks, StopReturn
  <2> QED
    BY <2>1, <2>2, <2>3, <2>4, <2>5, <2>6 DEF Next, Submitting, Working, Stopping, Finished, vars
<1> QED
  BY <1>1, <1>2, <1>3 DEF Typed

-----------------------------------------------------------------------------
(* Every task is in one place. *)

\* A task whose Submit has passed the checks is nowhere else yet.
Sending ==
  /\ \A a \in Actors : sub[a] # None => status[sub[a]] = "sending"
  /\ \A a, b \in Actors : sub[a] # None /\ sub[a] = sub[b] => a = b

\* The queue holds a task once.
Queueing ==
  /\ \A i \in 1..Len(tasks) : status[tasks[i]] = "queued"
  /\ \A i, j \in 1..Len(tasks) : tasks[i] = tasks[j] => i = j

\* A task is executed by one worker, and by one whose loop has not ended.
Executing ==
  /\ \A w \in Workers : cur[w] # None => status[cur[w]] = "running" /\ w \notin exited
  /\ \A v, w \in Workers : cur[v] # None /\ cur[v] = cur[w] => v = w
  /\ \A w \in Workers : sub[w] # None => cur[w] # None

\* A worker leaves only after the last task, and Stop returns after the last
\* worker.
Leaving ==
  /\ exited # {} => chanClosed /\ tasks = <<>>
  /\ Stopped => exited = Workers

Places == Sending /\ Queueing /\ Executing /\ Leaving

\* The panic of a Submit in a task: what becomes of the two tasks.
PanicsInTask(a) ==
  /\ sub[a] \in Tasks /\ status[sub[a]] = "sending"
  /\ cur[a] \in Tasks /\ status[cur[a]] = "running"
  /\ cur' = [cur EXCEPT ![a] = None] /\ sub' = [sub EXCEPT ![a] = None]
  /\ \A t \in Tasks : status'[t] = IF t = sub[a] THEN "send panic"
                                 ELSE IF t = cur[a] THEN "panicked" ELSE status[t]
  /\ tasks' = tasks /\ exited' = exited /\ stop' = stop

\* A Submit that panics in a task ends that task.
LEMMA PanicInTask ==
  ASSUME Typed, Sending, Executing, NEW a \in Workers, SendOnClosed(a)
  PROVE  PanicsInTask(a)
<1>1. sub[a] \in Tasks /\ status[sub[a]] = "sending"
  BY DEF SendOnClosed, Sending, Typed, ActorsTyped, Actors
<1>2. cur[a] \in Tasks /\ status[cur[a]] = "running"
  BY DEF SendOnClosed, Executing, Typed, ActorsTyped
<1>3. status' = [status EXCEPT ![sub[a]] = "send panic", ![cur[a]] = "panicked"]
  BY DEF SendOnClosed
<1> QED
  BY <1>1, <1>2, <1>3 DEF SendOnClosed, Typed, StatusTyped, PanicsInTask

\* The panic of a Submit outside a task.
PanicsInClient(a) ==
  /\ sub[a] \in Tasks /\ status[sub[a]] = "sending"
  /\ \A t \in Tasks : status'[t] = IF t = sub[a] THEN "send panic" ELSE status[t]
  /\ tasks' = tasks

\* A Submit that panics in a client ends nothing but itself.
LEMMA PanicInClient ==
  ASSUME Typed, Sending, NEW a \in Actors, a \notin Workers, SendOnClosed(a)
  PROVE  PanicsInClient(a)
<1>1. sub[a] \in Tasks /\ status[sub[a]] = "sending"
  BY DEF SendOnClosed, Sending, Typed, ActorsTyped, Actors
<1>2. status' = [status EXCEPT ![sub[a]] = "send panic"] /\ tasks' = tasks
  BY DEF SendOnClosed, Becomes
<1> QED
  BY <1>1, <1>2 DEF Typed, StatusTyped, PanicsInClient

\* No task is anywhere at the start.
LEMMA PlacesInit == Init => Typed /\ Places
<1> SUFFICES ASSUME Init PROVE Typed /\ Places
  OBVIOUS
<1>1. StatusTyped
  BY StatusesAre DEF Init, StatusTyped
<1>2. QueueTyped /\ Queueing
  BY DEF Init, QueueTyped, Queueing
<1>3. ActorsTyped
  BY DEF Init, ActorsTyped
<1>4. Sending /\ Executing /\ Leaving
  BY DEF Init, Sending, Executing, Leaving, Stopped, Actors
<1> QED
  BY <1>1, <1>2, <1>3, <1>4 DEF Typed, Places

\* Every step moves a task from one place to the next.
LEMMA PlacesStep == Typed /\ Places /\ [Next]_vars => Places'
<1> SUFFICES ASSUME StatusTyped, QueueTyped, ActorsTyped, Places, [Next]_vars PROVE Places'
  BY DEF Typed
<1> USE PoolAssumption DEF Becomes, Actors
<1>1. Sending'
  <2> USE DEF Places, Sending, StatusTyped, ActorsTyped
  <2>1. ASSUME NEW a \in Actors, NEW t \in Tasks, CheckSubmit(a, t) PROVE Sending'
    BY <2>1 DEF CheckSubmit, CanSubmit
  <2>2. ASSUME NEW a \in Actors, Enqueue(a) \/ Discard(a) \/ CancelSubmit(a) PROVE Sending'
    BY <2>2 DEF Enqueue, Discard, CancelSubmit
  <2>3. ASSUME NEW a \in Actors, SendOnClosed(a) PROVE Sending'
    <3>1. \A b \in Actors : sub'[b] = IF b = a THEN None ELSE sub[b]
      BY <2>3 DEF SendOnClosed
    <3>2. \A b \in Actors : sub[b] # None /\ b # a => sub[b] \in Tasks /\ status[sub[b]] = "sending" /\ sub[b] # sub[a]
      OBVIOUS
    <3>3. ASSUME NEW t \in Tasks, status[t] = "sending", t # sub[a] PROVE status'[t] = "sending"
      <4>1. CASE a \in Workers
        <5>1. PanicsInTask(a)
          BY <2>3, <4>1, PanicInTask DEF Typed
        <5>2. t # cur[a]
          BY <3>3, <5>1 DEF PanicsInTask
        <5> QED
          BY <3>3, <5>1, <5>2 DEF PanicsInTask
      <4>2. CASE a \notin Workers
        <5>1. PanicsInClient(a)
          BY <2>3, <4>2, PanicInClient DEF Typed
        <5> QED
          BY <3>3, <5>1 DEF PanicsInClient
      <4> QED
        BY <4>1, <4>2
    <3> QED
      BY <3>1, <3>2, <3>3
  <2>4. ASSUME NEW w \in Workers, Take(w) PROVE Sending'
    BY <2>4, HeadAndTail DEF Take, Queueing
  <2>5. ASSUME NEW w \in Workers, Finish(w) PROVE Sending'
    BY <2>5 DEF Finish, Executing
  <2>6. CASE UNCHANGED <<sub, status>>
    BY <2>6
  <2> QED
    BY <2>1, <2>2, <2>3, <2>4, <2>5, <2>6 DEF Next, Submitting, Working, Stopping, Finished, vars,
      Exit, BeginStop, CloseTasks, StopReturn
<1>2. Queueing'
  <2> USE DEF Places, Queueing, StatusTyped, ActorsTyped
  <2>1. ASSUME NEW a \in Actors, NEW t \in Tasks, CheckSubmit(a, t) PROVE Queueing'
    BY <2>1 DEF CheckSubmit, CanSubmit, QueueTyped
  <2>2. ASSUME NEW a \in Actors, Enqueue(a) PROVE Queueing'
    <3>1. Len(tasks') = Len(tasks) + 1 /\ Len(tasks) \in Nat
      BY <2>2 DEF Enqueue, QueueTyped
    <3>2. \A i \in 1..Len(tasks') : tasks'[i] = IF i = Len(tasks') THEN sub[a] ELSE tasks[i]
      BY <2>2 DEF Enqueue, QueueTyped
    <3>3. \A i \in 1..Len(tasks) : tasks[i] # sub[a]
      BY <2>2 DEF Enqueue, Sending
    <3> QED
      BY <2>2, <3>1, <3>2, <3>3 DEF Enqueue
  <2>3. ASSUME NEW a \in Actors, Discard(a) \/ CancelSubmit(a) PROVE Queueing'
    BY <2>3 DEF Discard, CancelSubmit, Sending, QueueTyped
  <2>4. ASSUME NEW a \in Actors, SendOnClosed(a) PROVE Queueing'
    <3>1. \A i \in 1..Len(tasks) : tasks[i] \in Tasks /\ status[tasks[i]] = "queued"
      BY DEF QueueTyped
    <3>2. CASE a \in Workers
      <4>1. PanicsInTask(a)
        BY <2>4, <3>2, PanicInTask DEF Typed
      <4>2. tasks' = tasks /\ \A i \in 1..Len(tasks) : status'[tasks[i]] = "queued"
        BY <3>1, <4>1 DEF PanicsInTask, QueueTyped
      <4> QED
        BY <4>2
    <3>3. CASE a \notin Workers
      <4>1. PanicsInClient(a)
        BY <2>4, <3>3, PanicInClient DEF Typed
      <4>2. tasks' = tasks /\ \A i \in 1..Len(tasks) : status'[tasks[i]] = "queued"
        BY <3>1, <4>1 DEF PanicsInClient, QueueTyped
      <4> QED
        BY <4>2
    <3> QED
      BY <3>2, <3>3
  <2>5. ASSUME NEW w \in Workers, Take(w) PROVE Queueing'
    <3>1. tasks # <<>> /\ tasks' = Tail(tasks) /\ status' = [status EXCEPT ![tasks[1]] = "running"]
      BY <2>5, HeadAndTail DEF Take
    <3>2. \A i \in 1..Len(tasks') : tasks'[i] = tasks[i + 1] /\ i + 1 \in 1..Len(tasks) /\ i + 1 # 1 /\ tasks[i + 1] # tasks[1]
      BY <3>1, HeadAndTail
    <3>3. \A i \in 1..Len(tasks') : tasks'[i] \in Tasks /\ status'[tasks'[i]] = "queued"
      BY <3>1, <3>2 DEF QueueTyped
    <3>4. \A i, j \in 1..Len(tasks') : tasks'[i] = tasks'[j] => i = j
      BY <3>2
    <3> QED
      BY <3>3, <3>4
  <2>6. ASSUME NEW w \in Workers, Finish(w) PROVE Queueing'
    BY <2>6 DEF Finish, Executing, QueueTyped
  <2>7. CASE UNCHANGED <<tasks, status>>
    BY <2>7
  <2> QED
    BY <2>1, <2>2, <2>3, <2>4, <2>5, <2>6, <2>7 DEF Next, Submitting, Working, Stopping, Finished, vars,
      Exit, BeginStop, CloseTasks, StopReturn
<1>3. Executing'
  <2> USE DEF Places, Executing, StatusTyped, ActorsTyped
  <2>1. ASSUME NEW a \in Actors, NEW t \in Tasks, CheckSubmit(a, t) PROVE Executing'
    BY <2>1 DEF CheckSubmit, CanSubmit
  <2>2. ASSUME NEW a \in Actors, Enqueue(a) \/ Discard(a) \/ CancelSubmit(a) PROVE Executing'
    BY <2>2 DEF Enqueue, Discard, CancelSubmit, Sending
  <2>3. ASSUME NEW a \in Actors, SendOnClosed(a) PROVE Executing'
    <3>1. CASE a \in Workers
      <4>1. PanicsInTask(a)
        BY <2>3, <3>1, PanicInTask DEF Typed
      <4>2. \A w \in Workers : cur[w] # None /\ w # a => cur[w] \in Tasks /\ cur[w] # cur[a] /\ status[cur[w]] = "running"
        BY <3>1
      <4>3. \A w \in Workers : /\ cur'[w] = IF w = a THEN None ELSE cur[w]
                              /\ sub'[w] = IF w = a THEN None ELSE sub[w]
        BY <4>1 DEF PanicsInTask
      <4>4. \A w \in Workers : cur'[w] # None => status'[cur'[w]] = "running" /\ w \notin exited'
        BY <4>1, <4>2, <4>3 DEF PanicsInTask
      <4>5. \A v, w \in Workers : cur'[v] # None /\ cur'[v] = cur'[w] => v = w
        BY <4>3
      <4>6. \A w \in Workers : sub'[w] # None => cur'[w] # None
        BY <4>3
      <4> QED
        BY <4>4, <4>5, <4>6
    <3>2. CASE a \notin Workers
      <4>1. sub[a] \in Tasks /\ \A w \in Workers : cur[w] # None => cur[w] \in Tasks /\ cur[w] # sub[a]
        BY <2>3 DEF SendOnClosed, Sending
      <4>2. /\ status' = [status EXCEPT ![sub[a]] = "send panic"] /\ sub' = [sub EXCEPT ![a] = None]
            /\ cur' = cur /\ exited' = exited
        BY <2>3, <3>2 DEF SendOnClosed
      <4> QED
        BY <3>2, <4>1, <4>2
    <3> QED
      BY <3>1, <3>2
  <2>4. ASSUME NEW w \in Workers, Take(w) PROVE Executing'
    BY <2>4, HeadAndTail DEF Take, Queueing
  <2>5. ASSUME NEW w \in Workers, Finish(w) PROVE Executing'
    BY <2>5 DEF Finish
  <2>6. ASSUME NEW w \in Workers, Exit(w) PROVE Executing'
    BY <2>6 DEF Exit
  <2>7. CASE UNCHANGED <<cur, exited, sub, status>>
    BY <2>7
  <2> QED
    BY <2>1, <2>2, <2>3, <2>4, <2>5, <2>6, <2>7 DEF Next, Submitting, Working, Stopping, Finished, vars,
      BeginStop, CloseTasks, StopReturn
<1>4. Leaving'
  <2> USE DEF Places, Leaving, Stopped
  <2>1. ASSUME NEW a \in Actors, Enqueue(a) PROVE Leaving'
    BY <2>1 DEF Enqueue
  <2>2. ASSUME NEW w \in Workers, Take(w) \/ Exit(w) PROVE Leaving'
    BY <2>2 DEF Take, Exit, ActorsTyped
  <2>3. ASSUME NEW a \in Actors, BeginStop(a) \/ CloseTasks(a) \/ StopReturn(a) PROVE Leaving'
    BY <2>3 DEF BeginStop, CloseTasks, StopReturn, AllExited, ActorsTyped
  <2>4. CASE UNCHANGED <<exited, chanClosed, tasks, stop>>
    BY <2>4
  <2> QED
    BY <2>1, <2>2, <2>3, <2>4 DEF Next, Submitting, Working, Stopping, Finished, vars, CheckSubmit,
      Discard, CancelSubmit, SendOnClosed, Finish
<1> QED
  BY <1>1, <1>2, <1>3, <1>4 DEF Places

\* The invariant holds for ever.
LEMMA Kept == Spec => [](Typed /\ Places)
<1>1. Typed /\ Places /\ [Next]_vars => (Typed /\ Places)'
  BY TypedStep, PlacesStep
<1> QED
  BY <1>1, PlacesInit, PTL DEF Spec

\* Every step of clients, workers and Stop keeps the types.
THEOREM TypeCorrect == Spec => []TypeOK
<1>1. Typed => TypeOK
  BY DEF Typed, StatusTyped, QueueTyped, ActorsTyped, Statuses, TypeOK
<1> QED
  BY <1>1, Kept, PTL

-----------------------------------------------------------------------------
(* The refinement. *)

\* An idle worker leaves room below the number of workers.
LEMMA RoomForOne ==
  ASSUME ActorsTyped, Executing, NEW w \in Workers, cur[w] = None
  PROVE  Cardinality(Executed) < Cardinality(Workers)
<1> DEFINE Busy == {v \in Workers : cur[v] # None}
           f == [v \in Busy |-> cur[v]]
<1>1. Busy \in SUBSET (Workers \ {w})
  OBVIOUS
<1>2. /\ IsFiniteSet(Workers \ {w}) /\ Cardinality(Workers \ {w}) = Cardinality(Workers) - 1
      /\ Cardinality(Workers) \in Nat
  BY PoolAssumption, FS_RemoveElement, FS_CardinalityType
<1>3. /\ IsFiniteSet(Busy) /\ Cardinality(Busy) <= Cardinality(Workers) - 1
      /\ Cardinality(Busy) \in Nat
  BY <1>1, <1>2, FS_Subset, FS_CardinalityType
<1>4. f \in Surjection(Busy, Executed)
  BY Fun_IsSurj DEF Executed
<1>5. IsFiniteSet(Executed) /\ Cardinality(Executed) <= Cardinality(Busy)
  BY <1>3, <1>4, FS_Surjection
<1> QED
  BY <1>2, <1>3, <1>5, FS_CardinalityType

\* Submitted, by the conditions of tasks.
LEMMA NotSubmitted ==
  ASSUME Typed, Places, NEW t \in Tasks, status[t] \in {"new", "sending"}
  PROVE  t \notin W!Submitted
<1>1. t \notin Refused \cup Over
  BY DEF Refused, Over, Refusals
<1>2. t \notin Queued
  BY DEF Queued, Places, Queueing
<1>3. t \notin Executed
  BY DEF Executed, Places, Executing
<1> QED
  BY <1>1, <1>2, <1>3 DEF W!Submitted

\* A task that was being sent is refused.
LEMMA RefusalIs ==
  ASSUME StatusTyped, NEW t \in Tasks, status[t] = "sending",
         NEW refusal \in Refusals, status' = [status EXCEPT ![t] = refusal]
  PROVE  Refused' = Refused \cup {t} /\ Over' = Over
<1>1. \A u \in Tasks : status'[u] = IF u = t THEN refusal ELSE status[u]
  BY DEF StatusTyped
<1>2. Refused' = Refused \cup {t}
  BY <1>1 DEF Refused
<1>3. "sending" \notin {"done", "panicked"} /\ refusal \notin {"done", "panicked"}
  BY DEF Refusals
<1>4. Over' = Over
  BY <1>1, <1>3 DEF Over
<1> QED
  BY <1>2, <1>4

\* Both start without tasks.
LEMMA WorkInit == Init => W!WorkInit
<1> SUFFICES ASSUME Init PROVE W!WorkInit
  OBVIOUS
<1>1. Refused = {} /\ Over = {}
  BY DEF Init, Refused, Over, Refusals
<1>2. Queued = {}
  BY DEF Init, Queued
<1>3. Executed = {} /\ ~Stopped
  BY DEF Init, Executed, Stopped
<1> QED
  BY <1>1, <1>2, <1>3 DEF W!WorkInit

\* Every step of the pool is one of WorkSet or none.
LEMMA WorkStep == Typed /\ Places /\ [Next]_vars => [W!WorkNext]_(W!work)
<1> SUFFICES ASSUME Typed, Places, [Next]_vars PROVE [W!WorkNext]_(W!work)
  OBVIOUS
<1> USE DEF Becomes, Typed, StatusTyped, ActorsTyped, Places
<1>1. ASSUME NEW a \in Actors, NEW t \in Tasks, CheckSubmit(a, t) PROVE [W!WorkNext]_(W!work)
  <2>1. UNCHANGED <<Queued, Executed, Stopped>>
    BY <1>1 DEF CheckSubmit, Queued, Executed, Stopped
  <2>2. Over' = Over
    BY <1>1 DEF CheckSubmit, CanSubmit, Over
  <2>3. CASE status' = [status EXCEPT ![t] = "sending"]
    <3>1. Refused' = Refused
      BY <1>1, <2>3 DEF CheckSubmit, CanSubmit, Refused, Refusals
    <3> QED
      BY <2>1, <2>2, <3>1 DEF W!work
  <2>4. CASE status' \in {[status EXCEPT ![t] = "ErrPoolClosed"], [status EXCEPT ![t] = "ctx.Err"]}
    <3>1. Refused' = Refused \cup {t}
      BY <1>1, <2>4 DEF CheckSubmit, Refused, Refusals
    <3>2. t \notin W!Submitted
      BY <1>1, NotSubmitted DEF CheckSubmit
    <3> QED
      BY <2>1, <2>2, <3>1, <3>2 DEF W!WorkNext, W!Refuse
  <2> QED
    BY <1>1, <2>3, <2>4 DEF CheckSubmit
<1>2. ASSUME NEW a \in Actors, Enqueue(a) PROVE [W!WorkNext]_(W!work)
  <2>1. sub[a] \in Tasks /\ status[sub[a]] = "sending"
    BY <1>2 DEF Enqueue, Sending
  <2>2. Queued' = Queued \cup {sub[a]}
    <3>1. Len(tasks') = Len(tasks) + 1 /\ Len(tasks) \in Nat
      BY <1>2 DEF Enqueue, QueueTyped
    <3>2. \A i \in 1..Len(tasks') : tasks'[i] = IF i = Len(tasks') THEN sub[a] ELSE tasks[i]
      BY <1>2 DEF Enqueue, QueueTyped
    <3> QED
      BY <3>1, <3>2 DEF Queued
  <2>3. UNCHANGED <<Executed, Stopped>>
    BY <1>2 DEF Enqueue, Executed, Stopped
  <2>4. UNCHANGED <<Refused, Over>>
    BY <1>2, <2>1 DEF Enqueue, Refused, Over, Refusals
  <2>5. ~Stopped
    BY <1>2, PoolAssumption DEF Enqueue, Leaving
  <2>6. sub[a] \notin W!Submitted
    BY <2>1, NotSubmitted
  <2> QED
    BY <2>1, <2>2, <2>3, <2>4, <2>5, <2>6 DEF W!WorkNext, W!Accept
<1>3. ASSUME NEW a \in Actors, Discard(a) \/ CancelSubmit(a) \/ (a \notin Workers /\ SendOnClosed(a))
      PROVE [W!WorkNext]_(W!work)
  <2>1. sub[a] \in Tasks /\ status[sub[a]] = "sending"
    BY <1>3, PoolAssumption DEF Discard, CancelSubmit, SendOnClosed, Sending
  <2>2. UNCHANGED <<Queued, Executed, Stopped>>
    <3>1. UNCHANGED <<tasks, cur, stop>>
      BY <1>3 DEF Discard, CancelSubmit, SendOnClosed
    <3> QED
      BY <3>1 DEF Queued, Executed, Stopped
  <2>3. Refused' = Refused \cup {sub[a]} /\ Over' = Over
    <3>1. PICK refusal \in Refusals : status' = [status EXCEPT ![sub[a]] = refusal]
      BY <1>3 DEF Discard, CancelSubmit, SendOnClosed, Refusals
    <3> QED
      BY <2>1, <3>1, RefusalIs DEF Typed
  <2>4. sub[a] \notin W!Submitted
    BY <2>1, NotSubmitted
  <2> QED
    BY <2>1, <2>2, <2>3, <2>4 DEF W!WorkNext, W!Refuse
<1>4. ASSUME NEW a \in Workers, SendOnClosed(a) PROVE [W!WorkNext]_(W!work)
  <2>. PanicsInTask(a)
    BY <1>4, PanicInTask
  <2>1. sub[a] \in Tasks /\ status[sub[a]] = "sending"
    BY DEF PanicsInTask
  <2>2. cur[a] \in Tasks /\ status[cur[a]] = "running"
    BY DEF PanicsInTask
  <2>3. UNCHANGED <<Queued, Stopped>>
    BY DEF PanicsInTask, Queued, Stopped
  <2>4. cur[a] \in Executed /\ Executed' = Executed \ {cur[a]}
    <3>1. \A w \in Workers : cur'[w] = IF w = a THEN None ELSE cur[w]
      BY <1>4 DEF PanicsInTask
    <3> QED
      BY <1>4, <2>2, <3>1, PoolAssumption DEF Executing, Executed
  <2>5. Refused' = Refused \cup {sub[a]} /\ Over' = Over \cup {cur[a]}
    BY <2>1, <2>2 DEF PanicsInTask, Refused, Over, Refusals
  <2>6. sub[a] \notin W!Submitted
    BY <2>1, NotSubmitted
  <2> QED
    BY <2>1, <2>2, <2>3, <2>4, <2>5, <2>6 DEF W!WorkNext, W!EndByRefusal
<1>5. ASSUME NEW w \in Workers, Take(w) PROVE [W!WorkNext]_(W!work)
  <2> DEFINE t == Head(tasks)
  <2>1. t \in Tasks /\ t \in Queued /\ status[t] = "queued"
    BY <1>5, HeadAndTail DEF Take, Queued, Queueing
  <2>2. Queued' = Queued \ {t}
    <3>1. tasks # <<>> /\ tasks' = Tail(tasks) /\ t = tasks[1] /\ Len(tasks) \in Nat /\ Len(tasks') = Len(tasks) - 1
      BY <1>5, HeadAndTail DEF Take
    <3>2. \A i \in 1..Len(tasks') : tasks'[i] = tasks[i + 1] /\ i + 1 \in 1..Len(tasks) /\ tasks[i + 1] # t
      BY <3>1, HeadAndTail DEF Queueing
    <3>3. \A i \in 1..Len(tasks) : i # 1 => i - 1 \in 1..Len(tasks') /\ tasks'[i - 1] = tasks[i]
      BY <3>1, <3>2
    <3> HIDE DEF t
    <3>4. Queued' \subseteq Queued \ {t}
      BY <3>2 DEF Queued
    <3>5. Queued \ {t} \subseteq Queued'
      <4> SUFFICES ASSUME NEW i \in 1..Len(tasks), tasks[i] # t PROVE tasks[i] \in Queued'
        BY DEF Queued
      <4>1. i - 1 \in 1..Len(tasks') /\ tasks'[i - 1] = tasks[i]
        BY <3>1, <3>3
      <4> QED
        BY <4>1 DEF Queued
    <3> QED
      BY <3>4, <3>5
  <2>3. Executed' = Executed \cup {t}
    BY <1>5, <2>1, PoolAssumption DEF Take, Executed
  <2>4. UNCHANGED <<Refused, Over, Stopped>>
    BY <1>5, <2>1 DEF Take, Refused, Over, Stopped, Refusals
  <2>5. Cardinality(Executed) < Cardinality(Workers)
    BY <1>5, RoomForOne DEF Take
  <2> HIDE DEF t
  <2> QED
    <3>1. W!Start(t)
      <4>1. t \in Queued /\ Cardinality(Executed) < Cardinality(Workers)
        BY <2>1, <2>5
      <4>2. Refused' = Refused /\ Over' = Over /\ Stopped' = Stopped
        BY ONLY <2>4
      <4>3. W!Cardinality(Executed) = Cardinality(Executed)
        BY Zenon DEF W!Cardinality, Cardinality
      <4> QED
        BY ONLY <2>2, <2>3, <4>1, <4>2, <4>3, Zenon DEF W!Start
    <3> QED
      BY <2>1, <3>1 DEF W!WorkNext
<1>6. ASSUME NEW w \in Workers, Finish(w) PROVE [W!WorkNext]_(W!work)
  <2>1. cur[w] \in Tasks /\ status[cur[w]] = "running"
    BY <1>6 DEF Finish, Executing
  <2>2. cur[w] \in Executed /\ Executed' = Executed \ {cur[w]}
    BY <1>6, <2>1, PoolAssumption DEF Finish, Executing, Executed
  <2>3. Over' = Over \cup {cur[w]} /\ Refused' = Refused
    BY <1>6, <2>1 DEF Finish, Refused, Over, Refusals
  <2>4. UNCHANGED <<Queued, Stopped>>
    BY <1>6 DEF Finish, Queued, Stopped
  <2> QED
    BY <2>1, <2>2, <2>3, <2>4 DEF W!WorkNext, W!End
<1>7. ASSUME NEW a \in Actors, StopReturn(a) PROVE [W!WorkNext]_(W!work)
  <2>1. UNCHANGED <<Refused, Queued, Executed, Over>>
    BY <1>7 DEF StopReturn, Refused, Queued, Executed, Over
  <2>2. Stopped'
    BY <1>7 DEF StopReturn, Stopped
  <2>3. Executed = {} /\ Queued = {}
    BY <1>7, PoolAssumption DEF StopReturn, AllExited, Executing, Leaving, Executed, Queued
  <2> QED
    BY <2>1, <2>2, <2>3 DEF W!WorkNext, W!Return
<1>8. ASSUME UNCHANGED <<tasks, cur, status>>, Stopped' = Stopped PROVE [W!WorkNext]_(W!work)
  BY <1>8 DEF W!work, Refused, Queued, Executed, Over
<1>9. ASSUME NEW a \in Actors, BeginStop(a) \/ CloseTasks(a) PROVE Stopped' = Stopped
  BY <1>9 DEF BeginStop, CloseTasks, Stopped
<1> QED
  BY <1>1, <1>2, <1>3, <1>4, <1>5, <1>6, <1>7, <1>8, <1>9
    DEF Next, Submitting, Working, Stopping, Finished, vars, Exit, BeginStop, CloseTasks, Stopped

\* What Submit refused never runs, what it accepted is run once, at most as many
\* at a time as there are workers, and Stop returns when all of it has ended.
THEOREM PoolIsAWorkSet == Spec => ImplementsWorkSet
BY Kept, WorkInit, WorkStep, PTL DEF Spec, ImplementsWorkSet, W!WorkSpec
=============================================================================
