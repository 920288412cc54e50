-------------------------- MODULE SingleflightProofs --------------------------
(***************************************************************************)
(* The safety properties of Singleflight, for any number of callers and    *)
(* keys, with Forget called at any time.                                   *)
(*                                                                         *)
(* The invariants follow a channel from Join to Receive: Delivery says     *)
(* where it is, Outcome what is put into it, Flag and Attached relate the  *)
(* records to who joined them and to the map.  With Pending, what a call   *)
(* has before it returns, they make every step one of SharedCalls.         *)
(***************************************************************************)
EXTENDS Singleflight, TLAPS

(* Types *)

\* What each caller has and has not at the step it is at.
Entries ==
  \A c \in Callers :
    /\ pc[c] = "wait" => call[c] \in Callers
    /\ call[c] # c
    /\ pc[c] \in {"run", "ended", "send"} => key[c] \in Keys /\ call[c] = None
    /\ pc[c] \in {"ended", "send"} => val[c] \in Outcomes
    /\ pc[c] = "idle" => call[c] = None
    /\ pc[c] \in {"idle", "run", "ended", "send"} => got[c] = NoResult

\* An entry of the map is a record whose leader has not unregistered it.
Registered ==
  \A k \in Keys : m[k] # None => key[m[k]] = k /\ pc[m[k]] \in {"run", "ended"}

Typed == TypeOK /\ Entries /\ Registered

\* Nobody has called yet.
LEMMA TypedInit == Init => Typed
BY NoneAssumption
   DEF Init, Typed, TypeOK, Entries, Registered, Results, NoResult

\* Every step moves one caller and fills what its next step reads.
LEMMA TypedStep == Typed /\ [Next]_vars => Typed'
<1> SUFFICES ASSUME Typed, [Next]_vars PROVE Typed'
  OBVIOUS
<1> USE NoneAssumption
    DEF Typed, TypeOK, Entries, Registered, Results, NoResult, Outcomes
<1>1. ASSUME NEW c \in Callers, NEW k \in Keys, Lead(c, k)
      PROVE Typed'
  BY <1>1 DEF Lead
<1>2. ASSUME NEW c \in Callers, NEW k \in Keys, Join(c, k)
      PROVE Typed'
  BY <1>2 DEF Join
<1>3. ASSUME NEW c \in Callers, Execute(c)
      PROVE Typed'
  BY <1>3 DEF Execute
<1>4. ASSUME NEW c \in Callers, Unregister(c)
      PROVE Typed'
  BY <1>4 DEF Unregister, TakeChans
<1>5. ASSUME NEW c \in Callers, NEW w \in Callers, Send(c, w)
      PROVE Typed'
  BY <1>5 DEF Send
<1>6. ASSUME NEW c \in Callers, LeaderReturn(c)
      PROVE Typed'
  BY <1>6 DEF LeaderReturn, Shared
<1>7. ASSUME NEW c \in Callers, Receive(c)
      PROVE Typed'
  BY <1>7 DEF Receive
<1>8. ASSUME NEW c \in Callers, GiveUp(c)
      PROVE Typed'
  BY <1>8 DEF GiveUp, CtxErr
<1>9. ASSUME NEW k \in Keys, Forget(k)
      PROVE Typed'
  BY <1>9 DEF Forget
<1>10. CASE UNCHANGED vars
  BY <1>10 DEF vars
<1> QED
  BY <1>1, <1>2, <1>3, <1>4, <1>5, <1>6, <1>7, <1>8, <1>9, <1>10
     DEF Next, Do, Progress, Finished

\* The type invariant of Singleflight.
THEOREM TypeCorrect == Spec => []TypeOK
<1>1. Typed => TypeOK
  BY DEF Typed
<1> QED
  BY TypedInit, TypedStep, <1>1, PTL DEF Spec

-----------------------------------------------------------------------------
(* Channels *)

\* Channels are registered while the execution runs and served after it, and
\* nothing is in the box of a caller that has not joined.
Channels ==
  \A c \in Callers :
    /\ chans[c] # {} => pc[c] \in {"run", "ended"}
    /\ toSend[c] # {} => pc[c] = "send"
    /\ pc[c] = "idle" => box[c] = NoResult

Delivery == Typed /\ Channels /\ SentOnce /\ NoWaiterLost

\* No channel is registered at the start.
LEMMA DeliveryInit == Init => Delivery
BY TypedInit DEF Delivery, Init, Channels, SentOnce, NoWaiterLost

\* A channel moves from the record to the leader's copy to being filled, and
\* is nowhere twice: Join alone adds one, for a caller that was idle.
LEMMA DeliveryStep == Delivery /\ [Next]_vars => Delivery'
<1> SUFFICES ASSUME Delivery, [Next]_vars PROVE Delivery'
  OBVIOUS
<1>0. Typed'
  BY TypedStep DEF Delivery
<1> USE <1>0, NoneAssumption
    DEF Delivery, Channels, SentOnce, NoWaiterLost, Typed, TypeOK, Entries,
        Registered, Results, NoResult
<1>1. ASSUME NEW c \in Callers, NEW k \in Keys, Lead(c, k)
      PROVE Delivery'
  BY <1>1 DEF Lead
<1>2. ASSUME NEW c \in Callers, NEW k \in Keys, Join(c, k)
      PROVE Delivery'
  BY <1>2 DEF Join
<1>3. ASSUME NEW c \in Callers, Execute(c)
      PROVE Delivery'
  BY <1>3 DEF Execute
<1>4. ASSUME NEW c \in Callers, Unregister(c)
      PROVE Delivery'
  BY <1>4 DEF Unregister, TakeChans
<1>5. ASSUME NEW c \in Callers, NEW w \in Callers, Send(c, w)
      PROVE Delivery'
  <2>1. box'[w] # NoResult /\ \A v \in Callers \ {w} : box'[v] = box[v]
    BY <1>5 DEF Send
  <2> HIDE DEF NoResult, Results
  <2>2. Channels'
    BY <1>5, <2>1 DEF Send
  <2>3. SentOnce'
    BY <1>5, <2>1 DEF Send
  <2>4. NoWaiterLost'
    BY <1>5, <2>1 DEF Send
  <2> QED
    BY <2>2, <2>3, <2>4
<1>6. ASSUME NEW c \in Callers, LeaderReturn(c)
      PROVE Delivery'
  BY <1>6 DEF LeaderReturn
<1>7. ASSUME NEW c \in Callers, Receive(c)
      PROVE Delivery'
  BY <1>7 DEF Receive
<1>8. ASSUME NEW c \in Callers, GiveUp(c)
      PROVE Delivery'
  BY <1>8 DEF GiveUp
<1>9. ASSUME NEW k \in Keys, Forget(k)
      PROVE Delivery'
  BY <1>9 DEF Forget
<1>10. CASE UNCHANGED vars
  BY <1>10 DEF vars
<1> QED
  BY <1>1, <1>2, <1>3, <1>4, <1>5, <1>6, <1>7, <1>8, <1>9, <1>10
     DEF Next, Do, Progress, Finished

\* A follower that waits is owed a result on every path: after a panic, a
\* Forget, and the removal of its entry by another execution.
THEOREM WaitersAreServed == Spec => []NoWaiterLost
<1>1. Delivery => NoWaiterLost
  BY DEF Delivery
<1> QED
  BY DeliveryInit, DeliveryStep, <1>1, PTL DEF Spec

\* The leader's sends go to empty buffers, so they never block it.
THEOREM SendsNeverBlock == Spec => []SentOnce
<1>1. Delivery => SentOnce
  BY DEF Delivery
<1> QED
  BY DeliveryInit, DeliveryStep, <1>1, PTL DEF Spec

-----------------------------------------------------------------------------
(* Results *)

\* A box holds the outcome of the execution its owner joined,
Boxes ==
  \A w \in Callers : box[w] # NoResult =>
    /\ box[w].from = call[w] /\ call[w] \in Callers
    /\ box[w].outcome = val[call[w]]

\* which has ended, so that its outcome does not change any more.
Settled ==
  \A w \in Callers :
    /\ box[w] # NoResult => pc[call[w]] \in {"send", "done"}
    /\ got[w].from # None => pc[got[w].from] \in {"send", "done"}

Outcome == Boxes /\ Settled /\ ResultOfJoined

\* Nothing is handed out at the start.
LEMMA OutcomeInit == Init => Outcome
BY DEF Init, Outcome, Boxes, Settled, ResultOfJoined, NoResult

\* Send fills a box from its owner's own record, Receive passes it on.
LEMMA OutcomeStep == Delivery /\ Outcome /\ [Next]_vars => Outcome'
<1> SUFFICES ASSUME Delivery, Outcome, [Next]_vars PROVE Outcome'
  OBVIOUS
<1> USE NoneAssumption
    DEF Delivery, Channels, SentOnce, Outcome, Boxes, Settled,
        ResultOfJoined, Typed, TypeOK, Entries, Registered, Results, NoResult,
        CtxErr, Outcomes
<1>1. ASSUME NEW c \in Callers, NEW k \in Keys, Lead(c, k)
      PROVE Outcome'
  BY <1>1 DEF Lead
<1>2. ASSUME NEW c \in Callers, NEW k \in Keys, Join(c, k)
      PROVE Outcome'
  BY <1>2 DEF Join
<1>3. ASSUME NEW c \in Callers, Execute(c)
      PROVE Outcome'
  BY <1>3 DEF Execute
<1>4. ASSUME NEW c \in Callers, Unregister(c)
      PROVE Outcome'
  BY <1>4 DEF Unregister, TakeChans
<1>5. ASSUME NEW c \in Callers, NEW w \in Callers, Send(c, w)
      PROVE Outcome'
  <2>1. /\ box'[w] = [from |-> c, outcome |-> val[c], shared |-> TRUE]
        /\ \A v \in Callers \ {w} : box'[v] = box[v]
        /\ UNCHANGED <<pc, call, val, got>>
    BY <1>5 DEF Send
  <2> HIDE DEF NoResult, Results
  <2>2. call[w] = c /\ pc[c] = "send"
    BY <1>5 DEF Send
  <2>3. Boxes'
    BY <2>1, <2>2
  <2> QED
    BY <2>1, <2>2, <2>3
<1>6. ASSUME NEW c \in Callers, LeaderReturn(c)
      PROVE Outcome'
  BY <1>6 DEF LeaderReturn
<1>7. ASSUME NEW c \in Callers, Receive(c)
      PROVE Outcome'
  BY <1>7 DEF Receive
<1>8. ASSUME NEW c \in Callers, GiveUp(c)
      PROVE Outcome'
  BY <1>8 DEF GiveUp
<1>9. ASSUME NEW k \in Keys, Forget(k)
      PROVE Outcome'
  BY <1>9 DEF Forget
<1>10. CASE UNCHANGED vars
  BY <1>10 DEF vars
<1> QED
  BY <1>1, <1>2, <1>3, <1>4, <1>5, <1>6, <1>7, <1>8, <1>9, <1>10
     DEF Next, Do, Progress, Finished

\* Nobody is handed a result of an execution it did not join or that has not
\* ended, though entries of the map may be replaced under it.
THEOREM ResultsAreOfTheJoined == Spec => []ResultOfJoined
<1>1. Outcome => ResultOfJoined
  BY DEF Outcome
<1> QED
  BY DeliveryInit, DeliveryStep, OutcomeInit, OutcomeStep, <1>1, PTL DEF Spec

-----------------------------------------------------------------------------
(* The shared flag *)

\* The count of a record is positive if and only if somebody joined it.
DupsExact ==
  \A c \in Callers : dups[c] > 0 <=> \E w \in Callers : call[w] = c

Flag == DupsExact /\ SharedFlagExact

\* Nobody has joined at the start.
LEMMA FlagInit == Init => Flag
BY NoneAssumption DEF Init, Flag, DupsExact, SharedFlagExact

\* Once a leader is past Unregister, its record is in no entry of the map, so
\* nobody joins it after dups was read.
LEMMA FlagStep == Typed /\ Boxes /\ Flag /\ [Next]_vars => Flag'
<1> SUFFICES ASSUME Typed, Boxes, Flag, [Next]_vars PROVE Flag'
  OBVIOUS
<1> USE NoneAssumption
    DEF Flag, DupsExact, SharedFlagExact, Boxes, Typed, TypeOK, Entries,
        Registered, Results, NoResult, CtxErr, Outcomes
<1>1. ASSUME NEW c \in Callers, NEW k \in Keys, Lead(c, k)
      PROVE Flag'
  BY <1>1 DEF Lead
<1>2. ASSUME NEW c \in Callers, NEW k \in Keys, Join(c, k)
      PROVE Flag'
  BY <1>2 DEF Join
<1>3. ASSUME NEW c \in Callers, Execute(c)
      PROVE Flag'
  BY <1>3 DEF Execute
<1>4. ASSUME NEW c \in Callers, Unregister(c)
      PROVE Flag'
  BY <1>4 DEF Unregister, TakeChans
<1>5. ASSUME NEW c \in Callers, NEW w \in Callers, Send(c, w)
      PROVE Flag'
  BY <1>5 DEF Send
<1>6. ASSUME NEW c \in Callers, LeaderReturn(c)
      PROVE Flag'
  <2>1. /\ got'[c].from = c
        /\ got'[c].shared = (dups[c] > 0)
        /\ \A d \in Callers \ {c} : got'[d] = got[d] /\ pc'[d] = pc[d]
        /\ UNCHANGED <<dups, call>>
    BY <1>6 DEF LeaderReturn, Shared
  <2>2. DupsExact'
    BY <2>1
  <2>3. got'[c].shared <=> \E w \in Callers : call'[w] = c
    <3>1. dups[c] > 0 <=> \E w \in Callers : call'[w] = c
      BY <2>1
    <3> QED
      BY <2>1, <3>1, Zenon
  <2>4. ASSUME NEW d \in Callers \ {c}, pc'[d] = "done", got'[d].from = d
        PROVE  got'[d].shared <=> \E w \in Callers : call'[w] = d
    <3>1. d \in Callers /\ pc[d] = "done" /\ got[d].from = d
      BY <2>1, <2>4
    <3>2. got[d].shared <=> \E w \in Callers : call[w] = d
      BY ONLY SharedFlagExact, <3>1, Zenon DEF SharedFlagExact
    <3> QED
      BY <2>1, <3>2, Zenon
  <2>5. ASSUME NEW d \in Callers, pc'[d] = "done", got'[d].from = d
        PROVE  got'[d].shared <=> \E w \in Callers : call'[w] = d
    <3>1. CASE d = c
      BY ONLY <2>3, <3>1, Zenon
    <3>2. CASE d # c
      BY ONLY <2>4, <2>5, <3>2, Zenon
    <3> QED
      BY ONLY <3>1, <3>2, Zenon
  <2>6. SharedFlagExact'
    BY ONLY <2>5, Zenon DEF SharedFlagExact
  <2> QED
    BY ONLY <2>2, <2>6, Zenon DEF Flag
<1>7. ASSUME NEW c \in Callers, Receive(c)
      PROVE Flag'
  <2>1. /\ got'[c].from # c
        /\ \A d \in Callers \ {c} : got'[d] = got[d] /\ pc'[d] = pc[d]
        /\ UNCHANGED <<dups, call>>
    BY <1>7 DEF Receive
  <2> HIDE DEF Results
  <2> QED
    BY <2>1
<1>8. ASSUME NEW c \in Callers, GiveUp(c)
      PROVE Flag'
  BY <1>8 DEF GiveUp
<1>9. ASSUME NEW k \in Keys, Forget(k)
      PROVE Flag'
  BY <1>9 DEF Forget
<1>10. CASE UNCHANGED vars
  BY <1>10 DEF vars
<1> QED
  BY <1>1, <1>2, <1>3, <1>4, <1>5, <1>6, <1>7, <1>8, <1>9, <1>10
     DEF Next, Do, Progress, Finished

\* The flag is exact although it is read without the lock.
THEOREM SharedFlagIsExact == Spec => []SharedFlagExact
<1>1. Outcome => Boxes
  BY DEF Outcome
<1>2. Delivery => Typed
  BY DEF Delivery
<1>3. Flag => SharedFlagExact
  BY DEF Flag
<1> QED
  BY DeliveryInit, DeliveryStep, OutcomeInit, OutcomeStep, FlagInit, FlagStep,
     <1>1, <1>2, <1>3, PTL DEF Spec

-----------------------------------------------------------------------------
(* Overlap *)

\* A record that was forgotten has been led, so its key stays,
Named == \A c \in forgotten : pc[c] # "idle"

\* and until a key is forgotten, its entry is the record being executed.
AttachedTo(c) ==
  pc[c] \in {"run", "ended"} /\ key[c] \notin Loose => m[key[c]] = c

Attached == Named /\ \A c \in Callers : AttachedTo(c)

\* Nothing is under way at the start.
LEMMA AttachedInit == Init => Attached
BY DEF Init, Attached, Named, AttachedTo

\* Forget alone adds a key, and it is the one it was called for.
LEMMA LooseKeys ==
  ASSUME Typed, Named, [Next]_vars
  PROVE  \/ Loose' = Loose
         \/ \E k \in Keys : Forget(k) /\ Loose' = Loose \cup {k}
<1> USE DEF Loose, Named, Typed, TypeOK, Registered
<1>1. ASSUME NEW c \in Callers, NEW k \in Keys, Lead(c, k) \/ Join(c, k)
      PROVE  Loose' = Loose
  <2>1. forgotten' = forgotten /\ \A d \in forgotten : key'[d] = key[d]
    BY <1>1 DEF Lead, Join
  <2> QED
    BY <2>1
<1>2. ASSUME NEW k \in Keys, Forget(k) PROVE Loose' = Loose \cup {k}
  <2>1. forgotten' = forgotten \cup {m[k]} /\ key' = key /\ key[m[k]] = k
    BY <1>2 DEF Forget
  <2> QED
    BY <2>1
<1>3. CASE UNCHANGED <<key, forgotten>>
  BY <1>3
<1> QED
  BY <1>1, <1>2, <1>3
     DEF Next, Do, Progress, Execute, Unregister, Send, LeaderReturn, Receive,
         GiveUp, Finished, vars

\* Unregister removes the entry of its key, which then is its own.
LEMMA AttachedStep == Typed /\ Attached /\ [Next]_vars => Attached'
<1> SUFFICES ASSUME Typed, Attached, [Next]_vars PROVE Attached'
  OBVIOUS
<1>0. Named'
  BY NoneAssumption
     DEF Attached, Named, Typed, TypeOK, Registered, Next, Do, Progress, Lead, Join,
         Execute, Unregister, Send, LeaderReturn, Receive, GiveUp, Forget,
         Finished, vars
<1>l. Loose \subseteq Loose'
  BY LooseKeys DEF Attached
<1> SUFFICES ASSUME NEW d \in Callers PROVE AttachedTo(d)'
  BY <1>0 DEF Attached
<1>h. AttachedTo(d)
  BY DEF Attached
<1> USE <1>l, <1>h, NoneAssumption DEF AttachedTo, Typed, TypeOK, Entries, Registered
<1>1. ASSUME NEW c \in Callers, NEW k \in Keys, Lead(c, k)
      PROVE AttachedTo(d)'
  BY <1>1 DEF Lead
<1>2. ASSUME NEW c \in Callers, NEW k \in Keys, Join(c, k)
      PROVE AttachedTo(d)'
  BY <1>2 DEF Join
<1>3. ASSUME NEW c \in Callers, Execute(c)
      PROVE AttachedTo(d)'
  BY <1>3 DEF Execute
<1>4. ASSUME NEW c \in Callers, Unregister(c)
      PROVE AttachedTo(d)'
  <2>1. AttachedTo(c)
    BY DEF Attached
  <2> QED
    BY <1>4, <2>1 DEF Unregister, TakeChans
<1>5. ASSUME NEW c \in Callers, NEW w \in Callers, Send(c, w)
      PROVE AttachedTo(d)'
  BY <1>5 DEF Send
<1>6. ASSUME NEW c \in Callers, LeaderReturn(c)
      PROVE AttachedTo(d)'
  BY <1>6 DEF LeaderReturn
<1>7. ASSUME NEW c \in Callers, Receive(c)
      PROVE AttachedTo(d)'
  BY <1>7 DEF Receive
<1>8. ASSUME NEW c \in Callers, GiveUp(c)
      PROVE AttachedTo(d)'
  BY <1>8 DEF GiveUp
<1>9. ASSUME NEW k \in Keys, Forget(k)
      PROVE AttachedTo(d)'
  <2>1. k \in Loose'
    BY <1>9 DEF Forget, Loose
  <2> QED
    BY <1>9, <2>1 DEF Forget
<1>10. CASE UNCHANGED vars
  BY <1>10 DEF vars
<1> QED
  BY <1>1, <1>2, <1>3, <1>4, <1>5, <1>6, <1>7, <1>8, <1>9, <1>10
     DEF Next, Do, Progress, Finished

\* Executions for one key overlap only after a Forget of that key.
THEOREM OnlyForgetOverlaps == Spec => []ForgetAloneOverlaps
<1>1. Typed /\ Attached => ForgetAloneOverlaps
  <2> SUFFICES ASSUME Typed, Attached, NEW k \in Keys \ Loose,
                      NEW c \in InFlight(k), NEW d \in InFlight(k)
               PROVE  c = d
    BY DEF ForgetAloneOverlaps
  <2> QED
    BY DEF InFlight, Attached, AttachedTo
<1> QED
  BY TypedInit, TypedStep, AttachedInit, AttachedStep, <1>1, PTL DEF Spec

-----------------------------------------------------------------------------
(* Shared executions *)

\* An execution has no outcome before it ended and one after it, a waiting call
\* has no result, what followers are sent is marked as shared, and whom they
\* have joined is a leader.
Unended(c) == pc[c] \in {"idle", "run"} => val[c] = None
Led(c) == pc[c] = "done" /\ call[c] = None => val[c] \in Outcomes
Waiting(c) == pc[c] = "wait" => got[c] = NoResult
Marked(c) == box[c] # NoResult => box[c].shared

Joined(c) == call[c] # None => call[call[c]] = None /\ pc[call[c]] # "idle"

Pending ==
  \A c \in Callers : Unended(c) /\ Led(c) /\ Waiting(c) /\ Marked(c) /\ Joined(c)

\* No call has a result at the start.
LEMMA PendingInit == Init => Pending
BY DEF Init, Pending, Unended, Led, Waiting, Marked, Joined

\* Nobody joins a caller that has not led, and nobody who has led joins.
LEMMA JoinedStep ==
  ASSUME Typed, Pending, [Next]_vars, NEW d \in Callers
  PROVE  Joined(d)'
<1>0. Joined(d)
  BY DEF Pending
<1> USE NoneAssumption DEF Joined, Typed, TypeOK, Entries, Registered
<1>1. ASSUME NEW c \in Callers, NEW k \in Keys, Lead(c, k) PROVE Joined(d)'
  BY <1>0, <1>1 DEF Lead
<1>2. ASSUME NEW c \in Callers, NEW k \in Keys, Join(c, k) PROVE Joined(d)'
  BY <1>0, <1>2 DEF Join
<1>3. ASSUME UNCHANGED call, NEW c \in Callers, NEW s \in {"ended", "send", "done"},
             pc' = [pc EXCEPT ![c] = s]
      PROVE  Joined(d)'
  BY <1>0, <1>3
<1>4. CASE UNCHANGED <<pc, call>>
  BY <1>0, <1>4
<1> QED
  BY <1>1, <1>2, <1>3, <1>4
     DEF Next, Do, Progress, Execute, Unregister, Send, LeaderReturn, Receive,
         GiveUp, Forget, Finished, vars

\* Each is written in the step that moves the caller on.
LEMMA PendingStep == Typed /\ Pending /\ [Next]_vars => Pending'
<1> SUFFICES ASSUME Typed, Pending, [Next]_vars, NEW d \in Callers
             PROVE  (Unended(d) /\ Led(d) /\ Waiting(d) /\ Marked(d))'
  BY JoinedStep DEF Pending
<1>0. Unended(d) /\ Led(d) /\ Waiting(d) /\ Marked(d)
  BY DEF Pending
<1>m. ASSUME UNCHANGED box PROVE Marked(d)'
  BY <1>0, <1>m, Zenon DEF Marked
<1> USE DEF Unended, Led, Waiting, Typed, TypeOK, Entries
<1>1. ASSUME NEW c \in Callers, NEW k \in Keys, Lead(c, k) \/ Join(c, k)
      PROVE  (Unended(d) /\ Led(d) /\ Waiting(d))' /\ UNCHANGED box
  <2>1. CASE Lead(c, k)
    BY <1>0, <2>1 DEF Lead
  <2>2. CASE Join(c, k)
    BY <1>0, <2>2 DEF Join
  <2> QED
    BY <1>1, <2>1, <2>2
<1>2. ASSUME NEW c \in Callers,
             Execute(c) \/ Unregister(c) \/ LeaderReturn(c) \/ Receive(c) \/ GiveUp(c)
      PROVE  (Unended(d) /\ Led(d) /\ Waiting(d))' /\ UNCHANGED box
  <2>1. CASE Execute(c)
    BY <1>0, <2>1 DEF Execute
  <2>2. CASE Unregister(c)
    BY <1>0, <2>2 DEF Unregister
  <2>3. CASE LeaderReturn(c)
    BY <1>0, <2>3 DEF LeaderReturn
  <2>4. CASE Receive(c)
    BY <1>0, <2>4, NoneAssumption DEF Receive
  <2>5. CASE GiveUp(c)
    BY <1>0, <2>5, NoneAssumption DEF GiveUp
  <2> QED
    BY <1>2, <2>1, <2>2, <2>3, <2>4, <2>5
<1>3. ASSUME NEW c \in Callers, NEW w \in Callers, Send(c, w)
      PROVE  UNCHANGED <<pc, call, val, got>> /\ Marked(d)'
  <2>1. box' = [box EXCEPT ![w] = [from |-> c, outcome |-> val[c], shared |-> TRUE]]
        /\ UNCHANGED <<pc, call, val, got>>
    BY <1>3 DEF Send
  <2>2. CASE d = w
    BY <2>1, <2>2 DEF Marked
  <2>3. CASE d # w
    <3>1. box'[d] = box[d]
      BY <2>1, <2>3
    <3>2. Marked(d)
      BY <1>0
    <3>3. Marked(d)'
      BY ONLY <3>1, <3>2, Zenon DEF Marked
    <3> QED
      BY <2>1, <3>3
  <2> QED
    BY <2>1, <2>2, <2>3
<1>4. CASE UNCHANGED <<pc, call, val, got, box>>
  BY <1>0, <1>4, <1>m
<1>5. CASE UNCHANGED <<pc, call, val, got>> /\ Marked(d)'
  BY <1>0, <1>5
<1>6. CASE (Unended(d) /\ Led(d) /\ Waiting(d))' /\ UNCHANGED box
  BY <1>6, <1>m
<1> QED
  <2>1. CASE UNCHANGED vars
    BY <1>4, <2>1 DEF vars
  <2>2. ASSUME NEW k \in Keys, Forget(k)
        PROVE  UNCHANGED <<pc, call, val, got, box>>
    BY <2>2 DEF Forget
  <2> HIDE DEF Unended, Led, Waiting, Typed
  <2> QED
    BY <1>1, <1>2, <1>3, <1>4, <1>5, <1>6, <2>1, <2>2
       DEF Next, Do, Progress, Finished

\* Both start without calls.
LEMMA SharedInit == Init => Shares!CallsInit
BY DEF Init, Shares!CallsInit, Shares!Nothing, NoResult, Part, Loose

\* Who takes part in what follows from where each caller is.
LEMMA Parts ==
  ASSUME Typed, NEW c \in Callers
  PROVE  /\ pc[c] = "idle" => Part[c] = None
         /\ pc[c] \in {"run", "ended", "send"} => Part[c] = c /\ call[c] = None
         /\ pc[c] = "wait" => Part[c] = call[c] /\ call[c] \in Callers \ {c}
         /\ Part[c] = c => call[c] = None /\ pc[c] # "idle"
BY NoneAssumption DEF Typed, TypeOK, Entries, Part

\* A caller that moves on stays in the execution it is in.
LEMMA PartsStay ==
  ASSUME Typed, NEW c \in Callers, NEW s \in {"ended", "send", "wait", "done"},
         pc[c] # "idle", pc' = [pc EXCEPT ![c] = s], call' = call
  PROVE  Part' = Part
BY DEF Part, Typed, TypeOK

\* Lead starts an execution: none is running for the key, unless it was
\* forgotten, as that one would be the key's entry.
LEMMA LeadStarts ==
  ASSUME Typed, Attached, Pending, NEW c \in Callers, NEW k \in Keys, Lead(c, k),
         Loose' = Loose
  PROVE  Shares!CallsNext
<1>1. Part[c] = None
  BY Parts DEF Lead
<1>2. Part' = [Part EXCEPT ![c] = c]
  BY DEF Lead, Part, Typed, TypeOK, Entries
<1>3. ASSUME NEW d \in Callers, Part[d] = d, key[d] = k, val[d] = None, k \notin Loose
      PROVE  FALSE
  <2>1. call[d] = None /\ pc[d] # "idle"
    BY <1>3, Parts
  <2>2. pc[d] \in {"run", "ended"}
    BY <1>3, <2>1, NoneAssumption DEF Typed, TypeOK, Entries, Pending, Led
  <2>3. m[k] = d
    BY <1>3, <2>2 DEF Attached, AttachedTo
  <2> QED
    BY <2>3, NoneAssumption DEF Lead
<1>4. Shares!Start(c, k)
  BY <1>1, <1>2, <1>3 DEF Lead, Shares!Start, Shares!Runs
<1> QED
  BY <1>4 DEF Shares!CallsNext

\* Join takes part in an execution whose leader has no result yet.
LEMMA JoinTakesPart ==
  ASSUME Typed, NEW c \in Callers, NEW k \in Keys, Join(c, k), Loose' = Loose
  PROVE  Shares!CallsNext
<1> DEFINE d == m[k]
<1>1. d \in Callers /\ key[d] = k /\ pc[d] \in {"run", "ended"} /\ got[d] = NoResult
  BY DEF Join, Typed, TypeOK, Entries, Registered
<1>2. Part[c] = None /\ Part[d] = d
  BY <1>1, Parts DEF Join
<1>3. Part' = [Part EXCEPT ![c] = d]
  <2>1. /\ call' = [call EXCEPT ![c] = d] /\ pc' = [pc EXCEPT ![c] = "wait"]
        /\ d # None
    BY DEF Join
  <2> HIDE DEF d
  <2> QED
    BY <2>1 DEF Part, Typed, TypeOK
<1>4. key' = [key EXCEPT ![c] = key[d]] /\ UNCHANGED <<val, got>>
  BY <1>1 DEF Join
<1> HIDE DEF d
<1>5. Shares!TakePart(c, d)
  BY <1>1, <1>2, <1>3, <1>4 DEF Shares!TakePart, Shares!Nothing, NoResult
<1> QED
  BY <1>1, <1>5 DEF Shares!CallsNext

\* The end of fn is the end of the execution.
LEMMA ExecuteFinishes ==
  ASSUME Typed, Pending, NEW c \in Callers, Execute(c), Loose' = Loose
  PROVE  Shares!CallsNext
<1>1. Part[c] = c /\ val[c] = None
  BY Parts DEF Execute, Pending, Unended
<1>2. Part' = Part
  BY PartsStay DEF Execute
<1>3. PICK o \in Outcomes : val' = [val EXCEPT ![c] = o]
  BY DEF Execute
<1>4. Shares!Finish(c, o)
  BY <1>1, <1>2, <1>3 DEF Execute, Shares!Finish
<1> QED
  BY <1>4 DEF Shares!CallsNext

\* A leader returns its own outcome, with a flag that is exact.
LEMMA LeaderReturns ==
  ASSUME Typed, DupsExact, NEW c \in Callers, LeaderReturn(c), Loose' = Loose
  PROVE  Shares!CallsNext
<1>1. Part[c] = c /\ val[c] # None /\ got[c] = NoResult
  BY Parts, NoneAssumption DEF LeaderReturn, Typed, TypeOK, Entries
<1>2. Part' = Part
  BY PartsStay DEF LeaderReturn
<1>3. Shared(c) = (\E w \in Callers : w # c /\ Part[w] = c)
  <2>1. \A w \in Callers : call[w] = c <=> w # c /\ Part[w] = c
    BY NoneAssumption DEF Part, Typed, TypeOK, Entries
  <2>2. dups[c] > 0 <=> \E w \in Callers : call[w] = c
    BY DEF DupsExact
  <2>3. Shared(c) \in BOOLEAN /\ (\E w \in Callers : w # c /\ Part[w] = c) \in BOOLEAN
    BY DEF Shared, Typed, TypeOK
  <2>4. Shared(c) <=> \E w \in Callers : w # c /\ Part[w] = c
    BY <2>1, <2>2, Zenon DEF Shared
  <2> QED
    BY <2>3, <2>4
<1>4. /\ got' = [got EXCEPT ![c] = [from |-> c, outcome |-> val[c], shared |-> Shared(c)]]
      /\ UNCHANGED <<key, val>>
  BY DEF LeaderReturn
<1>5. Shares!Return(c)
  <2>1. got' = [got EXCEPT ![c] = [from |-> Part[c], outcome |-> val[Part[c]],
                  shared |-> \E w \in Callers : w # Part[c] /\ Part[w] = Part[c]]]
    BY <1>1, <1>3, <1>4, Zenon
  <2> QED
    BY <1>1, <1>2, <1>4, <2>1, NoneAssumption
       DEF Shares!Return, Shares!Nothing, NoResult
<1> QED
  BY <1>5 DEF Shares!CallsNext

\* A follower returns what its leader sent, after the end and marked as shared,
\* which it is as the follower took part.
LEMMA ReceiveReturns ==
  ASSUME Typed, Boxes, Settled, Pending, NEW c \in Callers, Receive(c), Loose' = Loose
  PROVE  Shares!CallsNext
<1> DEFINE d == call[c]
<1>1. /\ Part[c] = d /\ d \in Callers \ {c} /\ got[c] = NoResult
      /\ pc[c] = "wait" /\ box[c] # NoResult
  BY Parts DEF Receive, Pending, Waiting
<1>2. Part' = Part
  BY <1>1, PartsStay DEF Receive
<1>3. box[c] = [from |-> d, outcome |-> val[d], shared |-> TRUE]
  <2>1. box[c].from = d /\ box[c].outcome = val[d]
    BY <1>1, Zenon DEF Boxes
  <2>2. box[c].shared
    BY <1>1, Zenon DEF Pending, Marked
  <2>3. box[c] \in Results
    BY DEF Typed, TypeOK
  <2> QED
    BY <2>1, <2>2, <2>3 DEF Results
<1>4. val[d] # None
  <2>1. pc[d] \in {"send", "done"} /\ d \in Callers
    BY <1>1, Zenon DEF Settled
  <2>2. call[d] = None
    BY <1>1, <2>1, NoneAssumption DEF Pending, Joined
  <2> QED
    BY <2>1, <2>2, NoneAssumption DEF Typed, TypeOK, Entries, Pending, Led
<1>5. (\E w \in Callers : w # d /\ Part[w] = d) = TRUE
  BY <1>1
<1>6. got' = [got EXCEPT ![c] = box[c]] /\ UNCHANGED <<key, val>>
  BY DEF Receive
<1> HIDE DEF d
<1>7. Shares!Return(c)
  <2>1. got' = [got EXCEPT ![c] = [from |-> Part[c], outcome |-> val[Part[c]],
                  shared |-> \E w \in Callers : w # Part[c] /\ Part[w] = Part[c]]]
    BY <1>1, <1>3, <1>5, <1>6, Zenon
  <2> QED
    BY <1>1, <1>2, <1>4, <1>6, <2>1, NoneAssumption
       DEF Shares!Return, Shares!Nothing, NoResult
<1> QED
  BY <1>7 DEF Shares!CallsNext

\* A follower whose context ends leaves.
LEMMA GiveUpLeaves ==
  ASSUME Typed, Pending, NEW c \in Callers, GiveUp(c), Loose' = Loose
  PROVE  Shares!CallsNext
<1>1. Part[c] \notin {None, c} /\ got[c] = NoResult
  BY Parts, NoneAssumption DEF GiveUp, Pending, Waiting
<1>2. Part' = Part
  BY PartsStay DEF GiveUp
<1>3. Shares!Leave(c)
  BY <1>1, <1>2 DEF GiveUp, CtxErr, Shares!Leave, Shares!Nothing, NoResult
<1> QED
  BY <1>3 DEF Shares!CallsNext

\* Unregister and the sends are the record's own affair.
LEMMA Inner ==
  ASSUME Typed, NEW c \in Callers, Loose' = Loose,
         Unregister(c) \/ \E w \in Callers : Send(c, w)
  PROVE  UNCHANGED Shares!calls
<1>1. Part' = Part
  BY PartsStay DEF Unregister, Send, Part
<1> QED
  BY <1>1 DEF Unregister, Send, Shares!calls

\* Every step of the group is one of SharedCalls or none.
LEMMA SharedStep ==
  Delivery /\ Outcome /\ Flag /\ Attached /\ Pending /\ [Next]_vars
    => [Shares!CallsNext]_(Shares!calls)
<1> SUFFICES ASSUME Delivery, Outcome, Flag, Attached, Pending, [Next]_vars
             PROVE  [Shares!CallsNext]_(Shares!calls)
  OBVIOUS
<1>0. Typed /\ Boxes /\ Settled /\ DupsExact /\ Named
  BY DEF Delivery, Outcome, Flag, Attached
<1>1. ASSUME NEW k \in Keys, Forget(k), Loose' = Loose \cup {k}
      PROVE  Shares!CallsNext
  <2>1. Shares!Loosen(k)
    BY <1>1 DEF Forget, Part, Shares!Loosen
  <2> QED
    BY <2>1 DEF Shares!CallsNext
<1>2. CASE Loose' = Loose
  <2>1. CASE UNCHANGED vars
    BY <1>2, <2>1 DEF vars, Part, Shares!calls
  <2>2. CASE \E k \in Keys : Forget(k)
    BY <1>2, <2>2 DEF Forget, Part, Shares!calls
  <2>3. ASSUME NEW c \in Callers, Do(c) \/ Progress(c) \/ GiveUp(c)
        PROVE  [Shares!CallsNext]_(Shares!calls)
    BY <1>0, <1>2, <2>3, LeadStarts, JoinTakesPart, ExecuteFinishes, LeaderReturns,
       ReceiveReturns, GiveUpLeaves, Inner DEF Do, Progress
  <2> QED
    BY <2>1, <2>2, <2>3 DEF Next, Finished
<1> QED
  BY <1>0, <1>1, <1>2, LooseKeys

\* Singleflight shares executions as SharedCalls says, for any number of
\* callers and keys and with Forget at any time.
THEOREM ExecutionsAreShared == Spec => ImplementsSharedCalls
<1>1. Delivery => Typed
  BY DEF Delivery
<1>2. Outcome => Boxes
  BY DEF Outcome
<1> QED
  BY <1>1, <1>2, DeliveryInit, DeliveryStep, OutcomeInit, OutcomeStep, FlagInit,
     FlagStep, AttachedInit, AttachedStep, PendingInit, PendingStep, SharedInit,
     SharedStep, PTL
     DEF Spec, ImplementsSharedCalls, Shares!CallsSpec
=============================================================================
