---------------------------- MODULE Singleflight ----------------------------
(***************************************************************************)
(* routine.Singleflight: concurrent calls for one key share an execution.  *)
(*                                                                         *)
(* Every caller makes one call of Do or DoChan.  The first to find no      *)
(* entry for its key leads: it registers a call record (named here by its  *)
(* leader) and runs fn; the others append a channel of capacity one to the *)
(* record and wait.  The mutex makes each locked section one action; what  *)
(* runs outside it (fn, the sends, the leader's read of dups) is a step of *)
(* its own.                                                                *)
(***************************************************************************)
EXTENDS Naturals

CONSTANTS Callers, Keys, None

Outcomes == {"value", "error", "panic"}

ASSUME NoneAssumption == None \notin Callers \cup Outcomes

VARIABLES
  m,          \* the map: key to the record of its leader
  pc,         \* where each caller is
  key,        \* the key it called with
  call,       \* the record a follower joined
  chans,      \* c.chans: followers whose channel is registered
  toSend,     \* the leader's local copy of chans, still to be served
  dups,       \* c.dups
  val,        \* c.val and c.err, by outcome of the execution
  box,        \* the content of a follower's channel
  got,        \* what the call returned
  forgotten   \* history: records removed by Forget while registered

vars == <<m, pc, key, call, chans, toSend, dups, val, box, got, forgotten>>

\* What a caller is handed: whose execution, how it ended, and the flag.
Results == [from : Callers \cup {None}, outcome : Outcomes \cup {None}, shared : BOOLEAN]

NoResult == [from |-> None, outcome |-> None, shared |-> FALSE]
CtxErr == [from |-> None, outcome |-> None, shared |-> TRUE]

TypeOK ==
  /\ m \in [Keys -> Callers \cup {None}]
  /\ pc \in [Callers -> {"idle", "run", "ended", "send", "wait", "done"}]
  /\ key \in [Callers -> Keys \cup {None}]
  /\ call \in [Callers -> Callers \cup {None}]
  /\ chans \in [Callers -> SUBSET Callers]
  /\ toSend \in [Callers -> SUBSET Callers]
  /\ dups \in [Callers -> Nat]
  /\ val \in [Callers -> Outcomes \cup {None}]
  /\ box \in [Callers -> Results]
  /\ got \in [Callers -> Results]
  /\ forgotten \subseteq Callers

Init ==
  /\ m = [k \in Keys |-> None]
  /\ pc = [c \in Callers |-> "idle"]
  /\ key = [c \in Callers |-> None]
  /\ call = [c \in Callers |-> None]
  /\ chans = [c \in Callers |-> {}]
  /\ toSend = [c \in Callers |-> {}]
  /\ dups = [c \in Callers |-> 0]
  /\ val = [c \in Callers |-> None]
  /\ box = [c \in Callers |-> NoResult]
  /\ got = [c \in Callers |-> NoResult]
  /\ forgotten = {}

-----------------------------------------------------------------------------

\* Mutant: the map is read before the lock is taken.
Lead_Unchecked(c, k) ==
  /\ pc[c] = "idle"
  /\ m' = [m EXCEPT ![k] = c]
  /\ pc' = [pc EXCEPT ![c] = "run"]
  /\ key' = [key EXCEPT ![c] = k]
  /\ UNCHANGED <<call, chans, toSend, dups, val, box, got, forgotten>>

\* No entry: register a new record and start executing.
Lead(c, k) ==
  /\ pc[c] = "idle" /\ m[k] = None
  /\ m' = [m EXCEPT ![k] = c]
  /\ pc' = [pc EXCEPT ![c] = "run"]
  /\ key' = [key EXCEPT ![c] = k]
  /\ UNCHANGED <<call, chans, toSend, dups, val, box, got, forgotten>>

\* An execution is in flight: append a channel to its record and wait.
Join(c, k) ==
  /\ pc[c] = "idle" /\ m[k] # None
  /\ dups' = [dups EXCEPT ![m[k]] = @ + 1]
  /\ chans' = [chans EXCEPT ![m[k]] = @ \cup {c}]
  /\ call' = [call EXCEPT ![c] = m[k]]
  /\ pc' = [pc EXCEPT ![c] = "wait"]
  /\ key' = [key EXCEPT ![c] = k]
  /\ UNCHANGED <<m, toSend, val, box, got, forgotten>>

\* fn returns a value, returns an error, or panics and is recovered.
Execute(c) ==
  /\ pc[c] = "run"
  /\ \E o \in Outcomes : val' = [val EXCEPT ![c] = o]
  /\ pc' = [pc EXCEPT ![c] = "ended"]
  /\ UNCHANGED <<m, key, call, chans, toSend, dups, box, got, forgotten>>

\* Mutant: c.chans is cleared before it is copied.
TakeChans_Cleared(c) ==
  toSend' = [toSend EXCEPT ![c] = {}] /\ chans' = [chans EXCEPT ![c] = {}]

\* Mutant: the channels are those of the key's current entry.
TakeChans_OfEntry(c) ==
  LET d == IF m[key[c]] = None THEN c ELSE m[key[c]] IN
    toSend' = [toSend EXCEPT ![c] = chans[d]] /\ chans' = [chans EXCEPT ![d] = {}]

TakeChans(c) ==
  toSend' = [toSend EXCEPT ![c] = chans[c]] /\ chans' = [chans EXCEPT ![c] = {}]

\* Mutant: the entry is not removed.
Unregister_KeepsEntry(c) ==
  /\ pc[c] = "ended"
  /\ TakeChans(c)
  /\ pc' = [pc EXCEPT ![c] = "send"]
  /\ UNCHANGED <<m, key, call, dups, val, box, got, forgotten>>

\* The deferred function removes whatever entry the key has, and takes the
\* channels of its own record.
Unregister(c) ==
  /\ pc[c] = "ended"
  /\ m' = [m EXCEPT ![key[c]] = None]
  /\ TakeChans(c)
  /\ pc' = [pc EXCEPT ![c] = "send"]
  /\ UNCHANGED <<key, call, dups, val, box, got, forgotten>>

\* One result into one follower's channel.
Send(c, w) ==
  /\ pc[c] = "send" /\ w \in toSend[c]
  /\ box' = [box EXCEPT ![w] = [from |-> c, outcome |-> val[c], shared |-> TRUE]]
  /\ toSend' = [toSend EXCEPT ![c] = @ \ {w}]
  /\ UNCHANGED <<m, pc, key, call, chans, dups, val, got, forgotten>>

\* Mutant: off by one.
Shared_Twice(c) == dups[c] > 1

Shared(c) == dups[c] > 0

\* The leader returns its own result; dups is read without the lock.
LeaderReturn(c) ==
  /\ pc[c] = "send" /\ toSend[c] = {}
  /\ got' = [got EXCEPT ![c] =
       [from |-> c, outcome |-> val[c], shared |-> Shared(c)]]
  /\ pc' = [pc EXCEPT ![c] = "done"]
  /\ UNCHANGED <<m, key, call, chans, toSend, dups, val, box, forgotten>>

Receive(c) ==
  /\ pc[c] = "wait" /\ box[c] # NoResult
  /\ got' = [got EXCEPT ![c] = box[c]]
  /\ pc' = [pc EXCEPT ![c] = "done"]
  /\ UNCHANGED <<m, key, call, chans, toSend, dups, val, box, forgotten>>

\* A follower's context ends first (or together: select picks either).
GiveUp(c) ==
  /\ pc[c] = "wait"
  /\ got' = [got EXCEPT ![c] = CtxErr]
  /\ pc' = [pc EXCEPT ![c] = "done"]
  /\ UNCHANGED <<m, key, call, chans, toSend, dups, val, box, forgotten>>

Forget(k) ==
  /\ m[k] # None
  /\ m' = [m EXCEPT ![k] = None]
  /\ forgotten' = forgotten \cup {m[k]}
  /\ UNCHANGED <<pc, key, call, chans, toSend, dups, val, box, got>>

Do(c) == \E k \in Keys : Lead(c, k) \/ Join(c, k)

Progress(c) ==
  Execute(c) \/ Unregister(c) \/ (\E w \in Callers : Send(c, w)) \/ LeaderReturn(c) \/ Receive(c)

\* Every caller has made its one call.
Finished == (\A c \in Callers : pc[c] = "done") /\ UNCHANGED vars

Next ==
  \/ \E c \in Callers : Do(c) \/ Progress(c) \/ GiveUp(c)
  \/ \E k \in Keys : Forget(k)
  \/ Finished

Spec == Init /\ [][Next]_vars

\* The scheduler runs every goroutine, and fn returns.
FairSpec == Spec /\ \A c \in Callers : WF_vars(Progress(c))

-----------------------------------------------------------------------------
(* Properties *)

InFlight(k) == {c \in Callers : key[c] = k /\ pc[c] = "run"}

\* Keys that were forgotten while they had an entry.
Loose == {key[c] : c \in forgotten}

\* Until somebody calls Forget for a key, no two executions for it overlap,
\* whatever is forgotten besides.
ForgetAloneOverlaps ==
  \A k \in Keys \ Loose : \A c, d \in InFlight(k) : c = d

\* A follower that waits is always owed a result: its channel is registered,
\* about to be served, or already filled.
NoWaiterLost ==
  \A w \in Callers : pc[w] = "wait" =>
    w \in chans[call[w]] \cup toSend[call[w]] \/ box[w] # NoResult

\* No channel is sent to twice, so no send by the leader can block: a second
\* result would find the buffer of one full.
SentOnce ==
  \A c, w \in Callers : w \in chans[c] \cup toSend[c] => box[w] = NoResult /\ call[w] = c

\* Nobody is handed the result of an execution other than the one it joined,
\* nor a result of an execution that has not ended.
ResultOfJoined ==
  \A w \in Callers : got[w].from # None =>
    LET c == got[w].from IN
      /\ c = IF call[w] = None THEN w ELSE call[w]
      /\ got[w].outcome = val[c]

\* The leader's shared flag, read after the lock was released, is exact: true
\* if and only if somebody joined its execution.
SharedFlagExact ==
  \A c \in Callers : pc[c] = "done" /\ got[c].from = c =>
    (got[c].shared <=> \E w \in Callers : call[w] = c)

\* The execution a caller leads or has joined.
Part == [c \in Callers |-> IF pc[c] = "idle" \/ call[c] # None THEN call[c] ELSE c]

Shares == INSTANCE SharedCalls WITH in <- Part, outcome <- val, loose <- Loose

\* A call starts an execution, or takes part in one that is not answered yet;
\* all who take part are told the same, who was alone is told so, and only a
\* Forget of its key lets executions overlap: although sends and the read of
\* the count are outside the lock, and an end removes somebody else's entry.
ImplementsSharedCalls == Shares!CallsSpec

\* Every follower returns: also when fn fails or panics, and when the entry
\* was forgotten or replaced meanwhile.
WaiterReturns == \A c \in Callers : pc[c] = "wait" ~> pc[c] = "done"

\* "only one execution is in-flight for a given key at a time", leaving aside
\* the executions Forget detached.  (Their ends refute it.)
OneInFlight ==
  \A k \in Keys : \A c, d \in InFlight(k) \ forgotten : c = d
=============================================================================
