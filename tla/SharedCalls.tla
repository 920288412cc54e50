---------------------------- MODULE SharedCalls ----------------------------
(***************************************************************************)
(* What sharing executions promises, without map, records, channels or     *)
(* counters: a call starts an execution of its own or takes part in one    *)
(* that has not been answered, and returns how that one ended, or gives    *)
(* up.  Two executions for one key run at once only after a Forget of it.  *)
(***************************************************************************)
CONSTANTS Callers, Keys, None, Outcomes

VARIABLES
  key,        \* the key each caller called with
  in,         \* the execution it takes part in, named by who started it
  outcome,    \* how that caller's execution ended
  got,        \* what the call returned
  loose       \* keys that were forgotten

calls == <<key, in, outcome, got, loose>>

Nothing == [from |-> None, outcome |-> None, shared |-> FALSE]

CallsInit ==
  /\ key = [c \in Callers |-> None]
  /\ in = [c \in Callers |-> None]
  /\ outcome = [c \in Callers |-> None]
  /\ got = [c \in Callers |-> Nothing]
  /\ loose = {}

Runs(c, k) == in[c] = c /\ key[c] = k /\ outcome[c] = None

Start(c, k) ==
  /\ in[c] = None
  /\ k \in loose \/ \A d \in Callers : ~Runs(d, k)
  /\ in' = [in EXCEPT ![c] = c]
  /\ key' = [key EXCEPT ![c] = k]
  /\ UNCHANGED <<outcome, got, loose>>

\* An execution whose starter has its answer is closed.
TakePart(c, d) ==
  /\ in[c] = None /\ in[d] = d /\ got[d] = Nothing
  /\ in' = [in EXCEPT ![c] = d]
  /\ key' = [key EXCEPT ![c] = key[d]]
  /\ UNCHANGED <<outcome, got, loose>>

Finish(c, o) ==
  /\ in[c] = c /\ outcome[c] = None
  /\ outcome' = [outcome EXCEPT ![c] = o]
  /\ UNCHANGED <<key, in, got, loose>>

\* "shared" says whether anybody else took part.
Return(c) ==
  /\ in[c] # None /\ outcome[in[c]] # None /\ got[c] = Nothing
  /\ got' = [got EXCEPT ![c] =
       [from |-> in[c], outcome |-> outcome[in[c]],
        shared |-> \E w \in Callers : w # in[c] /\ in[w] = in[c]]]
  /\ UNCHANGED <<key, in, outcome, loose>>

\* Only who started an execution has to see it through.
Leave(c) ==
  /\ in[c] \notin {None, c} /\ got[c] = Nothing
  /\ got' = [got EXCEPT ![c] = [from |-> None, outcome |-> None, shared |-> TRUE]]
  /\ UNCHANGED <<key, in, outcome, loose>>

Loosen(k) ==
  /\ loose' = loose \cup {k}
  /\ UNCHANGED <<key, in, outcome, got>>

CallsNext ==
  \/ \E c \in Callers, k \in Keys : Start(c, k)
  \/ \E c, d \in Callers : TakePart(c, d)
  \/ \E c \in Callers, o \in Outcomes : Finish(c, o)
  \/ \E c \in Callers : Return(c) \/ Leave(c)
  \/ \E k \in Keys : Loosen(k)

CallsSpec == CallsInit /\ [][CallsNext]_calls
=============================================================================
