------------------------------ MODULE WorkSet ------------------------------
(***************************************************************************)
(* What a pool of workers promises, without queue, channel or strategy: a  *)
(* task is refused or accepted, an accepted one is run exactly once, at    *)
(* most Width of them at a time, and Stop returns only when every accepted *)
(* task has ended and no more are accepted.                                *)
(***************************************************************************)
EXTENDS Naturals, FiniteSets

CONSTANTS Tasks, Width

VARIABLES
  refused, accepted, running, ended,   \* the tasks in each condition
  stopped                              \* some call of Stop has returned

work == <<refused, accepted, running, ended, stopped>>

WorkInit ==
  /\ refused = {} /\ accepted = {} /\ running = {} /\ ended = {}
  /\ stopped = FALSE

Submitted == refused \cup accepted \cup running \cup ended

Refuse(t) ==
  /\ t \notin Submitted
  /\ refused' = refused \cup {t}
  /\ UNCHANGED <<accepted, running, ended, stopped>>

Accept(t) ==
  /\ t \notin Submitted /\ ~stopped
  /\ accepted' = accepted \cup {t}
  /\ UNCHANGED <<refused, running, ended, stopped>>

Start(t) ==
  /\ t \in accepted /\ Cardinality(running) < Width
  /\ accepted' = accepted \ {t}
  /\ running' = running \cup {t}
  /\ UNCHANGED <<refused, ended, stopped>>

End(t) ==
  /\ t \in running
  /\ running' = running \ {t}
  /\ ended' = ended \cup {t}
  /\ UNCHANGED <<refused, accepted, stopped>>

\* The panic of a Submit ends the task that called it.
EndByRefusal(t, u) ==
  /\ t \in running /\ u \notin Submitted
  /\ running' = running \ {t}
  /\ ended' = ended \cup {t}
  /\ refused' = refused \cup {u}
  /\ UNCHANGED <<accepted, stopped>>

Return ==
  /\ accepted = {} /\ running = {}
  /\ stopped' = TRUE
  /\ UNCHANGED <<refused, accepted, running, ended>>

WorkNext ==
  \/ \E t \in Tasks : Refuse(t) \/ Accept(t) \/ Start(t) \/ End(t)
  \/ \E t, u \in Tasks : EndByRefusal(t, u)
  \/ Return

WorkSpec == WorkInit /\ [][WorkNext]_work
=============================================================================
