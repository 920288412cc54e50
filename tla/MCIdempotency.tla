---------------------------- MODULE MCIdempotency ----------------------------
(* Small instances of Idempotency for TLC. *)
EXTENDS Idempotency, TLC

\* Requests with the same key are interchangeable.
Symmetry == Permutations(Requests)
=============================================================================
