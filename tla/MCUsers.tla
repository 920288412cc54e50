------------------------------ MODULE MCUsers ------------------------------
(* A small instance of Users alone for TLC. *)
EXTENDS Users
=============================================================================
