--------------------------- MODULE MCSingleflight ---------------------------
(* Small instances of Singleflight for TLC. *)
EXTENDS Singleflight
=============================================================================
