-------------------------- MODULE MCWriteBatching --------------------------
(* Small instances of WriteBatching for TLC. *)
EXTENDS WriteBatching

CONSTANTS t1, t2, x1, x2, k1, k2
=============================================================================
