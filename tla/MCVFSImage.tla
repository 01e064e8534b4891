----------------------------- MODULE MCVFSImage -----------------------------
(* Small instances of VFSImage for TLC. *)
EXTENDS VFSImage

CONSTANTS a, b, v, w

Roots == {<<a>>, <<b>>}
=============================================================================
