---------------------------- MODULE MCLegacyImage ----------------------------
(* A small instance of LegacyImage for TLC: the names a, b and cb. *)
EXTENDS LegacyImage

CONSTANTS a, b, c

Users    == {<<a>>, <<b>>, <<c, b>>}
Stalked  == {<<a>>, <<b>>}
=============================================================================
