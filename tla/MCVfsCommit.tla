---------------------------- MODULE MCVfsCommit ----------------------------
(* Small instances of VfsCommit for TLC. *)
EXTENDS VfsCommit

CONSTANTS p1, p2, a, b, c

\* Processes and contents are interchangeable.
Symmetry == Permutations(Procs) \cup Permutations(Content)
=============================================================================
