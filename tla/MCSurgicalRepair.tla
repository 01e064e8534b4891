-------------------------- MODULE MCSurgicalRepair --------------------------
(* Small instances of SurgicalRepair for TLC. *)
EXTENDS SurgicalRepair, TLC

CONSTANTS p1, p2, x, y, v, w, f, g, k, l

Symmetry == Permutations({p1, p2}) \cup Permutations({x, y})
            \cup Permutations({v, w}) \cup Permutations({f, g}) \cup Permutations({k, l})

\* The local variables of a process that it may still read: what an earlier step of
\* its call assigned.
Live(p) ==
    <<pc[p],
      IF At(p, "commit") THEN kind[p] ELSE "list",
      IF pc[p] \in {"read", "choose", "fix", "publish"} THEN seen[p] ELSE file,
      IF pc[p] \in {"choose", "fix"} THEN <<raw[p], hit[p]>> ELSE <<>>,
      IF At(p, "fix") THEN patch[p] ELSE <<>> >>

\* A call that needs the variable runs or may begin.
Needed(kinds, labels) ==
    calls < MaxCalls \/ \E p \in Procs : (At(p, "commit") /\ kind[p] \in kinds) \/ pc[p] \in labels

\* States that differ only in what no step and no property will read behave alike.
LiveView ==
    <<file, map, IF serial THEN committed ELSE file, serial, calls, damage, crashes,
      IF Needed({"recover"}, {}) THEN bak ELSE file,
      IF Needed({"rollback"}, {"load", "read", "choose"}) THEN <<store, spoiled>> ELSE <<>>,
      [p \in Procs |-> Live(p)]>>
=============================================================================
