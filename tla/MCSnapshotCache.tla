-------------------------- MODULE MCSnapshotCache --------------------------
(***************************************************************************)
(* Two processes: one with a reading and a mixed thread, one that writes.     *)
(***************************************************************************)
EXTENDS SnapshotCache

CONSTANTS p1, p2, t1, t2, t3

MCProcOf == (t1 :> p1) @@ (t2 :> p1) @@ (t3 :> p2)
MCOpsOf  == (t1 :> {"read"}) @@ (t2 :> {"read", "rebuild", "mutate", "optimize", "repair"})
            @@ (t3 :> {"transact", "restore"})
MCMaxCalls == (t1 :> 2) @@ (t2 :> 1) @@ (t3 :> 1)
=============================================================================
