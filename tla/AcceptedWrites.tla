--------------------------- MODULE AcceptedWrites ---------------------------
(***************************************************************************)
(* What write batching promises its callers, with no threads, no timers, no  *)
(* batch numbers and no steps inside a call: an accepted write stands in the *)
(* queue of its VFS, or with those that somebody has taken from the queue,   *)
(* until all that were taken together are in the VFS, in the order in which  *)
(* they were accepted, or all of them are given up and said to be lost.      *)
(*   batching.py, _run_batch: "The VFS is already durable; metadata remains  *)
(*   advisory and rebuildable."                                              *)
(* WriteBatching is shown to implement this module.                          *)
(***************************************************************************)
EXTENDS Sequences, SequencesExt

CONSTANTS Files,        \* the VFS files
          Writes        \* the mutations that can be asked for

VARIABLES log,          \* file -> the writes in it, in the order they were applied
          queued,       \* file -> the writes accepted for it and not taken yet
          taken,        \* what is being committed: [file, writes]
          lost          \* the writes whose caller is told that they failed

Group == [file : Files, writes : Seq(Writes)]

TypeOK == /\ log \in [Files -> Seq(Writes)] /\ queued \in [Files -> Seq(Writes)]
          /\ taken \subseteq Group /\ lost \subseteq Writes

Init == /\ log = [f \in Files |-> <<>>] /\ queued = log
        /\ taken = {} /\ lost = {}

\* Every write is asked for once.
Known == (UNION {Range(log[f]) \cup Range(queued[f]) : f \in Files})
            \cup (UNION {Range(g.writes) : g \in taken}) \cup lost

Accept(f, w) == /\ w \notin Known
                /\ queued' = [queued EXCEPT ![f] = Append(@, w)]
                /\ UNCHANGED <<log, taken, lost>>

Take(f) == /\ queued[f] # <<>>
           /\ taken' = taken \cup {[file |-> f, writes |-> queued[f]]}
           /\ queued' = [queued EXCEPT ![f] = <<>>]
           /\ UNCHANGED <<log, lost>>

Apply(g) == /\ log' = [log EXCEPT ![g.file] = @ \o g.writes]
            /\ taken' = taken \ {g}
            /\ UNCHANGED <<queued, lost>>

GiveUp(g) == /\ lost' = lost \cup Range(g.writes)
             /\ taken' = taken \ {g}
             /\ UNCHANGED <<log, queued>>

\* A call that does not go through the queue.
Bypass(f, w) == /\ w \notin Known
                /\ log' = [log EXCEPT ![f] = Append(@, w)]
                /\ UNCHANGED <<queued, taken, lost>>

Next == \/ \E f \in Files, w \in Writes : Accept(f, w) \/ Bypass(f, w)
        \/ \E f \in Files : Take(f)
        \/ \E g \in taken : Apply(g) \/ GiveUp(g)

Spec == Init /\ [][Next]_<<log, queued, taken, lost>>
=============================================================================
