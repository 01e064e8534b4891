--------------------------- MODULE RevisionStore ---------------------------
(***************************************************************************)
(* What the revision machinery of one VFS file promises, with no locks, no  *)
(* files and no steps inside a call: a head content that is only ever       *)
(* replaced once it has been kept, and a set of kept revisions that only a  *)
(* retention policy shrinks, never below the head.                          *)
(*   docs/RELEASE_NOTES_1_4_4.md: "Every committed VFS state is identified   *)
(*   by its SHA-256 digest and preserved in a per-VFS object store."         *)
(* VfsCommit is shown to implement this module.                             *)
(***************************************************************************)
CONSTANT Content          \* the byte strings a VFS file can hold

VARIABLES head,           \* the content a reader of the path sees
          kept            \* the revisions that can still be rolled back to

TypeOK == head \in Content /\ kept \subseteq Content

Init == head \in Content /\ kept = {}

\* The head becomes a revision (record_current, ensure_current_recorded).
Keep == kept' = kept \cup {head} /\ UNCHANGED head

\* A commit or a rollback: the content it displaces has been kept before.
Commit == head \in kept /\ head' \in Content /\ UNCHANGED kept

\* Retention (prune_revisions) drops old revisions and never the head.
Forget == /\ kept' \subseteq kept
          /\ head \in kept => head \in kept'
          /\ UNCHANGED head

Next == Keep \/ Commit \/ Forget

Spec == Init /\ [][Next]_<<head, kept>>
=============================================================================
