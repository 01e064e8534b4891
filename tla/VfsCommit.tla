----------------------------- MODULE VfsCommit -----------------------------
(***************************************************************************)
(* One VFS file, its .bak companion, its immutable revision objects and its *)
(* revision timeline, shared by processes that run the operations of        *)
(* transaction.py and revisions.py: mutate, repair_mutate, restore_backup,  *)
(* restore_revision (as engine.rollback_to_revision calls it), the locked   *)
(* prune of compact_vfs, the unlocked prune_revisions of the public API and *)
(* the unlocked ensure_current_recorded of list_revisions and list_files.   *)
(*                                                                         *)
(* A content stands for the bytes and for their SHA-256 digest; the stamp   *)
(* stands for (device, inode, size, mtime_ns).  A step of a process is what *)
(* happens between two accesses to shared files.  Private temporary files   *)
(* are local values: an error unlinks them and a crash leaves a name that   *)
(* nothing reads.                                                           *)
(***************************************************************************)
EXTENDS Naturals, Sequences, SequencesExt

CONSTANTS Procs,        \* OS processes working on the same VFS path
          Content,      \* possible file contents
          NoContent,    \* "the file does not exist"
          Free,         \* nobody holds the write lock
          Kinds,        \* the operations the processes call in this instance
          MaxCalls,     \* bound: calls started
          MaxFaults,    \* bound: I/O errors and process deaths
          MaxForeign,   \* bound: replacements of the file by other programs
          MaxKeep       \* bound: the keep argument of a prune

LockedKinds   == {"mutate", "repair", "restore_backup", "compact"}
UnlockedKinds == {"prune", "observe"}
AllKinds      == LockedKinds \cup UnlockedKinds \cup {"rollback"}

ASSUME ConstantsOK ==
    /\ NoContent \notin Content
    /\ Free \notin Procs
    /\ Kinds \subseteq AllKinds
    /\ MaxCalls \in Nat /\ MaxFaults \in Nat /\ MaxForeign \in Nat
    /\ MaxKeep \in Nat \ {0}

VARIABLES
    \* shared, on disk
    file,        \* [content, stamp] of the VFS path
    backup,      \* content of the .bak file, or NoContent
    objects,     \* revision name -> content of its object, or NoContent
    timeline,    \* timeline.json: the revisions in order (sequence = index)
    lock,        \* holder of vfs_write_lock, or Free
    \* one per process
    pc,          \* the next step
    kind,        \* the operation being executed
    base,        \* the file as mapped: the expected FileIdentity
    dst,         \* the content to install at the path
    digest,      \* the revision being recorded
    phase,       \* "observed": inside ensure_current_recorded; else "committed"
    copied,      \* bytes copied for a new object, not yet linked
    seen,        \* the timeline as loaded, or the entries a prune retains
    victims,     \* objects a prune has still to unlink
    \* what the bounds count
    calls, faults, foreign

disk  == <<file, backup, objects, timeline>>
local == <<kind, base, dst, digest, phase, copied, seen, victims>>
count == <<calls, faults, foreign>>
vars  == <<disk, lock, pc, local, count>>

Labels == {"idle", "wait_lock", "open", "check_map", "digest", "load", "store",
           "link", "append_load", "append", "plan", "precheck", "backup",
           "recheck", "copy_backup", "revalidate", "replace", "prune_load",
           "prune_write", "glob", "unlink", "unlock"}

FileState == [content : Content, stamp : Nat]

TypeOK ==
    /\ file \in FileState
    /\ backup \in Content \cup {NoContent}
    /\ objects \in [Content -> Content \cup {NoContent}]
    /\ timeline \in Seq(Content)
    /\ lock \in Procs \cup {Free}
    /\ pc \in [Procs -> Labels]
    /\ kind \in [Procs -> AllKinds]
    /\ base \in [Procs -> FileState]
    /\ dst \in [Procs -> Content]
    /\ digest \in [Procs -> Content]
    /\ phase \in [Procs -> {"observed", "committed"}]
    /\ copied \in [Procs -> Content]
    /\ seen \in [Procs -> Seq(Content)]
    /\ victims \in [Procs -> SUBSET Content]
    /\ calls \in 0..MaxCalls /\ faults \in 0..MaxFaults /\ foreign \in 0..MaxForeign

(***************************************************************************)
(* A file as make_vfs leaves it: no .bak and no revision recorded yet.      *)
(***************************************************************************)
Init ==
    /\ \E c \in Content :
          /\ file = [content |-> c, stamp |-> 0]
          /\ base = [p \in Procs |-> file]
          /\ dst = [p \in Procs |-> c]
          /\ digest = [p \in Procs |-> c]
          /\ copied = [p \in Procs |-> c]
    /\ backup = NoContent
    /\ objects = [c \in Content |-> NoContent]
    /\ timeline = <<>>
    /\ lock = Free
    /\ pc = [p \in Procs |-> "idle"]
    /\ kind = [p \in Procs |-> "observe"]
    /\ phase = [p \in Procs |-> "observed"]
    /\ seen = [p \in Procs |-> <<>>]
    /\ victims = [p \in Procs |-> {}]
    /\ calls = 0 /\ faults = 0 /\ foreign = 0

-----------------------------------------------------------------------------
Stored   == {r \in Content : objects[r] # NoContent}
Recorded == Range(timeline)
HeadIs(log, r) == log # <<>> /\ Last(log) = r
Retained(log, keep) == IF keep < Len(log)
                       THEN SubSeq(log, Len(log) - keep + 1, Len(log)) ELSE log

At(p, label)   == pc[p] = label
Goto(p, label) == pc' = [pc EXCEPT ![p] = label]

\* Faulty variant: the exception path forgets to unlock.
LeaveForgetsLock(p) == Goto(p, "idle")

\* A return or an exception: a with-block holding the lock is left first.
Leave(p) == Goto(p, IF lock = p THEN "unlock" ELSE "idle")

\* Where ensure_current_recorded returns to.  rollback_to_revision calls it
\* once without the lock and restore_revision again under it.
AfterEnsure(p) ==
    CASE kind[p] = "mutate"                -> "plan"
      [] kind[p] = "rollback"              -> IF lock = p THEN "revalidate" ELSE "wait_lock"
      [] kind[p] \in {"prune", "compact"}  -> "prune_load"
      [] OTHER                             -> "idle"

\* Faulty variant: .bak is not looked for.
CallableAlways(k) == TRUE
\* restore_backup refuses to start without a .bak.
Callable(k) == k = "restore_backup" => backup # NoContent

Begin(p, k) ==
    /\ At(p, "idle") /\ k \in Kinds /\ calls < MaxCalls
    /\ Callable(k)
    /\ IF k = "rollback" THEN \E r \in Stored : dst' = [dst EXCEPT ![p] = r]
                         ELSE UNCHANGED dst
    /\ kind' = [kind EXCEPT ![p] = k]
    /\ calls' = calls + 1
    /\ Goto(p, IF k \in LockedKinds THEN "wait_lock" ELSE "digest")
    /\ UNCHANGED <<disk, lock, base, digest, phase, copied, seen, victims, faults, foreign>>

\* Faulty variant: the lock excludes nobody.
LockIgnored == TRUE
LockAvailable == lock = Free

\* vfs_write_lock: the thread lock and the flock, taken together.
Acquire(p) ==
    /\ At(p, "wait_lock") /\ LockAvailable
    /\ lock' = p
    /\ Goto(p, CASE kind[p] \in {"mutate", "repair"} -> "open"
                 [] kind[p] = "restore_backup"       -> "copy_backup"
                 [] OTHER                            -> "digest")
    /\ UNCHANGED <<disk, local, count>>

Release(p) ==
    /\ At(p, "unlock")
    /\ lock' = Free
    /\ Goto(p, "idle")
    /\ UNCHANGED <<disk, local, count>>

(***************************************************************************)
(* _mapped_consistent_revision: open and map, then compare the path's        *)
(* metadata with the mapping's; a difference is a ConflictError.             *)
(***************************************************************************)
OpenSource(p) ==
    /\ At(p, "open")
    /\ base' = [base EXCEPT ![p] = file]
    /\ Goto(p, "check_map")
    /\ UNCHANGED <<disk, lock, kind, dst, digest, phase, copied, seen, victims, count>>

\* Faulty variant: a newer file passes for the mapped one.
MetadataNotOlder(p) == file.stamp >= base[p].stamp
MetadataMatches(p) == file.stamp = base[p].stamp

\* Faulty variant: mutate goes to its operation without ensure_current_recorded.
CheckMappedNoEnsure(p) ==
    /\ At(p, "check_map")
    /\ IF MetadataMatches(p) THEN Goto(p, "plan") ELSE Leave(p)
    /\ UNCHANGED <<disk, lock, local, count>>

CheckMapped(p) ==
    /\ At(p, "check_map")
    /\ IF MetadataMatches(p)
       THEN Goto(p, IF kind[p] = "mutate" THEN "digest" ELSE "plan")
       ELSE Leave(p)
    /\ UNCHANGED <<disk, lock, local, count>>

(***************************************************************************)
(* ensure_current_recorded: digest of the path, then the timeline's head;    *)
(* the file is recorded as "observed" when the head is another revision.     *)
(***************************************************************************)
TakeDigest(p) ==
    /\ At(p, "digest")
    /\ digest' = [digest EXCEPT ![p] = file.content]
    /\ phase' = [phase EXCEPT ![p] = "observed"]
    /\ Goto(p, "load")
    /\ UNCHANGED <<disk, lock, kind, base, dst, copied, seen, victims, count>>

LoadHead(p) ==
    /\ At(p, "load")
    /\ Goto(p, IF HeadIs(timeline, digest[p]) THEN AfterEnsure(p) ELSE "store")
    /\ UNCHANGED <<disk, lock, local, count>>

(***************************************************************************)
(* _store_object: an existing object is re-hashed; otherwise the path as it  *)
(* is NOW is copied and hashed, and only bytes with the wanted digest are    *)
(* linked (RecoveryError if not; os.link leaves an existing object alone).   *)
(***************************************************************************)
\* Faulty variant: the copy is not hashed before it is linked.
StoreObjectUnchecked(p) ==
    /\ At(p, "store")
    /\ copied' = [copied EXCEPT ![p] = file.content]
    /\ Goto(p, IF digest[p] \in Stored THEN "append_load" ELSE "link")
    /\ UNCHANGED <<disk, lock, kind, base, dst, digest, phase, seen, victims, count>>

StoreObject(p) ==
    /\ At(p, "store")
    /\ copied' = [copied EXCEPT ![p] = file.content]
    /\ IF digest[p] \in Stored
       THEN IF objects[digest[p]] = digest[p] THEN Goto(p, "append_load") ELSE Leave(p)
       ELSE IF file.content = digest[p] THEN Goto(p, "link") ELSE Leave(p)
    /\ UNCHANGED <<disk, lock, kind, base, dst, digest, phase, seen, victims, count>>

\* Faulty variant: a failed os.link is ignored.
LinkObjectSwallowed(p) ==
    /\ At(p, "link")
    /\ Goto(p, "append_load")
    /\ UNCHANGED <<disk, lock, local, count>>

LinkObject(p) ==
    /\ At(p, "link")
    /\ objects' = IF digest[p] \in Stored THEN objects
                  ELSE [objects EXCEPT ![digest[p]] = copied[p]]
    /\ Goto(p, "append_load")
    /\ UNCHANGED <<file, backup, timeline, lock, local, count>>

\* record_current loads the timeline again; a second observation of the head
\* is not entered twice.
LoadTimeline(p) ==
    /\ At(p, "append_load")
    /\ seen' = [seen EXCEPT ![p] = timeline]
    /\ Goto(p, IF phase[p] = "observed" /\ HeadIs(timeline, digest[p])
               THEN AfterEnsure(p) ELSE "append")
    /\ UNCHANGED <<disk, lock, kind, base, dst, digest, phase, copied, victims, count>>

\* Faulty variant: an entry is dropped when ANY earlier entry is the revision.
AppendRevisionOnce(p) ==
    /\ At(p, "append")
    /\ timeline' = IF digest[p] \in Range(seen[p]) THEN seen[p] ELSE Append(seen[p], digest[p])
    /\ Goto(p, IF phase[p] = "observed" THEN AfterEnsure(p) ELSE "unlock")
    /\ UNCHANGED <<file, backup, objects, lock, local, count>>

\* _write_timeline replaces the whole file: what was loaded, plus the new entry.
AppendRevision(p) ==
    /\ At(p, "append")
    /\ timeline' = Append(seen[p], digest[p])
    /\ Goto(p, IF phase[p] = "observed" THEN AfterEnsure(p) ELSE "unlock")
    /\ UNCHANGED <<file, backup, objects, lock, local, count>>

(***************************************************************************)
(* operation(source) makes the plan, or raises (locked record, duplicate,    *)
(* failed transaction call) and nothing is written.                         *)
(***************************************************************************)
MakePlan(p) ==
    /\ At(p, "plan")
    /\ \/ \E c \in Content : dst' = [dst EXCEPT ![p] = c] /\ Goto(p, "precheck")
       \/ Leave(p) /\ UNCHANGED dst
    /\ UNCHANGED <<disk, lock, kind, base, digest, phase, copied, seen, victims, count>>

(***************************************************************************)
(* atomic_replace_plan: metadata check, .bak, temporary file, metadata check *)
(* again, os.replace.  The temporary file is private, so writing it and the  *)
(* second check are one step.                                               *)
(***************************************************************************)
Precheck(p) ==
    /\ At(p, "precheck")
    /\ IF MetadataMatches(p) THEN Goto(p, "backup") ELSE Leave(p)
    /\ UNCHANGED <<disk, lock, local, count>>

InstallBackup(p) ==
    /\ At(p, "backup")
    /\ backup' = file.content
    /\ Goto(p, "recheck")
    /\ UNCHANGED <<file, objects, timeline, lock, local, count>>

Recheck(p) ==
    /\ At(p, "recheck")
    /\ IF MetadataMatches(p) THEN Goto(p, "replace") ELSE Leave(p)
    /\ UNCHANGED <<disk, lock, local, count>>

\* restore_backup copies .bak aside; it neither records nor moves the .bak.
CopyBackup(p) ==
    /\ At(p, "copy_backup")
    /\ dst' = [dst EXCEPT ![p] = backup]
    /\ Goto(p, "replace")
    /\ UNCHANGED <<disk, lock, kind, base, digest, phase, copied, seen, victims, count>>

\* restore_revision checks its target again under the lock and copies it.
Revalidate(p) ==
    /\ At(p, "revalidate")
    /\ IF objects[dst[p]] = dst[p] THEN Goto(p, "replace") ELSE Leave(p)
    /\ UNCHANGED <<disk, lock, local, count>>

\* os.replace.  All but restore_backup record the new head with its known digest.
Replace(p) ==
    /\ At(p, "replace")
    /\ file' = [content |-> dst[p], stamp |-> file.stamp + 1]
    /\ IF kind[p] = "restore_backup"
       THEN Goto(p, "unlock") /\ UNCHANGED <<digest, phase>>
       ELSE /\ digest' = [digest EXCEPT ![p] = dst[p]]
            /\ phase' = [phase EXCEPT ![p] = "committed"]
            /\ Goto(p, "store")
    /\ UNCHANGED <<backup, objects, timeline, lock, kind, base, dst, copied, seen, victims, count>>

(***************************************************************************)
(* prune_revisions after its ensure_current_recorded: the newest entries are *)
(* published, then every object they do not name is unlinked one by one.     *)
(***************************************************************************)
PruneLoad(p) ==
    /\ At(p, "prune_load")
    /\ \E keep \in 1..MaxKeep : seen' = [seen EXCEPT ![p] = Retained(timeline, keep)]
    /\ Goto(p, "prune_write")
    /\ UNCHANGED <<disk, lock, kind, base, dst, digest, phase, copied, victims, count>>

PruneWrite(p) ==
    /\ At(p, "prune_write")
    /\ timeline' = seen[p]
    /\ Goto(p, "glob")
    /\ UNCHANGED <<file, backup, objects, lock, local, count>>

\* Faulty variant: only the newest entry's object is spared.
ListVictimsTooMany(p) ==
    /\ At(p, "glob")
    /\ victims' = [victims EXCEPT ![p] = Stored \ {Last(seen[p])}]
    /\ Goto(p, "unlink")
    /\ UNCHANGED <<disk, lock, kind, base, dst, digest, phase, copied, seen, count>>

ListVictims(p) ==
    /\ At(p, "glob")
    /\ victims' = [victims EXCEPT ![p] = Stored \ Range(seen[p])]
    /\ Goto(p, "unlink")
    /\ UNCHANGED <<disk, lock, kind, base, dst, digest, phase, copied, seen, count>>

\* An object another prune removed first is a FileNotFoundError.
UnlinkObject(p) ==
    /\ At(p, "unlink")
    /\ \E r \in victims[p] :
          /\ victims' = [victims EXCEPT ![p] = @ \ {r}]
          /\ objects' = [objects EXCEPT ![r] = NoContent]
          /\ IF r \in Stored THEN UNCHANGED pc ELSE Leave(p)
    /\ UNCHANGED <<file, backup, timeline, lock, kind, base, dst, digest, phase, copied, seen, count>>

PruneDone(p) ==
    /\ At(p, "unlink") /\ victims[p] = {}
    /\ Leave(p)
    /\ UNCHANGED <<disk, lock, local, count>>

(***************************************************************************)
(* The environment.                                                        *)
(***************************************************************************)
\* An OSError (disk full, fsync failure) at any step.  After the replacement it
\* is the deferred recording of mutate, or the exception of restore_revision.
Fail(p) ==
    /\ pc[p] \notin {"idle", "wait_lock", "unlock"} /\ faults < MaxFaults
    /\ faults' = faults + 1
    /\ Leave(p)
    /\ UNCHANGED <<disk, lock, local, calls, foreign>>

\* The process dies between two steps; the kernel drops its flock.
Crash(p) ==
    /\ pc[p] # "idle" /\ faults < MaxFaults
    /\ faults' = faults + 1
    /\ lock' = IF lock = p THEN Free ELSE lock
    /\ Goto(p, "idle")
    /\ UNCHANGED <<disk, local, calls, foreign>>

\* A program that ignores the lock replaces the file (why metadata is compared).
Foreign(c) ==
    /\ foreign < MaxForeign
    /\ foreign' = foreign + 1
    /\ file' = [content |-> c, stamp |-> file.stamp + 1]
    /\ UNCHANGED <<backup, objects, timeline, lock, pc, local, calls, faults>>

-----------------------------------------------------------------------------
Ensure(p)  == TakeDigest(p) \/ LoadHead(p)
Record(p)  == StoreObject(p) \/ LinkObject(p) \/ LoadTimeline(p) \/ AppendRevision(p)
Prepare(p) == OpenSource(p) \/ CheckMapped(p) \/ MakePlan(p)
              \/ CopyBackup(p) \/ Revalidate(p)
Install(p) == Precheck(p) \/ InstallBackup(p) \/ Recheck(p) \/ Replace(p)
Prune(p)   == PruneLoad(p) \/ PruneWrite(p) \/ ListVictims(p) \/ UnlinkObject(p)
              \/ PruneDone(p)

Step(p) == Acquire(p) \/ Release(p) \/ Ensure(p) \/ Record(p) \/ Prepare(p)
           \/ Install(p) \/ Prune(p)

Call(p) == \E k \in Kinds : Begin(p, k)

\* No call is running and none will start: the only state in which to stop.
Quiescent == (\A p \in Procs : At(p, "idle")) /\ UNCHANGED vars

Next == \/ \E p \in Procs : Call(p) \/ Step(p) \/ Fail(p) \/ Crash(p)
        \/ \E c \in Content : Foreign(c)
        \/ Quiescent

Spec == Init /\ [][Next]_vars

\* A thread that has started a call keeps running, unless the process dies.
FairSpec == Spec /\ \A p \in Procs : WF_vars(Step(p))

-----------------------------------------------------------------------------
(***************************************************************************)
(* Properties.                                                             *)
(***************************************************************************)
\* No timeline entry names a revision whose object is gone: retention
\* publishes the shorter timeline first and unlinks objects afterwards
\* (revisions.py prune_revisions), whatever is interrupted in between.
TimelineBacked == Recorded \subseteq Stored

TrueToName == \A r \in Stored : objects[r] = r

\* Every variable has its type, and an object never holds bytes other than the
\* ones it is named after, although the path it is copied from can be replaced
\* between hash and copy.
ObjectsIntact == TypeOK /\ TrueToName

\* A call that reaches os.replace prepared its file from what the path still
\* holds, .bak holds exactly the content about to be displaced and, for a
\* mutate, that content is a stored revision.
CommitIsPrepared ==
    [][\A p \in Procs :
          (pc[p] # "replace" /\ pc'[p] = "replace" /\ kind[p] \in {"mutate", "repair"})
          => /\ file = base[p]
             /\ backup = base[p].content
             /\ kind[p] = "mutate" => base[p].content \in Stored]_vars

\* Entries of the timeline are never rewritten: a write appends, or keeps a
\* most recent part (docs/REVISION_MODEL_1_4.md:12).
TimelineAppendsOrForgets ==
    [][IsPrefix(timeline, timeline') \/ IsSuffix(timeline', timeline)]_timeline

\* With no call in the critical section and no fault so far, the head of the
\* timeline is the content of the file (docs/REVISION_MODEL_1_4.md:14).
HeadIsCurrent ==
    (lock = Free /\ faults = 0) => timeline = <<>> \/ HeadIs(timeline, file.content)

\* Every started call ends, so the write lock is never held for ever.
EveryCallReturns == \A p \in Procs : ~At(p, "idle") ~> At(p, "idle")

\* The revision store that the file, the objects and the timeline implement.
Store == INSTANCE RevisionStore WITH head <- file.content, kept <- Recorded \cap Stored
RefinesRevisionStore == Store!Spec

(***************************************************************************)
(* The inductive invariants (proofs in VfsCommit_proofs).                   *)
(***************************************************************************)
\* A restore_backup under way still finds the .bak it saw before it locked:
\* nothing ever removes a .bak.  TypeOK is not inductive without it.
BackupStays ==
    \A p \in Procs :
        /\ pc[p] = "copy_backup" => kind[p] = "restore_backup"
        /\ (pc[p] \in {"wait_lock", "copy_backup"} /\ kind[p] = "restore_backup")
              => backup # NoContent

\* Bytes are hashed before they are linked, whoever replaces the path meanwhile.
CopyVerified == \A p \in Procs : pc[p] = "link" => copied[p] = digest[p]
IntactInv == TrueToName /\ CopyVerified

\* Only operations of this instance run.
RunningKind == \A p \in Procs : pc[p] # "idle" => kind[p] \in Kinds

Critical == Labels \ {"idle", "wait_lock"}

\* Only the lock holder is past wait_lock when no unlocked operation runs.
OneInside == \A p \in Procs : pc[p] \in Critical => lock = p

\* What a process in the critical section knows of the store at each step.
InsideKnows ==
    \A p \in Procs :
        /\ pc[p] \in {"append_load", "append"} => digest[p] \in Stored
        /\ pc[p] = "append" => seen[p] = timeline
        /\ pc[p] = "prune_write" => Range(seen[p]) \subseteq Recorded
        /\ pc[p] = "glob" => seen[p] = timeline
        /\ pc[p] = "unlink" => victims[p] \cap Recorded = {}

CommitInv == RunningKind /\ OneInside /\ InsideKnows /\ TimelineBacked

\* What it knows of the head, when it is a mutate or a compact: the digest it
\* records is the file's, and the file is the recorded head before any change.
HeadKnown ==
    \A p \in Procs :
        /\ pc[p] \in {"open", "check_map"} => kind[p] \in {"mutate", "repair"}
        /\ pc[p] \in {"load", "store", "link", "append_load", "append"}
              => digest[p] = file.content
        /\ pc[p] \in {"plan", "precheck", "backup", "recheck", "revalidate", "replace",
                      "prune_load", "prune_write"} => HeadIs(timeline, file.content)
        /\ pc[p] = "prune_write" => HeadIs(seen[p], file.content)

StoreInv == CommitInv /\ HeadKnown
=============================================================================
