-------------------------- MODULE VfsCommit_proofs --------------------------
(***************************************************************************)
(* Machine-checked theorems about VfsCommit, for every set of processes and  *)
(* contents and every bound.                                                *)
(***************************************************************************)
EXTENDS VfsCommit, SequenceTheorems, TLAPS

(***************************************************************************)
(* What prune_revisions retains: revisions of the log, the newest of them    *)
(* last, and at least that one because keep is positive.                    *)
(***************************************************************************)
LEMMA RetainedFacts ==
  ASSUME NEW log \in Seq(Content), NEW keep \in Nat \ {0}
  PROVE  /\ Retained(log, keep) \in Seq(Content)
         /\ Range(Retained(log, keep)) \subseteq Range(log)
         /\ \A r : HeadIs(log, r) => HeadIs(Retained(log, keep), r)
<1>1. CASE ~(keep < Len(log))
  BY <1>1 DEF Retained
<1>2. CASE keep < Len(log)
  <2> DEFINE m == Len(log) - keep + 1
             n == Len(log)
             s == SubSeq(log, m, n)
  <2>1. m \in 1..n /\ n \in Nat /\ keep <= n
    BY <1>2
  <2>2. /\ s \in Seq(Content)
        /\ Len(s) = keep
        /\ \A i \in 1..keep : s[i] = log[m+i-1]
    <3>1. \A i \in m..n : log[i] \in Content
      BY <2>1
    <3> HIDE DEF m, n
    <3>2. /\ s \in Seq(Content)
          /\ Len(s) = IF m <= n THEN n-m+1 ELSE 0
          /\ \A i \in 1..n-m+1 : s[i] = log[m+i-1]
      BY <2>1, <3>1, SubSeqProperties
    <3>3. n-m+1 = keep /\ m <= n
      BY <2>1 DEF m, n
    <3> QED BY <3>2, <3>3
  <2>3. Range(s) \subseteq Range(log)
    <3>1. DOMAIN s = 1..keep /\ DOMAIN log = 1..n
      BY <2>2
    <3>2. \A i \in 1..keep : m+i-1 \in 1..n
      BY <2>1
    <3> HIDE DEF m, n, s
    <3> QED BY <2>2, <3>1, <3>2 DEF Range
  <2>4. s[keep] = log[n]
    BY <2>1, <2>2
  <2>5. Retained(log, keep) = s
    BY <1>2 DEF Retained
  <2>6. \A r : HeadIs(log, r) => HeadIs(s, r)
    BY <2>1, <2>2, <2>4 DEF HeadIs, Last
  <2> QED BY <2>2, <2>3, <2>5, <2>6
<1> QED BY <1>1, <1>2

\* Appending an entry: its revision becomes the head and is recorded.
LEMMA AppendFacts ==
  ASSUME NEW log \in Seq(Content), NEW r \in Content
  PROVE  /\ Append(log, r) \in Seq(Content)
         /\ Range(Append(log, r)) = Range(log) \cup {r}
         /\ HeadIs(Append(log, r), r)
<1>1. /\ Append(log, r) \in Seq(Content)
      /\ Append(log, r) # <<>>
      /\ Len(Append(log, r)) = Len(log) + 1
      /\ \A i \in 1..Len(log) : Append(log, r)[i] = log[i]
      /\ Append(log, r)[Len(log) + 1] = r
  BY AppendProperties
<1>2. DOMAIN Append(log, r) = 1..(Len(log) + 1) /\ DOMAIN log = 1..Len(log)
  BY <1>1
<1>3. Range(Append(log, r)) = Range(log) \cup {r}
  BY <1>1, <1>2 DEF Range
<1> QED BY <1>1, <1>3 DEF HeadIs, Last

\* The head of a log is one of its entries.
LEMMA HeadInRange ==
  ASSUME NEW log \in Seq(Content), NEW r, HeadIs(log, r)
  PROVE  r \in Range(log)
BY DEF HeadIs, Last, Range

(***************************************************************************)
(* Type correctness.                                                       *)
(***************************************************************************)
TypeInv == TypeOK /\ BackupStays

\* The types hold at the start.
LEMMA InitTyped == Init => TypeInv
BY ConstantsOK DEF Init, TypeInv, TypeOK, BackupStays, FileState, AllKinds, UnlockedKinds, Labels

\* Where a call goes on after its revision store is ensured.
LEMMA AfterEnsureLabel ==
  ASSUME NEW p \in Procs
  PROVE  AfterEnsure(p) \in Labels \ {"copy_backup"}
           /\ (AfterEnsure(p) = "wait_lock" => kind[p] = "rollback")
BY DEF AfterEnsure, Labels

\* Every step of every call keeps the types and a needed .bak in place.
LEMMA StepTyped == TypeInv /\ [Next]_vars => TypeInv'
<1> SUFFICES ASSUME TypeInv, [Next]_vars PROVE TypeInv'
  OBVIOUS
<1> USE ConstantsOK DEF TypeInv, TypeOK, BackupStays, At, Goto, Leave
<1>1. ASSUME NEW p \in Procs, Call(p) PROVE TypeInv'
  <2> PICK k \in Kinds : Begin(p, k)
    BY <1>1 DEF Call
  <2>1. dst' \in [Procs -> Content] /\ pc' \in [Procs -> Labels] /\ kind' \in [Procs -> AllKinds]
    BY DEF Begin, Labels, Stored
  <2>2. BackupStays'
    BY DEF Begin, Callable, disk, AllKinds, LockedKinds, UnlockedKinds
  <2> QED BY <2>1, <2>2 DEF Begin, disk
<1>2. ASSUME NEW p \in Procs, Acquire(p) PROVE TypeInv'
  BY <1>2 DEF Acquire, Labels, disk, local, count
<1>3. ASSUME NEW p \in Procs, Release(p) PROVE TypeInv'
  BY <1>3 DEF Release, Labels, disk, local, count
<1>4. ASSUME NEW p \in Procs, OpenSource(p) PROVE TypeInv'
  BY <1>4 DEF OpenSource, Labels, disk, local, count
<1>5. ASSUME NEW p \in Procs, CheckMapped(p) PROVE TypeInv'
  BY <1>5 DEF CheckMapped, Labels, disk, local, count
<1>6. ASSUME NEW p \in Procs, TakeDigest(p) PROVE TypeInv'
  <2>1. digest' \in [Procs -> Content] /\ phase' \in [Procs -> {"observed", "committed"}]
    BY <1>6 DEF TakeDigest, FileState
  <2>2. pc' = [pc EXCEPT ![p] = "load"] /\ "load" \in Labels
    BY <1>6 DEF TakeDigest, Labels
  <2> QED BY <1>6, <2>1, <2>2 DEF TakeDigest, disk, count
<1>7. ASSUME NEW p \in Procs, LoadHead(p) PROVE TypeInv'
  BY <1>7, AfterEnsureLabel DEF LoadHead, Labels, disk, local, count
<1>8. ASSUME NEW p \in Procs, StoreObject(p) PROVE TypeInv'
  <2>1. copied' \in [Procs -> Content]
    BY <1>8 DEF StoreObject, FileState
  <2>2. \E l \in Labels \ {"wait_lock", "copy_backup"} : pc' = [pc EXCEPT ![p] = l]
    BY <1>8 DEF StoreObject, Labels
  <2> QED BY <1>8, <2>1, <2>2 DEF StoreObject, disk, count
<1>9. ASSUME NEW p \in Procs, LinkObject(p) PROVE TypeInv'
  BY <1>9 DEF LinkObject, Labels, disk, local, count
<1>10. ASSUME NEW p \in Procs, LoadTimeline(p) PROVE TypeInv'
  BY <1>10, AfterEnsureLabel DEF LoadTimeline, Labels, disk, local, count
<1>11. ASSUME NEW p \in Procs, AppendRevision(p) PROVE TypeInv'
  BY <1>11, AppendFacts, AfterEnsureLabel DEF AppendRevision, Labels, disk, local, count
<1>12. ASSUME NEW p \in Procs, MakePlan(p) PROVE TypeInv'
  <2>1. dst' \in [Procs -> Content]
    BY <1>12 DEF MakePlan
  <2>2. \E l \in Labels \ {"wait_lock", "copy_backup"} : pc' = [pc EXCEPT ![p] = l]
    BY <1>12 DEF MakePlan, Labels
  <2> QED BY <1>12, <2>1, <2>2 DEF MakePlan, disk, count
<1>13. ASSUME NEW p \in Procs, CopyBackup(p) PROVE TypeInv'
  BY <1>13 DEF CopyBackup, Labels, disk, local, count
<1>14. ASSUME NEW p \in Procs, Revalidate(p) PROVE TypeInv'
  BY <1>14 DEF Revalidate, Labels, disk, local, count
<1>15. ASSUME NEW p \in Procs, Precheck(p) PROVE TypeInv'
  BY <1>15 DEF Precheck, Labels, disk, local, count
<1>16. ASSUME NEW p \in Procs, InstallBackup(p) PROVE TypeInv'
  <2>1. backup' \in Content
    BY <1>16 DEF InstallBackup, FileState
  <2>2. pc' = [pc EXCEPT ![p] = "recheck"] /\ "recheck" \in Labels
    BY <1>16 DEF InstallBackup, Labels
  <2> QED BY <1>16, <2>1, <2>2 DEF InstallBackup, local, count
<1>17. ASSUME NEW p \in Procs, Recheck(p) PROVE TypeInv'
  BY <1>17 DEF Recheck, Labels, disk, local, count
<1>18. ASSUME NEW p \in Procs, Replace(p) PROVE TypeInv'
  <2>1. file' \in FileState
    BY <1>18 DEF Replace, FileState
  <2>2. digest' \in [Procs -> Content] /\ phase' \in [Procs -> {"observed", "committed"}]
    BY <1>18 DEF Replace
  <2>3. \E l \in Labels \ {"wait_lock", "copy_backup"} : pc' = [pc EXCEPT ![p] = l]
    BY <1>18 DEF Replace, Labels
  <2> QED BY <1>18, <2>1, <2>2, <2>3 DEF Replace, count
<1>19. ASSUME NEW p \in Procs, PruneLoad(p) PROVE TypeInv'
  <2>1. PICK keep \in 1..MaxKeep : seen' = [seen EXCEPT ![p] = Retained(timeline, keep)]
    BY <1>19 DEF PruneLoad
  <2>2. Retained(timeline, keep) \in Seq(Content)
    <3>1. keep \in Nat \ {0}
      OBVIOUS
    <3> QED BY <3>1, RetainedFacts
  <2>3. seen' \in [Procs -> Seq(Content)]
    BY <2>1, <2>2
  <2>4. pc' = [pc EXCEPT ![p] = "prune_write"] /\ "prune_write" \in Labels
    BY <1>19 DEF PruneLoad, Labels
  <2> QED BY <1>19, <2>3, <2>4 DEF PruneLoad, disk, count
<1>20. ASSUME NEW p \in Procs, PruneWrite(p) PROVE TypeInv'
  BY <1>20 DEF PruneWrite, Labels, disk, local, count
<1>21. ASSUME NEW p \in Procs, ListVictims(p) PROVE TypeInv'
  <2>1. victims' \in [Procs -> SUBSET Content]
    BY <1>21 DEF ListVictims, Stored
  <2>2. pc' = [pc EXCEPT ![p] = "unlink"] /\ "unlink" \in Labels
    BY <1>21 DEF ListVictims, Labels
  <2> QED BY <1>21, <2>1, <2>2 DEF ListVictims, disk, count
<1>22. ASSUME NEW p \in Procs, UnlinkObject(p) PROVE TypeInv'
  BY <1>22 DEF UnlinkObject, Labels, disk, local, count
<1>23. ASSUME NEW p \in Procs, PruneDone(p) PROVE TypeInv'
  BY <1>23 DEF PruneDone, Labels, disk, local, count
<1>24. ASSUME NEW p \in Procs, Fail(p) PROVE TypeInv'
  BY <1>24 DEF Fail, Labels, disk, local, count
<1>25. ASSUME NEW p \in Procs, Crash(p) PROVE TypeInv'
  BY <1>25 DEF Crash, Labels, disk, local, count
<1>26. ASSUME NEW c \in Content, Foreign(c) PROVE TypeInv'
  BY <1>26 DEF Foreign, local, FileState
<1>27. CASE UNCHANGED vars
  BY <1>27 DEF vars, disk, local, count
<1> QED
  BY <1>1, <1>2, <1>3, <1>4, <1>5, <1>6, <1>7, <1>8, <1>9, <1>10, <1>11, <1>12, <1>13, <1>14, <1>15, <1>16, <1>17, <1>18, <1>19, <1>20, <1>21, <1>22, <1>23, <1>24, <1>25, <1>26, <1>27
     DEF Next, Step, Ensure, Record, Prepare, Install, Prune, Quiescent

\* Type correctness, with the .bak fact it needs.
THEOREM TypeCorrect == Spec => []TypeInv
<1>1. Init => TypeInv  BY InitTyped
<1>2. TypeInv /\ [Next]_vars => TypeInv'  BY StepTyped
<1> QED BY <1>1, <1>2, PTL DEF Spec

\* Every variable has its type in every reachable state, for any processes, kinds of
\* calls, faults and bounds.
THEOREM TypeOKHolds == Spec => []TypeOK
<1>1. TypeInv => TypeOK  BY DEF TypeInv
<1> QED BY <1>1, TypeCorrect, PTL

(***************************************************************************)
(* Objects are immutable and hold what they are named after, whatever the    *)
(* operations, their interleaving, the faults and the foreign replacements.  *)
(***************************************************************************)
LEMMA StepIntact == TypeInv /\ IntactInv /\ [Next]_vars => IntactInv'
<1> SUFFICES ASSUME TypeInv, IntactInv, [Next]_vars PROVE IntactInv'
  OBVIOUS
<1> USE DEF TypeInv, TypeOK, IntactInv, TrueToName, CopyVerified, Stored, At, Goto, Leave
<1>0. \A p \in Procs : AfterEnsure(p) \in Labels /\ AfterEnsure(p) # "link"
  BY DEF AfterEnsure, Labels
<1>1. ASSUME NEW p \in Procs, Call(p) PROVE IntactInv'
  BY <1>1 DEF Call, Begin, disk
<1>2. ASSUME NEW p \in Procs, Acquire(p) PROVE IntactInv'
  BY <1>2 DEF Acquire, disk, local, count
<1>3. ASSUME NEW p \in Procs, Release(p) PROVE IntactInv'
  BY <1>3 DEF Release, disk, local, count
<1>4. ASSUME NEW p \in Procs, OpenSource(p) PROVE IntactInv'
  BY <1>4 DEF OpenSource, disk, local, count
<1>5. ASSUME NEW p \in Procs, CheckMapped(p) PROVE IntactInv'
  BY <1>5 DEF CheckMapped, disk, local, count
<1>6. ASSUME NEW p \in Procs, TakeDigest(p) PROVE IntactInv'
  BY <1>6 DEF TakeDigest, disk, local, count
<1>7. ASSUME NEW p \in Procs, LoadHead(p) PROVE IntactInv'
  BY <1>0, <1>7 DEF LoadHead, disk, local, count
<1>8. ASSUME NEW p \in Procs, StoreObject(p) PROVE IntactInv'
  <2>1. pc'[p] = "link" => copied'[p] = digest'[p]
    BY <1>8 DEF StoreObject
  <2> QED BY <1>8, <2>1 DEF StoreObject, disk, count
<1>9. ASSUME NEW p \in Procs, LinkObject(p) PROVE IntactInv'
  BY <1>9 DEF LinkObject, disk, local, count
<1>10. ASSUME NEW p \in Procs, LoadTimeline(p) PROVE IntactInv'
  BY <1>0, <1>10 DEF LoadTimeline, disk, local, count
<1>11. ASSUME NEW p \in Procs, AppendRevision(p) PROVE IntactInv'
  BY <1>0, <1>11 DEF AppendRevision, disk, local, count
<1>12. ASSUME NEW p \in Procs, MakePlan(p) PROVE IntactInv'
  BY <1>12 DEF MakePlan, disk, local, count
<1>13. ASSUME NEW p \in Procs, CopyBackup(p) PROVE IntactInv'
  BY <1>13 DEF CopyBackup, disk, local, count
<1>14. ASSUME NEW p \in Procs, Revalidate(p) PROVE IntactInv'
  BY <1>14 DEF Revalidate, disk, local, count
<1>15. ASSUME NEW p \in Procs, Precheck(p) PROVE IntactInv'
  BY <1>15 DEF Precheck, disk, local, count
<1>16. ASSUME NEW p \in Procs, InstallBackup(p) PROVE IntactInv'
  BY <1>16 DEF InstallBackup, disk, local, count
<1>17. ASSUME NEW p \in Procs, Recheck(p) PROVE IntactInv'
  BY <1>17 DEF Recheck, disk, local, count
<1>18. ASSUME NEW p \in Procs, Replace(p) PROVE IntactInv'
  BY <1>18 DEF Replace, disk, local, count
<1>19. ASSUME NEW p \in Procs, PruneLoad(p) PROVE IntactInv'
  BY <1>19 DEF PruneLoad, disk, local, count
<1>20. ASSUME NEW p \in Procs, PruneWrite(p) PROVE IntactInv'
  BY <1>20 DEF PruneWrite, disk, local, count
<1>21. ASSUME NEW p \in Procs, ListVictims(p) PROVE IntactInv'
  BY <1>21 DEF ListVictims, disk, local, count
<1>22. ASSUME NEW p \in Procs, UnlinkObject(p) PROVE IntactInv'
  BY <1>22 DEF UnlinkObject, disk, local, count
<1>23. ASSUME NEW p \in Procs, PruneDone(p) PROVE IntactInv'
  BY <1>23 DEF PruneDone, disk, local, count
<1>24. ASSUME NEW p \in Procs, Fail(p) PROVE IntactInv'
  BY <1>24 DEF Fail, disk, local, count
<1>25. ASSUME NEW p \in Procs, Crash(p) PROVE IntactInv'
  BY <1>25 DEF Crash, disk, local, count
<1>26. ASSUME NEW c \in Content, Foreign(c) PROVE IntactInv'
  BY <1>26 DEF Foreign, local
<1>27. CASE UNCHANGED vars
  BY <1>27 DEF vars, disk, local, count
<1> QED
  BY <1>1, <1>2, <1>3, <1>4, <1>5, <1>6, <1>7, <1>8, <1>9, <1>10, <1>11, <1>12, <1>13, <1>14, <1>15, <1>16, <1>17, <1>18, <1>19, <1>20, <1>21, <1>22, <1>23, <1>24, <1>25, <1>26, <1>27
     DEF Next, Step, Ensure, Record, Prepare, Install, Prune, Quiescent

\* For every instance: every variable has its type, and an object never holds bytes that do not
\* hash to its name.
THEOREM ObjectsStayIntact == Spec => []ObjectsIntact
<1>1. Init => IntactInv
  BY DEF Init, IntactInv, TrueToName, CopyVerified, Stored
<1>2. TypeInv /\ IntactInv /\ [Next]_vars => IntactInv'
  BY StepIntact
<1>3. TypeInv /\ IntactInv => ObjectsIntact
  BY DEF TypeInv, IntactInv, ObjectsIntact
<1> QED BY <1>1, <1>2, <1>3, TypeCorrect, PTL DEF Spec

(***************************************************************************)
(* When every operation takes the lock (mutate, repair, restore_backup and   *)
(* the prune of compact_vfs), the timeline never names a missing object.     *)
(***************************************************************************)
\* A step in the critical section that touches neither objects nor timeline.
LEMMA QuietStep ==
  ASSUME TypeInv, CommitInv, NEW p \in Procs, pc[p] \in Critical,
         NEW l \in Critical \ {"append_load", "append", "prune_write", "glob", "unlink"},
         pc' = [pc EXCEPT ![p] = l], UNCHANGED <<objects, timeline, lock, kind>>,
         \A q \in Procs \ {p} : /\ seen'[q] = seen[q]
                                /\ digest'[q] = digest[q]
                                /\ victims'[q] = victims[q]
  PROVE  CommitInv'
BY DEF TypeInv, TypeOK, CommitInv, RunningKind, OneInside, InsideKnows, TimelineBacked,
       Stored, Recorded, Critical, Labels

\* Every step keeps the commit invariant when all calls take the lock.
LEMMA StepCommit ==
  ASSUME Kinds \subseteq LockedKinds
  PROVE  TypeInv /\ CommitInv /\ [Next]_vars => CommitInv'
<1> SUFFICES ASSUME TypeInv, CommitInv, [Next]_vars PROVE CommitInv'
  OBVIOUS
<1> USE DEF TypeInv, TypeOK, CommitInv, RunningKind, OneInside, InsideKnows,
            TimelineBacked, Stored, Recorded, Critical, Labels, LockedKinds, At, Goto, Leave
<1>0. \A p \in Procs : AfterEnsure(p) \in {"plan", "revalidate", "wait_lock", "prune_load", "idle"}
  BY DEF AfterEnsure
<1>1. ASSUME NEW p \in Procs, Call(p) PROVE CommitInv'
  BY <1>1 DEF Call, Begin, disk
<1>2. ASSUME NEW p \in Procs, Acquire(p) PROVE CommitInv'
  <2>1. \E l \in {"open", "copy_backup", "digest"} : pc' = [pc EXCEPT ![p] = l]
    BY <1>2 DEF Acquire
  <2>2. \A q \in Procs : pc[q] \notin Critical
    BY <1>2, ConstantsOK DEF Acquire, LockAvailable
  <2> QED BY <1>2, <2>1, <2>2 DEF Acquire, disk, local, count
<1>3. ASSUME NEW p \in Procs, Release(p) PROVE CommitInv'
  BY <1>3 DEF Release, disk, local, count
<1>4. ASSUME NEW p \in Procs, OpenSource(p) PROVE CommitInv'
  BY <1>4 DEF OpenSource, disk, local, count
<1>5. ASSUME NEW p \in Procs, CheckMapped(p) PROVE CommitInv'
  <2>1. \E l \in {"digest", "plan", "unlock"} : pc' = [pc EXCEPT ![p] = l]
    BY <1>5 DEF CheckMapped
  <2> QED BY <1>5, <2>1, QuietStep DEF CheckMapped, disk, local, count
<1>6. ASSUME NEW p \in Procs, TakeDigest(p) PROVE CommitInv'
  BY <1>6 DEF TakeDigest, disk, local, count
<1>7. ASSUME NEW p \in Procs, LoadHead(p) PROVE CommitInv'
  BY <1>0, <1>7 DEF LoadHead, disk, local, count
<1>8. ASSUME NEW p \in Procs, StoreObject(p) PROVE CommitInv'
  <2>1. lock = p
    BY <1>8 DEF StoreObject
  <2>2. /\ \E l \in {"append_load", "link", "unlock"} : pc' = [pc EXCEPT ![p] = l]
        /\ pc'[p] = "append_load" => digest[p] \in Stored
    BY <1>8, <2>1 DEF StoreObject
  <2> QED BY <1>8, <2>1, <2>2 DEF StoreObject, disk, count
<1>9. ASSUME NEW p \in Procs, LinkObject(p) PROVE CommitInv'
  <2>1. lock = p /\ copied[p] \in Content /\ digest[p] \in Content
    BY <1>9 DEF LinkObject
  <2>2. Stored' = Stored \cup {digest[p]}
    BY <1>9, <2>1, ConstantsOK DEF LinkObject
  <2> HIDE DEF Stored
  <2> QED BY <1>9, <2>1, <2>2 DEF LinkObject, local, count
<1>10. ASSUME NEW p \in Procs, LoadTimeline(p) PROVE CommitInv'
  BY <1>0, <1>10 DEF LoadTimeline, disk, local, count
<1>11. ASSUME NEW p \in Procs, AppendRevision(p) PROVE CommitInv'
  <2>1. seen[p] = timeline /\ digest[p] \in Stored /\ lock = p
    BY <1>11 DEF AppendRevision
  <2>2. Recorded' = Recorded \cup {digest[p]}
    BY <1>11, <2>1, AppendFacts DEF AppendRevision
  <2>3. TimelineBacked'
    BY <1>11, <2>1, <2>2 DEF AppendRevision
  <2>4. pc' = [pc EXCEPT ![p] = pc'[p]] /\ pc'[p] \in {"plan", "revalidate", "wait_lock", "prune_load", "idle", "unlock"}
    BY <1>0, <1>11 DEF AppendRevision
  <2> QED BY <1>11, <2>1, <2>3, <2>4 DEF AppendRevision, local, count
<1>12. ASSUME NEW p \in Procs, MakePlan(p) PROVE CommitInv'
  <2>1. \E l \in {"precheck", "unlock"} : pc' = [pc EXCEPT ![p] = l]
    BY <1>12 DEF MakePlan
  <2> QED BY <1>12, <2>1, QuietStep DEF MakePlan, disk, local, count
<1>13. ASSUME NEW p \in Procs, CopyBackup(p) PROVE CommitInv'
  BY <1>13 DEF CopyBackup, disk, local, count
<1>14. ASSUME NEW p \in Procs, Revalidate(p) PROVE CommitInv'
  <2>1. \E l \in {"replace", "unlock"} : pc' = [pc EXCEPT ![p] = l]
    BY <1>14 DEF Revalidate
  <2> QED BY <1>14, <2>1, QuietStep DEF Revalidate, disk, local, count
<1>15. ASSUME NEW p \in Procs, Precheck(p) PROVE CommitInv'
  <2>1. \E l \in {"backup", "unlock"} : pc' = [pc EXCEPT ![p] = l]
    BY <1>15 DEF Precheck
  <2> QED BY <1>15, <2>1, QuietStep DEF Precheck, disk, local, count
<1>16. ASSUME NEW p \in Procs, InstallBackup(p) PROVE CommitInv'
  BY <1>16 DEF InstallBackup, disk, local, count
<1>17. ASSUME NEW p \in Procs, Recheck(p) PROVE CommitInv'
  <2>1. \E l \in {"replace", "unlock"} : pc' = [pc EXCEPT ![p] = l]
    BY <1>17 DEF Recheck
  <2> QED BY <1>17, <2>1, QuietStep DEF Recheck, disk, local, count
<1>18. ASSUME NEW p \in Procs, Replace(p) PROVE CommitInv'
  <2>1. \E l \in {"store", "unlock"} : pc' = [pc EXCEPT ![p] = l]
    BY <1>18 DEF Replace
  <2>2. \A r \in Procs \ {p} : digest'[r] = digest[r]
    BY <1>18 DEF Replace
  <2> QED BY <1>18, <2>1, <2>2, QuietStep DEF Replace, disk, count
<1>19. ASSUME NEW p \in Procs, PruneLoad(p) PROVE CommitInv'
  <2>1. PICK keep \in 1..MaxKeep : seen' = [seen EXCEPT ![p] = Retained(timeline, keep)]
    BY <1>19 DEF PruneLoad
  <2>2. Range(Retained(timeline, keep)) \subseteq Range(timeline)
    <3>1. keep \in Nat \ {0}
      BY ConstantsOK
    <3> QED BY <3>1, RetainedFacts
  <2> QED BY <1>19, <2>1, <2>2 DEF PruneLoad, disk, count
<1>20. ASSUME NEW p \in Procs, PruneWrite(p) PROVE CommitInv'
  BY <1>20 DEF PruneWrite, disk, local, count
<1>21. ASSUME NEW p \in Procs, ListVictims(p) PROVE CommitInv'
  BY <1>21 DEF ListVictims, disk, local, count
<1>22. ASSUME NEW p \in Procs, UnlinkObject(p) PROVE CommitInv'
  <2>1. lock = p
    BY <1>22 DEF UnlinkObject
  <2>2. PICK r \in victims[p] :
          /\ victims' = [victims EXCEPT ![p] = @ \ {r}]
          /\ objects' = [objects EXCEPT ![r] = NoContent]
          /\ IF r \in Stored THEN UNCHANGED pc ELSE Leave(p)
    BY <1>22 DEF UnlinkObject
  <2>3. r \notin Recorded /\ r \in Content
    BY <1>22, <2>2 DEF UnlinkObject
  <2>4. Stored' = Stored \ {r}
    BY <2>2, <2>3
  <2>5. \E l \in {"unlink", "unlock"} : pc' = [pc EXCEPT ![p] = l]
    BY <1>22, <2>1, <2>2 DEF UnlinkObject
  <2>6. TimelineBacked'
    BY <1>22, <2>3, <2>4 DEF UnlinkObject
  <2>7. victims'[p] \cap Recorded' = {}
    BY <1>22, <2>2 DEF UnlinkObject
  <2>8. UNCHANGED <<timeline, lock, kind, seen, digest>>
    BY <1>22 DEF UnlinkObject
  <2>9. RunningKind' /\ OneInside'
    BY <1>22, <2>1, <2>5, <2>8 DEF UnlinkObject
  <2>10. \A q \in Procs \ {p} : pc'[q] \notin Critical
    BY <1>22, <2>1, <2>5 DEF UnlinkObject
  <2>11. InsideKnows'
    <3> HIDE DEF Stored, Recorded
    <3> QED BY <2>5, <2>7, <2>10
  <2> QED BY <2>6, <2>9, <2>11
<1>23. ASSUME NEW p \in Procs, PruneDone(p) PROVE CommitInv'
  BY <1>23 DEF PruneDone, disk, local, count
<1>24. ASSUME NEW p \in Procs, Fail(p) PROVE CommitInv'
  BY <1>24 DEF Fail, disk, local, count
<1>25. ASSUME NEW p \in Procs, Crash(p) PROVE CommitInv'
  BY <1>25 DEF Crash, disk, local, count
<1>26. ASSUME NEW c \in Content, Foreign(c) PROVE CommitInv'
  BY <1>26 DEF Foreign, local
<1>27. CASE UNCHANGED vars
  BY <1>27 DEF vars, disk, local, count
<1> QED
  BY <1>1, <1>2, <1>3, <1>4, <1>5, <1>6, <1>7, <1>8, <1>9, <1>10, <1>11, <1>12, <1>13, <1>14, <1>15, <1>16, <1>17, <1>18, <1>19, <1>20, <1>21, <1>22, <1>23, <1>24, <1>25, <1>26, <1>27
     DEF Next, Step, Ensure, Record, Prepare, Install, Prune, Quiescent

\* The head object, and every other recorded one, survives whatever is interrupted.
THEOREM LockedTimelineBacked ==
  ASSUME Kinds \subseteq LockedKinds
  PROVE  Spec => []TimelineBacked
<1>1. Init => CommitInv
  BY DEF Init, CommitInv, RunningKind, OneInside, InsideKnows, TimelineBacked, Recorded, Range, Critical
<1>2. TypeInv /\ CommitInv /\ [Next]_vars => CommitInv'
  BY StepCommit
<1>3. CommitInv => TimelineBacked
  BY DEF CommitInv
<1> QED BY <1>1, <1>2, <1>3, TypeCorrect, PTL DEF Spec

(***************************************************************************)
(* The refinement: with mutate and compact as the operations and no program  *)
(* that ignores the lock, the file, the objects and the timeline implement   *)
(* RevisionStore, across any interleaving, I/O error or process death.       *)
(***************************************************************************)
LEMMA StepHead ==
  ASSUME Kinds \subseteq {"mutate", "compact"}, MaxForeign = 0
  PROVE  TypeInv /\ StoreInv /\ [Next]_vars => HeadKnown'
<1> SUFFICES ASSUME TypeInv, StoreInv, [Next]_vars PROVE HeadKnown'
  OBVIOUS
<1> USE DEF TypeInv, TypeOK, BackupStays, StoreInv, CommitInv, RunningKind, OneInside,
            InsideKnows, HeadKnown, Critical, Labels, At, Goto, Leave
<1>0. \A p \in Procs : AfterEnsure(p) \in {"plan", "revalidate", "wait_lock", "prune_load", "idle"}
  BY DEF AfterEnsure
<1>1. ASSUME NEW p \in Procs, Call(p) PROVE HeadKnown'
  BY <1>1 DEF Call, Begin, disk
<1>2. ASSUME NEW p \in Procs, Acquire(p) PROVE HeadKnown'
  <2>1. \A q \in Procs : pc[q] \notin Critical
    BY <1>2, ConstantsOK DEF Acquire, LockAvailable
  <2>2. \/ pc' = [pc EXCEPT ![p] = "open"] /\ kind[p] \in {"mutate", "repair"}
        \/ \E l \in {"copy_backup", "digest"} : pc' = [pc EXCEPT ![p] = l]
    BY <1>2 DEF Acquire
  <2> QED BY <1>2, <2>1, <2>2 DEF Acquire, disk, local, count
<1>3. ASSUME NEW p \in Procs, Release(p) PROVE HeadKnown'
  BY <1>3 DEF Release, disk, local, count
<1>4. ASSUME NEW p \in Procs, OpenSource(p) PROVE HeadKnown'
  BY <1>4 DEF OpenSource, disk, local, count
<1>5. ASSUME NEW p \in Procs, CheckMapped(p) PROVE HeadKnown'
  <2>1. lock = p /\ kind[p] = "mutate"
    BY <1>5 DEF CheckMapped
  <2>2. \E l \in {"digest", "unlock"} : pc' = [pc EXCEPT ![p] = l]
    BY <1>5, <2>1 DEF CheckMapped
  <2> QED BY <1>5, <2>1, <2>2 DEF CheckMapped, disk, local, count
<1>6. ASSUME NEW p \in Procs, TakeDigest(p) PROVE HeadKnown'
  BY <1>6 DEF TakeDigest, disk, local, count
<1>7. ASSUME NEW p \in Procs, LoadHead(p) PROVE HeadKnown'
  <2>1. lock = p /\ pc' = [pc EXCEPT ![p] = pc'[p]]
    BY <1>7 DEF LoadHead
  <2>2. pc'[p] = "store" \/ (pc'[p] = AfterEnsure(p) /\ HeadIs(timeline, file.content))
    BY <1>7, <2>1 DEF LoadHead
  <2>3. \A q \in Procs \ {p} : pc'[q] \in {"idle", "wait_lock"}
    BY <1>7, <2>1
  <2>4. UNCHANGED <<file, timeline, digest, kind>> /\ digest[p] = file.content
    BY <1>7 DEF LoadHead, disk, local
  <2>5. pc'[p] \notin {"open", "check_map", "prune_write"}
    BY <1>0, <2>2
  <2>6. pc'[p] = "store" \/ HeadIs(timeline, file.content)
    BY <2>2
  <2> QED BY <2>3, <2>4, <2>5, <2>6
<1>8. ASSUME NEW p \in Procs, StoreObject(p) PROVE HeadKnown'
  <2>1. lock = p /\ \E l \in {"append_load", "link", "unlock"} : pc' = [pc EXCEPT ![p] = l]
    BY <1>8, <1>0 DEF StoreObject
  <2> QED BY <1>8, <2>1 DEF StoreObject, disk, local, count
<1>9. ASSUME NEW p \in Procs, LinkObject(p) PROVE HeadKnown'
  BY <1>9 DEF LinkObject, disk, local, count
<1>10. ASSUME NEW p \in Procs, LoadTimeline(p) PROVE HeadKnown'
  <2>1. lock = p /\ pc' = [pc EXCEPT ![p] = pc'[p]]
    BY <1>10 DEF LoadTimeline
  <2>2. pc'[p] = "append" \/ (pc'[p] = AfterEnsure(p) /\ HeadIs(timeline, file.content))
    BY <1>10, <2>1 DEF LoadTimeline
  <2>3. \A q \in Procs \ {p} : pc'[q] \in {"idle", "wait_lock"}
    BY <1>10, <2>1
  <2>4. UNCHANGED <<file, timeline, digest, kind>> /\ digest[p] = file.content
    BY <1>10 DEF LoadTimeline, disk
  <2>5. pc'[p] \notin {"open", "check_map", "prune_write"}
    BY <1>0, <2>2
  <2>6. pc'[p] = "append" \/ HeadIs(timeline, file.content)
    BY <2>2
  <2> QED BY <2>3, <2>4, <2>5, <2>6
<1>11. ASSUME NEW p \in Procs, AppendRevision(p) PROVE HeadKnown'
  <2>1. lock = p /\ seen[p] = timeline /\ digest[p] = file.content
    BY <1>11 DEF AppendRevision
  <2>2. HeadIs(timeline', file.content)
    BY <1>11, <2>1, AppendFacts DEF AppendRevision
  <2>3. pc' = [pc EXCEPT ![p] = pc'[p]] /\ pc'[p] \in {"unlock", AfterEnsure(p)}
    BY <1>11 DEF AppendRevision
  <2>4. \A q \in Procs \ {p} : pc'[q] \in {"idle", "wait_lock"}
    BY <1>11, <2>1, <2>3 DEF AppendRevision
  <2>5. UNCHANGED <<file, digest, kind>> /\ digest'[p] = file'.content
    BY <1>11, <2>1 DEF AppendRevision, local
  <2>6. pc'[p] \notin {"open", "check_map", "prune_write"}
    BY <1>0, <2>3
  <2>7. HeadIs(timeline', file'.content)
    BY <2>2, <2>5
  <2> QED BY <2>4, <2>5, <2>6, <2>7
<1>12. ASSUME NEW p \in Procs, MakePlan(p) PROVE HeadKnown'
  <2>1. lock = p /\ \E l \in {"precheck", "unlock"} : pc' = [pc EXCEPT ![p] = l]
    BY <1>12, <1>0 DEF MakePlan
  <2> QED BY <1>12, <2>1 DEF MakePlan, disk, local, count
<1>13. ASSUME NEW p \in Procs, CopyBackup(p) PROVE HeadKnown'
  <2>1. kind[p] = "restore_backup"
    BY <1>13 DEF CopyBackup
  <2> QED BY <1>13, <2>1 DEF CopyBackup
<1>14. ASSUME NEW p \in Procs, Revalidate(p) PROVE HeadKnown'
  <2>1. lock = p /\ \E l \in {"replace", "unlock"} : pc' = [pc EXCEPT ![p] = l]
    BY <1>14, <1>0 DEF Revalidate
  <2> QED BY <1>14, <2>1 DEF Revalidate, disk, local, count
<1>15. ASSUME NEW p \in Procs, Precheck(p) PROVE HeadKnown'
  <2>1. lock = p /\ \E l \in {"backup", "unlock"} : pc' = [pc EXCEPT ![p] = l]
    BY <1>15, <1>0 DEF Precheck
  <2> QED BY <1>15, <2>1 DEF Precheck, disk, local, count
<1>16. ASSUME NEW p \in Procs, InstallBackup(p) PROVE HeadKnown'
  BY <1>16 DEF InstallBackup, disk, local, count
<1>17. ASSUME NEW p \in Procs, Recheck(p) PROVE HeadKnown'
  <2>1. lock = p /\ \E l \in {"replace", "unlock"} : pc' = [pc EXCEPT ![p] = l]
    BY <1>17, <1>0 DEF Recheck
  <2> QED BY <1>17, <2>1 DEF Recheck, disk, local, count
<1>18. ASSUME NEW p \in Procs, Replace(p) PROVE HeadKnown'
  <2>1. lock = p /\ kind[p] # "restore_backup"
    BY <1>18 DEF Replace
  <2>2. /\ pc' = [pc EXCEPT ![p] = "store"]
        /\ digest' = [digest EXCEPT ![p] = dst[p]]
        /\ file'.content = dst[p]
    BY <1>18, <2>1 DEF Replace
  <2> QED BY <1>18, <2>1, <2>2 DEF Replace, count
<1>19. ASSUME NEW p \in Procs, PruneLoad(p) PROVE HeadKnown'
  <2>1. PICK keep \in 1..MaxKeep : seen' = [seen EXCEPT ![p] = Retained(timeline, keep)]
    BY <1>19 DEF PruneLoad
  <2>2. HeadIs(Retained(timeline, keep), file.content)
    <3>1. keep \in Nat \ {0} /\ HeadIs(timeline, file.content)
      BY <1>19, ConstantsOK DEF PruneLoad
    <3> QED BY <3>1, RetainedFacts
  <2> QED BY <1>19, <2>1, <2>2 DEF PruneLoad, disk, count
<1>20. ASSUME NEW p \in Procs, PruneWrite(p) PROVE HeadKnown'
  BY <1>20 DEF PruneWrite, disk, local, count
<1>21. ASSUME NEW p \in Procs, ListVictims(p) PROVE HeadKnown'
  BY <1>21 DEF ListVictims, disk, local, count
<1>22. ASSUME NEW p \in Procs, UnlinkObject(p) PROVE HeadKnown'
  <2>1. lock = p
    BY <1>22 DEF UnlinkObject
  <2>2. \E l \in {"unlink", "unlock"} : pc' = [pc EXCEPT ![p] = l]
    BY <1>22, <2>1 DEF UnlinkObject
  <2> QED BY <1>22, <2>1, <2>2 DEF UnlinkObject, count
<1>23. ASSUME NEW p \in Procs, PruneDone(p) PROVE HeadKnown'
  <2>1. lock = p /\ \E l \in {"unlock"} : pc' = [pc EXCEPT ![p] = l]
    BY <1>23, <1>0 DEF PruneDone
  <2> QED BY <1>23, <2>1 DEF PruneDone, disk, local, count
<1>24. ASSUME NEW p \in Procs, Fail(p) PROVE HeadKnown'
  <2>1. lock = p /\ \E l \in {"unlock"} : pc' = [pc EXCEPT ![p] = l]
    BY <1>24, <1>0 DEF Fail
  <2> QED BY <1>24, <2>1 DEF Fail, disk, local, count
<1>25. ASSUME NEW p \in Procs, Crash(p) PROVE HeadKnown'
  BY <1>25 DEF Crash, disk, local, count
<1>26. ASSUME NEW c \in Content, Foreign(c) PROVE HeadKnown'
  BY <1>26, ConstantsOK DEF Foreign
<1>27. CASE UNCHANGED vars
  BY <1>27 DEF vars, disk, local, count
<1> QED
  BY <1>1, <1>2, <1>3, <1>4, <1>5, <1>6, <1>7, <1>8, <1>9, <1>10, <1>11, <1>12, <1>13, <1>14, <1>15, <1>16, <1>17, <1>18, <1>19, <1>20, <1>21, <1>22, <1>23, <1>24, <1>25, <1>26, <1>27
     DEF Next, Step, Ensure, Record, Prepare, Install, Prune, Quiescent

\* With writers and compaction only and no foreign writer, every displaced, current or
\* named content is in the store or still to be recorded (transaction.py, revisions.py).
THEOREM StoreInvariant ==
  ASSUME Kinds \subseteq {"mutate", "compact"}, MaxForeign = 0
  PROVE  Spec => [](TypeInv /\ StoreInv)
<1>1. Init => StoreInv
  BY DEF Init, StoreInv, CommitInv, RunningKind, OneInside, InsideKnows, HeadKnown,
         TimelineBacked, Recorded, Range, Critical
<1>2. TypeInv /\ StoreInv /\ [Next]_vars => StoreInv'
  <2>1. Kinds \subseteq LockedKinds
    BY DEF LockedKinds
  <2> QED BY <2>1, StepCommit, StepHead DEF StoreInv
<1> QED BY <1>1, <1>2, TypeCorrect, PTL DEF Spec

\* Every step keeps it.
LEMMA StoreStep ==
  ASSUME Kinds \subseteq {"mutate", "compact"}, MaxForeign = 0
  PROVE  TypeInv /\ StoreInv /\ [Next]_vars
           => [Store!Next]_<<file.content, Recorded \cap Stored>>
<1> SUFFICES ASSUME TypeInv, StoreInv, [Next]_vars
             PROVE  \/ Store!Next
                    \/ file.content' = file.content /\ (Recorded \cap Stored)' = Recorded \cap Stored
  OBVIOUS
<1> DEFINE Stutter == file.content' = file.content /\ (Recorded \cap Stored)' = Recorded \cap Stored
<1> USE DEF TypeInv, TypeOK, StoreInv, CommitInv, InsideKnows, HeadKnown, TimelineBacked, At
<1>1. ASSUME NEW p \in Procs, Replace(p) PROVE Store!Commit
  <2>1. HeadIs(timeline, file.content)
    BY <1>1 DEF Replace
  <2>2. file.content \in Recorded \cap Stored
    BY <2>1, HeadInRange DEF Recorded
  <2>3. file'.content \in Content
    BY <1>1 DEF Replace
  <2>4. (Recorded \cap Stored)' = Recorded \cap Stored
    BY <1>1 DEF Replace, Recorded, Stored
  <2> QED BY <2>2, <2>3, <2>4 DEF Store!Commit
<1>2. ASSUME NEW p \in Procs, AppendRevision(p) PROVE Store!Keep
  <2>1. seen[p] = timeline /\ digest[p] = file.content /\ digest[p] \in Stored
    BY <1>2 DEF AppendRevision
  <2>2. Recorded' = Recorded \cup {file.content}
    BY <1>2, <2>1, AppendFacts DEF AppendRevision, Recorded
  <2>3. UNCHANGED <<file, objects>> /\ Stored' = Stored
    BY <1>2 DEF AppendRevision, Stored
  <2>4. (Recorded \cap Stored)' = (Recorded \cap Stored) \cup {file.content}
    BY <2>1, <2>2, <2>3
  <2> QED BY <2>3, <2>4 DEF Store!Keep
<1>3. ASSUME NEW p \in Procs, PruneWrite(p) PROVE Store!Forget
  <2>1. Range(seen[p]) \subseteq Recorded /\ HeadIs(seen[p], file.content)
    BY <1>3 DEF PruneWrite
  <2>2. Recorded' = Range(seen[p]) /\ Stored' = Stored /\ UNCHANGED file
    BY <1>3 DEF PruneWrite, Recorded, Stored
  <2>3. file.content \in Range(seen[p])
    BY <2>1, HeadInRange
  <2>4. (Recorded \cap Stored)' \subseteq Recorded \cap Stored
    BY <2>1, <2>2
  <2>5. file.content \in Recorded \cap Stored => file.content \in (Recorded \cap Stored)'
    BY <2>2, <2>3
  <2> QED BY <2>2, <2>4, <2>5 DEF Store!Forget
<1>4. ASSUME NEW p \in Procs, LinkObject(p) PROVE Stutter
  <2>1. Stored \subseteq Stored' /\ UNCHANGED <<file, timeline>>
    BY <1>4, ConstantsOK DEF LinkObject, Stored
  <2> QED BY <2>1 DEF Recorded
<1>5. ASSUME NEW p \in Procs, UnlinkObject(p) PROVE Stutter
  <2>1. PICK r \in victims[p] : objects' = [objects EXCEPT ![r] = NoContent]
    BY <1>5 DEF UnlinkObject
  <2>2. r \notin Recorded /\ r \in Content /\ UNCHANGED <<file, timeline>>
    BY <1>5, <2>1 DEF UnlinkObject
  <2>3. Stored' = Stored \ {r}
    BY <2>1, <2>2 DEF Stored
  <2> QED BY <2>2, <2>3 DEF Recorded
<1>6. ASSUME NEW c \in Content, Foreign(c) PROVE Stutter
  BY <1>6, ConstantsOK DEF Foreign
<1>7. CASE UNCHANGED <<file, objects, timeline>>
  BY <1>7 DEF Recorded, Stored
<1>8. ASSUME NEW p \in Procs,
             Call(p) \/ Acquire(p) \/ Release(p) \/ Ensure(p) \/ StoreObject(p) \/ LoadTimeline(p)
             \/ Prepare(p) \/ Precheck(p) \/ InstallBackup(p) \/ Recheck(p) \/ PruneLoad(p)
             \/ ListVictims(p) \/ PruneDone(p) \/ Fail(p) \/ Crash(p)
      PROVE  UNCHANGED <<file, objects, timeline>>
  BY <1>8 DEF Call, Begin, Acquire, Release, Ensure, TakeDigest, LoadHead, StoreObject,
     LoadTimeline, Prepare, OpenSource, CheckMapped, MakePlan, CopyBackup, Revalidate, Precheck,
     InstallBackup, Recheck, PruneLoad, ListVictims, PruneDone, Fail, Crash, disk
<1> QED
  BY <1>1, <1>2, <1>3, <1>4, <1>5, <1>6, <1>7, <1>8
     DEF Store!Next, Next, Step, Record, Install, Prune, Quiescent, vars, disk

\* The content a commit displaces is always a recorded revision whose object
\* exists, and only retention forgets revisions, never the current one.
THEOREM Refinement ==
  ASSUME Kinds \subseteq {"mutate", "compact"}, MaxForeign = 0
  PROVE  Spec => RefinesRevisionStore
<1>1. Init => Store!Init
  BY DEF Init, Store!Init, Recorded, Range
<1>2. TypeInv /\ StoreInv /\ [Next]_vars => [Store!Next]_<<file.content, Recorded \cap Stored>>
  BY StoreStep
<1> QED BY <1>1, <1>2, StoreInvariant, PTL DEF Spec, RefinesRevisionStore, Store!Spec

(***************************************************************************)
(* Without retention (no prune, no compact), objects are never removed, and  *)
(* the timeline names stored ones although observers and rollbacks write it   *)
(* without the lock, from a copy that others have overtaken.                 *)
(***************************************************************************)
PruneSteps == {"prune_load", "prune_write", "glob", "unlink"}

BackedInv ==
    /\ RunningKind /\ TimelineBacked
    /\ \A p \in Procs :
          /\ pc[p] \notin PruneSteps
          /\ pc[p] \in {"append_load", "append"} => digest[p] \in Stored
          /\ pc[p] = "append" => Range(seen[p]) \subseteq Stored

\* A step of p to a label that asks for nothing, which leaves the others alone.
LEMMA KeepsBacked ==
  ASSUME TypeInv, BackedInv, NEW p \in Procs, NEW l \in Labels,
         l \notin PruneSteps \cup {"append_load", "append"},
         pc' = [pc EXCEPT ![p] = l], l # "idle" => pc[p] # "idle", UNCHANGED kind,
         timeline' = timeline, Stored \subseteq Stored',
         \A q \in Procs \ {p} : seen'[q] = seen[q] /\ digest'[q] = digest[q]
  PROVE  BackedInv'
<1> USE DEF TypeInv, TypeOK
<1>1. pc'[p] = l /\ \A q \in Procs \ {p} : pc'[q] = pc[q]
  OBVIOUS
<1>2. RunningKind'
  BY <1>1 DEF BackedInv, RunningKind
<1>3. TimelineBacked'
  BY DEF BackedInv, TimelineBacked, Recorded
<1> QED BY <1>1, <1>2, <1>3 DEF BackedInv

\* Where a call continues after it has made sure that the head is recorded.
LEMMA AfterEnsureBacked ==
  ASSUME TypeInv, BackedInv, Kinds \cap {"prune", "compact"} = {}, NEW p \in Procs, pc[p] # "idle"
  PROVE  AfterEnsure(p) \in {"plan", "revalidate", "wait_lock", "idle"}
BY DEF AfterEnsure, BackedInv, RunningKind

\* Every step keeps the timeline backed when nothing is pruned.
LEMMA StepBacked ==
  ASSUME Kinds \cap {"prune", "compact"} = {}
  PROVE  TypeInv /\ BackedInv /\ [Next]_vars => BackedInv'
<1> SUFFICES ASSUME TypeInv, BackedInv, [Next]_vars PROVE BackedInv'
  OBVIOUS
<1>0. /\ pc \in [Procs -> Labels] /\ digest \in [Procs -> Content] /\ seen \in [Procs -> Seq(Content)]
      /\ timeline \in Seq(Content) /\ copied \in [Procs -> Content] /\ file.content \in Content
      /\ objects \in [Content -> Content \cup {NoContent}]
  BY DEF TypeInv, TypeOK, FileState
<1>a. ASSUME NEW p \in Procs, NEW l \in Labels, l \notin PruneSteps \cup {"append_load", "append"},
             pc' = [pc EXCEPT ![p] = l], l # "idle" => pc[p] # "idle",
             UNCHANGED <<kind, timeline, objects, seen>>,
             \A q \in Procs \ {p} : digest'[q] = digest[q]
      PROVE  BackedInv'
  BY <1>a, KeepsBacked DEF Stored
<1> USE DEF At, Goto, Leave
<1>1. ASSUME NEW p \in Procs, Call(p) PROVE BackedInv'
  <2> PICK k \in Kinds : Begin(p, k)
    BY <1>1 DEF Call
  <2>1. pc' \in [Procs -> Labels] /\ kind' = [kind EXCEPT ![p] = k] /\ pc'[p] \in {"wait_lock", "digest"}
        /\ UNCHANGED <<timeline, objects, seen, digest>> /\ \A q \in Procs \ {p} : pc'[q] = pc[q]
    BY <1>0 DEF Begin, disk, Labels
  <2>2. RunningKind'
    BY <2>1 DEF BackedInv, RunningKind, TypeInv, TypeOK
  <2> QED BY <2>1, <2>2 DEF BackedInv, TimelineBacked, Recorded, Stored, PruneSteps
<1>2. ASSUME NEW p \in Procs,
             \/ Acquire(p) \/ Release(p) \/ Prepare(p) \/ Install(p) \/ TakeDigest(p) \/ Fail(p) \/ Crash(p)
      PROVE  BackedInv'
  <2>1. /\ UNCHANGED <<timeline, objects, seen, kind>> /\ \A q \in Procs \ {p} : digest'[q] = digest[q]
        /\ pc[p] # "idle"
    BY <1>0, <1>2 DEF Acquire, Release, Prepare, OpenSource, CheckMapped, MakePlan, CopyBackup,
       Revalidate, Install, Precheck, InstallBackup, Recheck, Replace, TakeDigest, Fail, Crash,
       disk, local
  <2>2. \E l \in Labels : l \notin PruneSteps \cup {"append_load", "append"} /\ pc' = [pc EXCEPT ![p] = l]
    BY <1>2 DEF Acquire, Release, Prepare, OpenSource, CheckMapped, MakePlan, CopyBackup,
       Revalidate, Install, Precheck, InstallBackup, Recheck, Replace, TakeDigest, Fail, Crash,
       Labels, PruneSteps
  <2> QED BY <1>a, <2>1, <2>2
<1>3. ASSUME NEW p \in Procs, LoadHead(p) PROVE BackedInv'
  <2>1. UNCHANGED <<timeline, objects, seen, kind, digest>> /\ pc[p] # "idle"
    BY <1>3 DEF LoadHead, disk, local
  <2>2. \E l \in {"store", "plan", "revalidate", "wait_lock", "idle"} : pc' = [pc EXCEPT ![p] = l]
    BY <1>3, <2>1, AfterEnsureBacked DEF LoadHead
  <2> QED BY <1>a, <2>1, <2>2 DEF Labels, PruneSteps
<1>4. ASSUME NEW p \in Procs, StoreObject(p) PROVE BackedInv'
  <2>1. UNCHANGED <<timeline, objects, seen, kind, digest>> /\ pc[p] # "idle"
    BY <1>4 DEF StoreObject, disk
  <2>2. CASE digest[p] \in Stored /\ pc' = [pc EXCEPT ![p] = "append_load"]
    BY <1>0, <2>1, <2>2 DEF BackedInv, RunningKind, TimelineBacked, Recorded, Stored, PruneSteps
  <2>3. CASE \E l \in {"link", "unlock", "idle"} : pc' = [pc EXCEPT ![p] = l]
    BY <1>a, <2>1, <2>3 DEF Labels, PruneSteps
  <2> QED BY <1>4, <2>2, <2>3 DEF StoreObject
<1>5. ASSUME NEW p \in Procs, LinkObject(p) PROVE BackedInv'
  <2>1. /\ UNCHANGED <<timeline, seen, kind, digest>> /\ pc' = [pc EXCEPT ![p] = "append_load"]
        /\ pc[p] = "link"
    BY <1>5 DEF LinkObject, local
  <2>2. Stored \subseteq Stored' /\ digest[p] \in Stored'
    BY <1>0, <1>5, ConstantsOK DEF LinkObject, Stored
  <2> HIDE DEF Stored
  <2> QED BY <1>0, <2>1, <2>2 DEF BackedInv, RunningKind, TimelineBacked, Recorded, PruneSteps
<1>6. ASSUME NEW p \in Procs, LoadTimeline(p) PROVE BackedInv'
  <2>1. /\ UNCHANGED <<timeline, objects, kind, digest>> /\ pc[p] = "append_load"
        /\ seen' = [seen EXCEPT ![p] = timeline] /\ Stored' = Stored
    BY <1>6 DEF LoadTimeline, disk, Stored
  <2>2. CASE pc' = [pc EXCEPT ![p] = "append"]
    <3> HIDE DEF Stored
    <3> QED BY <1>0, <2>1, <2>2 DEF BackedInv, RunningKind, TimelineBacked, Recorded, PruneSteps
  <2>3. CASE pc' = [pc EXCEPT ![p] = AfterEnsure(p)]
    <3>1. AfterEnsure(p) \in {"plan", "revalidate", "wait_lock", "idle"}
      BY <2>1, AfterEnsureBacked
    <3>2. \A q \in Procs \ {p} : seen'[q] = seen[q]
      BY <1>0, <2>1
    <3> QED BY <2>1, <2>3, <3>1, <3>2, KeepsBacked DEF Labels, PruneSteps
  <2> QED BY <1>6, <2>2, <2>3 DEF LoadTimeline
<1>7. ASSUME NEW p \in Procs, AppendRevision(p) PROVE BackedInv'
  <2>1. /\ UNCHANGED <<objects, kind, digest, seen>> /\ pc[p] = "append"
        /\ timeline' = Append(seen[p], digest[p]) /\ Stored' = Stored
        /\ \E l \in {AfterEnsure(p), "unlock"} : pc' = [pc EXCEPT ![p] = l]
    BY <1>7 DEF AppendRevision, local, Stored
  <2>2. PICK l \in {"plan", "revalidate", "wait_lock", "idle", "unlock"} : pc' = [pc EXCEPT ![p] = l]
    BY <2>1, AfterEnsureBacked
  <2>3. Range(timeline') = Range(seen[p]) \cup {digest[p]}
    BY <1>0, <2>1, AppendFacts
  <2>4. TimelineBacked'
    BY <2>1, <2>3 DEF BackedInv, TimelineBacked, Recorded
  <2>5. RunningKind'
    BY <1>0, <2>1, <2>2 DEF BackedInv, RunningKind
  <2>6. \A q \in Procs : pc'[q] = pc[q] \/ pc'[q] \in {"plan", "revalidate", "wait_lock", "idle", "unlock"}
    BY <1>0, <2>2
  <2> HIDE DEF Stored
  <2> QED BY <2>1, <2>4, <2>5, <2>6 DEF BackedInv, PruneSteps
<1>8. ASSUME NEW p \in Procs, Prune(p) PROVE BackedInv'
  BY <1>8 DEF Prune, PruneLoad, PruneWrite, ListVictims, UnlinkObject, PruneDone, BackedInv, PruneSteps
<1>9. ASSUME NEW c \in Content, Foreign(c) PROVE BackedInv'
  BY <1>9 DEF Foreign, local, BackedInv, RunningKind, TimelineBacked, Recorded, Stored
<1>10. CASE UNCHANGED vars
  BY <1>10 DEF vars, disk, local, BackedInv, RunningKind, TimelineBacked, Recorded, Stored
<1> QED
  BY <1>1, <1>2, <1>3, <1>4, <1>5, <1>6, <1>7, <1>8, <1>9, <1>10
     DEF Next, Step, Ensure, Record, Quiescent

\* Nothing but retention can take a recorded object away: neither observers and
\* rollbacks that write the timeline without the lock, nor faults, nor other programs.
THEOREM UnprunedTimelineBacked ==
  ASSUME Kinds \cap {"prune", "compact"} = {}
  PROVE  Spec => []TimelineBacked
<1>1. Init => BackedInv
  BY DEF Init, BackedInv, RunningKind, TimelineBacked, Recorded, Range, PruneSteps
<1>2. TypeInv /\ BackedInv /\ [Next]_vars => BackedInv'
  BY StepBacked
<1>3. BackedInv => TimelineBacked
  BY DEF BackedInv
<1> QED BY <1>1, <1>2, <1>3, TypeCorrect, PTL DEF Spec

(***************************************************************************)
(* A commit displaces what it was prepared from (CommitIsPrepared), beside     *)
(* observers, rollbacks, faults and programs that replace the file.           *)
(*   LockInv: who holds the lock at each step.                                *)
(*   SourceInv: what a call knows of the file that it mapped, as long as the    *)
(*   metadata match: the stamps never come back, so the file is still that one. *)
(***************************************************************************)
PlanSteps   == {"open", "check_map", "plan", "precheck", "backup", "recheck"}
LockedSteps == PlanSteps \cup {"copy_backup", "revalidate", "replace", "unlock"}
RecordSteps == {"store", "link", "append_load", "append"}
KeptSteps   == {"plan", "precheck", "backup", "recheck"}
KnownSteps  == {"load"} \cup RecordSteps \cup KeptSteps

Locks(p) ==
    /\ \/ pc[p] \in LockedSteps
       \/ pc[p] \in Critical /\ kind[p] \in LockedKinds
       \/ pc[p] \in RecordSteps /\ phase[p] = "committed"
       => lock = p
    /\ pc[p] = "load" => phase[p] = "observed"
    /\ pc[p] \in PlanSteps => kind[p] \in {"mutate", "repair"}
    /\ pc[p] = "revalidate" => kind[p] = "rollback"

LockInv == \A p \in Procs : Locks(p)

Source(p) ==
    /\ base[p].stamp <= file.stamp
    /\ MetadataMatches(p) => base[p] = file
    /\ pc[p] = "recheck" /\ MetadataMatches(p) => backup = file.content
    /\ kind[p] = "mutate" /\ pc[p] \in KnownSteps /\ MetadataMatches(p) => digest[p] = file.content
    /\ kind[p] = "mutate" /\ pc[p] \in KeptSteps => digest[p] \in Stored

SourceInv == \A p \in Procs : Source(p)

\* What both inductive invariants above say of the store.
StoreFacts == /\ TimelineBacked
              /\ \A p \in Procs : /\ pc[p] \in {"append_load", "append"} => digest[p] \in Stored
                                  /\ pc[p] = "unlink" => lock = p

\* A step of p that takes no lock and gives up none keeps the lock invariant.
LEMMA LocksStay ==
  ASSUME TypeInv, LockInv, NEW p \in Procs, NEW l \in Labels, pc' = [pc EXCEPT ![p] = l],
         UNCHANGED <<lock, kind>>, \A q \in Procs \ {p} : phase'[q] = phase[q],
         Locks(p)'
  PROVE  LockInv'
<1>1. \A q \in Procs \ {p} : pc'[q] = pc[q] /\ kind'[q] = kind[q]
  BY DEF TypeInv, TypeOK
<1>2. \A q \in Procs \ {p} : Locks(q)'
  BY <1>1 DEF LockInv, Locks
<1> QED BY <1>2 DEF LockInv

\* The lock passes to nobody else while p waits for it, gives it back or dies.
LEMMA LocksPass ==
  ASSUME TypeInv, LockInv, NEW p \in Procs, NEW l \in Labels, pc' = [pc EXCEPT ![p] = l],
         lock = Free \/ lock = p, UNCHANGED <<kind, phase>>, Locks(p)'
  PROVE  LockInv'
<1>1. \A q \in Procs \ {p} : pc'[q] = pc[q] /\ lock # q
  BY ConstantsOK DEF TypeInv, TypeOK
<1>2. \A q \in Procs \ {p} : Locks(q)'
  BY <1>1 DEF LockInv, Locks
<1> QED BY <1>2 DEF LockInv

\* Every step keeps the lock invariant.
LEMMA StepLocks == TypeInv /\ LockInv /\ [Next]_vars => LockInv'
<1> SUFFICES ASSUME TypeInv, LockInv, [Next]_vars PROVE LockInv'
  OBVIOUS
<1>0. /\ pc \in [Procs -> Labels] /\ kind \in [Procs -> AllKinds]
      /\ phase \in [Procs -> {"observed", "committed"}]
      /\ \A p \in Procs : Locks(p)
  BY DEF TypeInv, TypeOK, LockInv
<1> USE DEF At, Goto, Leave
<1>1. ASSUME NEW p \in Procs, Call(p) PROVE LockInv'
  <2> PICK k \in Kinds : Begin(p, k)
    BY <1>1 DEF Call
  <2>1. /\ kind' = [kind EXCEPT ![p] = k] /\ UNCHANGED <<lock, phase>>
        /\ pc' = [pc EXCEPT ![p] = IF k \in LockedKinds THEN "wait_lock" ELSE "digest"]
    BY DEF Begin
  <2>2. \A q \in Procs \ {p} : pc'[q] = pc[q] /\ kind'[q] = kind[q]
    BY <1>0, <2>1
  <2>3. pc'[p] = (IF k \in LockedKinds THEN "wait_lock" ELSE "digest") /\ kind'[p] = k
    BY <1>0, <2>1
  <2>4. Locks(p)'
    BY <2>3 DEF Locks, LockedSteps, PlanSteps, RecordSteps, Critical
  <2>5. \A q \in Procs \ {p} : Locks(q)'
    BY <1>0, <2>1, <2>2 DEF Locks
  <2> QED BY <2>4, <2>5 DEF LockInv
<1>2. ASSUME NEW p \in Procs, Acquire(p) PROVE LockInv'
  <2>1. /\ UNCHANGED <<kind, phase>> /\ lock = Free /\ lock' = p
        /\ pc' = [pc EXCEPT ![p] = CASE kind[p] \in {"mutate", "repair"} -> "open"
                                     [] kind[p] = "restore_backup"       -> "copy_backup"
                                     [] OTHER                            -> "digest"]
    BY <1>2 DEF Acquire, LockAvailable, local
  <2>2. PICK l \in {"open", "copy_backup", "digest"} :
           pc' = [pc EXCEPT ![p] = l] /\ (l = "open" => kind[p] \in {"mutate", "repair"})
    BY <2>1
  <2>3. Locks(p)'
    BY <1>0, <2>1, <2>2 DEF Locks, PlanSteps
  <2> QED BY <2>1, <2>2, <2>3, LocksPass DEF Labels
<1>3. ASSUME NEW p \in Procs, Release(p) \/ Crash(p) PROVE LockInv'
  <2>1. pc' = [pc EXCEPT ![p] = "idle"] /\ UNCHANGED <<kind, phase>>
    BY <1>3 DEF Release, Crash, local
  <2>2. Locks(p)'
    BY <1>0, <2>1 DEF Locks, LockedSteps, PlanSteps, RecordSteps, Critical
  <2>3. CASE lock = p
    BY <2>1, <2>2, <2>3, LocksPass DEF Labels
  <2>4. CASE lock # p
    <3>1. lock' = lock
      BY <1>0, <1>3, <2>4 DEF Release, Crash, Locks, LockedSteps
    <3> QED BY <2>1, <2>2, <3>1, LocksStay DEF Labels
  <2> QED BY <2>3, <2>4
\* A step within a call: p has the lock wherever the step leads to one that needs it.
<1>4. ASSUME NEW p \in Procs, NEW l \in Labels, pc' = [pc EXCEPT ![p] = l],
             UNCHANGED <<lock, kind>>, \A q \in Procs \ {p} : phase'[q] = phase[q],
             \/ lock = p
             \/ /\ l \notin LockedSteps /\ kind[p] \notin LockedKinds
                /\ l \in RecordSteps => phase'[p] # "committed"
             \/ l \in {"idle", "wait_lock"},
             l = "load" => phase'[p] = "observed",
             l \in PlanSteps => kind[p] \in {"mutate", "repair"},
             l = "revalidate" => kind[p] = "rollback"
      PROVE  LockInv'
  <2>1. pc'[p] = l
    BY <1>0, <1>4
  <2>2. Locks(p)'
    BY <1>4, <2>1 DEF Locks, LockedSteps, PlanSteps, RecordSteps, Critical
  <2> QED BY <1>4, <2>2, LocksStay
<1> USE DEF Labels, Critical, LockedSteps, PlanSteps, RecordSteps, LockedKinds
<1>5. ASSUME NEW p \in Procs, Prepare(p) \/ Precheck(p) \/ InstallBackup(p) \/ Recheck(p) PROVE LockInv'
  <2>1. UNCHANGED <<lock, kind, phase>> /\ pc[p] \in LockedSteps
    BY <1>5 DEF Prepare, OpenSource, CheckMapped, MakePlan, CopyBackup, Revalidate, Precheck,
       InstallBackup, Recheck, local
  <2>2. lock = p
    BY <1>0, <2>1 DEF Locks
  <2>3. \E l \in Labels \ {"load", "revalidate"} :
           pc' = [pc EXCEPT ![p] = l] /\ (l \in PlanSteps => pc[p] \in PlanSteps)
    BY <1>5, <2>2 DEF Prepare, OpenSource, CheckMapped, MakePlan, CopyBackup, Revalidate, Precheck,
       InstallBackup, Recheck
  <2>4. pc[p] \in PlanSteps => kind[p] \in {"mutate", "repair"}
    BY <1>0 DEF Locks
  <2> HIDE DEF Labels, Critical, LockedSteps, PlanSteps, RecordSteps, LockedKinds
  <2> QED BY <1>4, <2>1, <2>2, <2>3, <2>4
<1>6. ASSUME NEW p \in Procs, Replace(p) PROVE LockInv'
  <2>1. UNCHANGED <<lock, kind>> /\ pc[p] \in LockedSteps
        /\ (\A q \in Procs \ {p} : phase'[q] = phase[q])
        /\ \E l \in {"unlock", "store"} : pc' = [pc EXCEPT ![p] = l]
    BY <1>0, <1>6 DEF Replace
  <2>2. lock = p
    BY <1>0, <2>1 DEF Locks
  <2> QED BY <1>4, <2>1, <2>2
<1>7. ASSUME NEW p \in Procs, TakeDigest(p) PROVE LockInv'
  <2>1. /\ UNCHANGED <<lock, kind>> /\ pc[p] = "digest" /\ pc' = [pc EXCEPT ![p] = "load"]
        /\ phase'[p] = "observed" /\ \A q \in Procs \ {p} : phase'[q] = phase[q]
    BY <1>0, <1>7 DEF TakeDigest
  <2>2. lock = p \/ kind[p] \notin LockedKinds
    BY <1>0, <2>1 DEF Locks
  <2> QED BY <1>4, <2>1, <2>2
<1>8. ASSUME NEW p \in Procs, Fail(p) \/ PruneDone(p) PROVE LockInv'
  <2>1. UNCHANGED <<lock, kind, phase>> /\ pc' = [pc EXCEPT ![p] = IF lock = p THEN "unlock" ELSE "idle"]
    BY <1>8 DEF Fail, PruneDone, local
  <2> QED BY <1>4, <2>1
<1>9. ASSUME NEW p \in Procs, NEW l \in Labels, pc' = [pc EXCEPT ![p] = l], UNCHANGED <<lock, kind, phase>>,
             pc[p] \in {"load", "store", "link", "append_load", "append"} \cup PruneSteps,
             \/ l \in RecordSteps /\ (pc[p] \in RecordSteps \/ pc[p] = "load")
             \/ l \in PruneSteps /\ pc[p] \in PruneSteps
             \/ l = (IF lock = p THEN "unlock" ELSE "idle")
             \/ l = "unlock" /\ pc[p] \in RecordSteps /\ phase[p] = "committed"
             \/ l = AfterEnsure(p) /\ pc[p] \notin PruneSteps
      PROVE  LockInv'
  <2>1. pc[p] \in RecordSteps /\ phase[p] = "committed" => lock = p
    BY <1>0 DEF Locks
  <2>2. lock = p \/ kind[p] \notin LockedKinds
    BY <1>0, <1>9 DEF Locks, PruneSteps
  <2>3. pc[p] = "load" => phase[p] = "observed"
    BY <1>0 DEF Locks
  <2>4. CASE l = AfterEnsure(p)
    <3>1. \/ l \in {"idle", "wait_lock", "prune_load"}
          \/ l = "plan" /\ kind[p] = "mutate"
          \/ l = "revalidate" /\ kind[p] = "rollback" /\ lock = p
      BY <2>4 DEF AfterEnsure
    <3> QED BY <1>4, <1>9, <2>2, <3>1
  <2>5. CASE l \in PruneSteps
    BY <1>4, <1>9, <2>2, <2>5 DEF PruneSteps
  <2>6. CASE l \in RecordSteps /\ (pc[p] \in RecordSteps \/ pc[p] = "load")
    BY <1>4, <1>9, <2>1, <2>2, <2>3, <2>6
  <2>7. CASE l = "unlock" /\ lock = p
    BY <1>4, <1>9, <2>7
  <2>8. CASE l = "idle"
    BY <1>4, <1>9, <2>8
  <2> QED BY <1>9, <2>1, <2>4, <2>5, <2>6, <2>7, <2>8
<1>10. ASSUME NEW p \in Procs, LoadHead(p) \/ Record(p) PROVE LockInv'
  <2>1. UNCHANGED <<lock, kind, phase>> /\ pc[p] \in {"load", "store", "link", "append_load", "append"}
    BY <1>10 DEF LoadHead, Record, StoreObject, LinkObject, LoadTimeline, AppendRevision, local
  <2>2. AfterEnsure(p) \in Labels
    BY DEF AfterEnsure
  <2>3. \E l \in Labels :
           /\ pc' = [pc EXCEPT ![p] = l]
           /\ \/ l \in RecordSteps
              \/ l = (IF lock = p THEN "unlock" ELSE "idle")
              \/ l = "unlock" /\ pc[p] \in RecordSteps /\ phase[p] = "committed"
              \/ l = AfterEnsure(p)
    <3>1. CASE LoadHead(p)
      BY <2>2, <3>1 DEF LoadHead
    <3>2. CASE StoreObject(p)
      BY <3>2 DEF StoreObject
    <3>3. CASE LinkObject(p)
      BY <3>3 DEF LinkObject
    <3>4. CASE LoadTimeline(p)
      BY <2>2, <3>4 DEF LoadTimeline
    <3>5. CASE AppendRevision(p)
      BY <1>0, <2>2, <3>5 DEF AppendRevision
    <3> QED BY <1>10, <3>1, <3>2, <3>3, <3>4, <3>5 DEF Record
  <2>4. pc[p] \in RecordSteps \/ pc[p] = "load"
    BY <2>1
  <2> QED BY <1>9, <2>1, <2>3, <2>4 DEF PruneSteps
<1>11. ASSUME NEW p \in Procs, PruneLoad(p) \/ PruneWrite(p) \/ ListVictims(p) \/ UnlinkObject(p)
       PROVE  LockInv'
  <2>1. UNCHANGED <<lock, kind, phase>> /\ pc[p] \in PruneSteps
    BY <1>11 DEF PruneLoad, PruneWrite, ListVictims, UnlinkObject, local, PruneSteps
  <2>2. \E l \in PruneSteps \cup {IF lock = p THEN "unlock" ELSE "idle"} : pc' = [pc EXCEPT ![p] = l]
    <3>1. CASE pc' = pc
      <4>1. pc' = [pc EXCEPT ![p] = pc[p]]
        BY <1>0, <3>1
      <4> QED BY <2>1, <4>1
    <3> QED BY <1>11, <3>1 DEF PruneLoad, PruneWrite, ListVictims, UnlinkObject, PruneSteps
  <2> QED BY <1>9, <2>1, <2>2 DEF PruneSteps
<1>12. CASE UNCHANGED <<lock, pc, kind, phase>>
  BY <1>0, <1>12 DEF LockInv, Locks
<1>13. ASSUME NEW c \in Content, Foreign(c) PROVE LockInv'
  BY <1>12, <1>13 DEF Foreign, local
<1>14. CASE UNCHANGED vars
  BY <1>12, <1>14 DEF vars, local
<1> QED
  BY <1>1, <1>2, <1>3, <1>5, <1>6, <1>7, <1>8, <1>10, <1>11, <1>13, <1>14
     DEF Next, Step, Ensure, Install, Prune, Quiescent

\* Nobody has prepared anything at the start.
LEMMA InitSource == Init => LockInv /\ SourceInv
BY DEF Init, LockInv, Locks, SourceInv, Source, LockedSteps, PlanSteps, RecordSteps, Critical,
       KnownSteps, KeptSteps, MetadataMatches

\* What another process does leaves q's knowledge true.
LEMMA OthersSource ==
  ASSUME TypeInv, LockInv, SourceInv, NEW q \in Procs,
         pc'[q] = pc[q], kind'[q] = kind[q], base'[q] = base[q], digest'[q] = digest[q],
         file' = file \/ file'.stamp = file.stamp + 1,
         backup' = backup \/ lock # q,
         Stored \subseteq Stored' \/ lock # q
  PROVE  Source(q)'
<1>1. base[q].stamp \in Nat /\ file.stamp \in Nat /\ Source(q)
  BY DEF TypeInv, TypeOK, FileState, SourceInv
<1>2. pc[q] \in LockedSteps => lock = q
  BY DEF LockInv, Locks
<1>3. CASE file' = file
  <2>1. backup' = backup \/ pc[q] # "recheck"
    BY <1>2 DEF LockedSteps, PlanSteps
  <2>2. Stored \subseteq Stored' \/ pc[q] \notin KeptSteps
    BY <1>2 DEF LockedSteps, PlanSteps, KeptSteps
  <2> HIDE DEF Stored
  <2> QED BY <1>1, <1>3, <2>1, <2>2 DEF Source, MetadataMatches
<1>4. CASE file'.stamp = file.stamp + 1
  <2>1. base'[q].stamp < file'.stamp /\ base'[q].stamp <= file'.stamp /\ ~MetadataMatches(q)'
    BY <1>1, <1>4 DEF Source, MetadataMatches
  <2>2. Stored \subseteq Stored' \/ pc[q] \notin KeptSteps
    BY <1>2 DEF LockedSteps, PlanSteps, KeptSteps
  <2>3. kind[q] = "mutate" /\ pc[q] \in KeptSteps => digest[q] \in Stored
    BY <1>1 DEF Source
  <2> HIDE DEF Stored
  <2> QED BY <2>1, <2>2, <2>3 DEF Source
<1> QED BY <1>3, <1>4

\* A step of p that neither changes the file nor the .bak.
LEMMA OwnSource ==
  ASSUME TypeInv, SourceInv, NEW p \in Procs, NEW l, pc'[p] = l, kind'[p] = kind[p],
         base'[p] = base[p], digest'[p] = digest[p], file' = file,
         l # "recheck",
         kind[p] = "mutate" /\ l \in KnownSteps => pc[p] \in KnownSteps,
         kind[p] = "mutate" /\ l \in KeptSteps => digest[p] \in Stored'
  PROVE  Source(p)'
<1>1. Source(p)
  BY DEF SourceInv
<1> HIDE DEF Stored
<1> QED BY <1>1 DEF Source, MetadataMatches

\* Every step keeps where planned and prepared contents came from.
LEMMA StepSource == TypeInv /\ StoreFacts /\ LockInv /\ SourceInv /\ [Next]_vars => SourceInv'
<1> SUFFICES ASSUME TypeInv, StoreFacts, LockInv, SourceInv, [Next]_vars PROVE SourceInv'
  OBVIOUS
<1>0. /\ pc \in [Procs -> Labels] /\ kind \in [Procs -> AllKinds] /\ base \in [Procs -> FileState]
      /\ digest \in [Procs -> Content] /\ timeline \in Seq(Content)
      /\ file \in FileState
      /\ \A p \in Procs : Locks(p) /\ Source(p)
      /\ objects \in [Content -> Content \cup {NoContent}] /\ copied \in [Procs -> Content]
  BY DEF TypeInv, TypeOK, LockInv, SourceInv
<1> USE DEF At, Goto, Leave
<1>1. ASSUME NEW c \in Content, Foreign(c) PROVE SourceInv'
  <2>1. /\ UNCHANGED <<pc, kind, base, digest, backup>> /\ file'.stamp = file.stamp + 1
        /\ Stored' = Stored
    BY <1>1 DEF Foreign, local, Stored
  <2> QED BY <2>1, OthersSource DEF SourceInv
<1>2. CASE UNCHANGED <<pc, kind, base, digest, backup, file, objects>>
  <2>1. Stored' = Stored
    BY <1>2 DEF Stored
  <2> QED BY <1>2, <2>1, OthersSource DEF SourceInv
\* The other processes, whatever p does.
<1>3. ASSUME NEW p \in Procs, Call(p) \/ Step(p) \/ Fail(p) \/ Crash(p), NEW q \in Procs \ {p}
      PROVE  Source(q)'
  <2> HIDE DEF Goto, Leave
  <2>1. pc'[q] = pc[q] /\ kind'[q] = kind[q] /\ base'[q] = base[q] /\ digest'[q] = digest[q]
    BY <1>0, <1>3 DEF Call, Begin, Step, Acquire, Release, Ensure, TakeDigest, LoadHead, Record,
       StoreObject, LinkObject, LoadTimeline, AppendRevision, Prepare, OpenSource, CheckMapped,
       MakePlan, CopyBackup, Revalidate, Install, Precheck, InstallBackup, Recheck, Replace, Prune,
       PruneLoad, PruneWrite, ListVictims, UnlinkObject, PruneDone, Fail, Crash, local, Goto, Leave
  <2>2. \/ Replace(p) \/ InstallBackup(p) \/ LinkObject(p) \/ UnlinkObject(p)
        \/ UNCHANGED <<file, backup, objects>>
    BY <1>3 DEF Call, Begin, Step, Acquire, Release, Ensure, TakeDigest, LoadHead, Record,
       StoreObject, LoadTimeline, AppendRevision, Prepare, OpenSource, CheckMapped,
       MakePlan, CopyBackup, Revalidate, Install, Precheck, Recheck, Prune,
       PruneLoad, PruneWrite, ListVictims, PruneDone, Fail, Crash, disk
  <2>3. CASE Replace(p)
    <3>1. file'.stamp = file.stamp + 1 /\ UNCHANGED <<backup, objects>> /\ Stored' = Stored
      BY <2>3 DEF Replace, Stored
    <3> QED BY <2>1, <3>1, OthersSource
  <2>4. CASE InstallBackup(p)
    <3>1. UNCHANGED <<file, objects>> /\ Stored' = Stored /\ pc[p] = "backup"
      BY <2>4 DEF InstallBackup, Stored, At
    <3>2. lock # q
      BY <1>0, <3>1 DEF Locks, LockedSteps, PlanSteps
    <3> QED BY <2>1, <3>1, <3>2, OthersSource
  <2>5. CASE LinkObject(p)
    <3>1. UNCHANGED <<file, backup>> /\ Stored \subseteq Stored'
      BY <1>0, <2>5, ConstantsOK DEF LinkObject, Stored
    <3> QED BY <2>1, <3>1, OthersSource
  <2>6. CASE UnlinkObject(p)
    <3>1. UNCHANGED <<file, backup>> /\ lock # q
      BY <2>6 DEF UnlinkObject, StoreFacts, At
    <3> QED BY <2>1, <3>1, OthersSource
  <2>7. CASE UNCHANGED <<file, backup, objects>>
    <3>1. Stored' = Stored
      BY <2>7 DEF Stored
    <3> QED BY <2>1, <2>7, <3>1, OthersSource
  <2> QED BY <2>2, <2>3, <2>4, <2>5, <2>6, <2>7
\* p itself.
<1> USE DEF KnownSteps, RecordSteps, KeptSteps
<1>4. ASSUME NEW p \in Procs, Call(p) PROVE Source(p)'
  <2> PICK k \in Kinds : Begin(p, k)
    BY <1>4 DEF Call
  <2>1. UNCHANGED <<file, base>> /\ pc'[p] \in {"wait_lock", "digest"}
    BY <1>0 DEF Begin, disk
  <2> QED BY <1>0, <2>1 DEF Source, MetadataMatches
<1>5. ASSUME NEW p \in Procs,
             \/ Acquire(p) \/ Release(p) \/ CopyBackup(p) \/ Revalidate(p) \/ Recheck(p)
             \/ Fail(p) \/ Crash(p) \/ Prune(p)
      PROVE  Source(p)'
  <2>1. UNCHANGED <<file, base, kind, digest>>
    BY <1>5 DEF Acquire, Release, CopyBackup, Revalidate, Recheck, Fail, Crash, Prune, PruneLoad,
       PruneWrite, ListVictims, UnlinkObject, PruneDone, disk, local
  <2>2. pc'[p] \in {"open", "digest", "copy_backup", "idle", "unlock", "replace", "prune_write",
                    "glob", "unlink"}
    BY <1>0, <1>5 DEF Acquire, Release, CopyBackup, Revalidate, Recheck, Fail, Crash, Prune, PruneLoad,
       PruneWrite, ListVictims, UnlinkObject, PruneDone
  <2> QED BY <2>1, <2>2, OwnSource
<1>6. ASSUME NEW p \in Procs, OpenSource(p) PROVE Source(p)'
  <2>1. base'[p] = file /\ file' = file /\ pc'[p] = "check_map"
    BY <1>0, <1>6 DEF OpenSource, disk
  <2>2. file.stamp \in Nat
    BY <1>0 DEF FileState
  <2>3. base'[p].stamp <= file'.stamp /\ base'[p] = file'
    BY <2>1, <2>2
  <2>4. pc'[p] \notin KnownSteps /\ pc'[p] \notin KeptSteps /\ pc'[p] # "recheck"
    BY <2>1
  <2> QED BY <2>3, <2>4 DEF Source
<1>7. ASSUME NEW p \in Procs, CheckMapped(p) PROVE Source(p)'
  <2>1. UNCHANGED <<file, base, kind, digest>>
    BY <1>7 DEF CheckMapped, disk, local
  <2>2. CASE kind[p] # "mutate" /\ pc' = [pc EXCEPT ![p] = "plan"]
    <3>1. pc'[p] = "plan"
      BY <1>0, <2>2
    <3> QED BY <2>1, <2>2, <3>1, OwnSource
  <2>3. ASSUME NEW l \in {"digest", "idle", "unlock"}, pc' = [pc EXCEPT ![p] = l]
        PROVE  Source(p)'
    <3>1. pc'[p] = l
      BY <1>0, <2>3
    <3> QED BY <2>1, <3>1, OwnSource
  <2> QED BY <1>7, <2>2, <2>3 DEF CheckMapped
<1>8. ASSUME NEW p \in Procs, TakeDigest(p) PROVE Source(p)'
  <2>1. UNCHANGED <<file, base>> /\ digest'[p] = file.content /\ pc'[p] = "load"
    BY <1>0, <1>8 DEF TakeDigest, disk
  <2> QED BY <1>0, <2>1 DEF Source, MetadataMatches
<1>9. ASSUME NEW p \in Procs, LoadHead(p) \/ LoadTimeline(p) PROVE Source(p)'
  <2>1. UNCHANGED <<file, base, kind, digest>> /\ Stored' = Stored /\ pc[p] \in KnownSteps
    BY <1>9 DEF LoadHead, LoadTimeline, disk, local, Stored
  <2>2. pc'[p] \in {"store", "append"} \/ (pc'[p] = AfterEnsure(p) /\ HeadIs(timeline, digest[p]))
    BY <1>0, <1>9 DEF LoadHead, LoadTimeline
  <2>3. AfterEnsure(p) # "recheck"
    BY DEF AfterEnsure
  <2>4. HeadIs(timeline, digest[p]) => digest[p] \in Stored
    BY <1>0, HeadInRange DEF StoreFacts, TimelineBacked, Recorded
  <2> HIDE DEF Stored
  <2> QED BY <2>1, <2>2, <2>3, <2>4, OwnSource
<1>10. ASSUME NEW p \in Procs, StoreObject(p) \/ LinkObject(p) PROVE Source(p)'
  <2>1. UNCHANGED <<file, base, kind, digest>> /\ pc[p] \in KnownSteps
    BY <1>10 DEF StoreObject, LinkObject, disk, local
  <2>2. pc'[p] \in {"append_load", "link", "idle", "unlock"}
    BY <1>0, <1>10 DEF StoreObject, LinkObject
  <2> QED BY <2>1, <2>2, OwnSource
<1>11. ASSUME NEW p \in Procs, AppendRevision(p) PROVE Source(p)'
  <2>1. UNCHANGED <<file, base, kind, digest>> /\ pc[p] = "append" /\ Stored' = Stored
    BY <1>11 DEF AppendRevision, local, Stored
  <2>2. pc'[p] \in {"unlock", AfterEnsure(p)} /\ AfterEnsure(p) # "recheck"
    BY <1>0, <1>11 DEF AppendRevision, AfterEnsure
  <2>3. digest[p] \in Stored
    BY <2>1 DEF StoreFacts
  <2> HIDE DEF Stored
  <2> QED BY <2>1, <2>2, <2>3, OwnSource
<1>12. ASSUME NEW p \in Procs, MakePlan(p) \/ Precheck(p) PROVE Source(p)'
  <2>1. UNCHANGED <<file, base, kind, digest>> /\ pc[p] \in KeptSteps /\ Stored' = Stored
    BY <1>12 DEF MakePlan, Precheck, disk, local, Stored
  <2>2. pc'[p] \in {"precheck", "backup", "idle", "unlock"}
    BY <1>0, <1>12 DEF MakePlan, Precheck
  <2>3. kind[p] = "mutate" => digest[p] \in Stored
    BY <1>0, <2>1 DEF Source
  <2> HIDE DEF Stored
  <2> QED BY <2>1, <2>2, <2>3, OwnSource
<1>13. ASSUME NEW p \in Procs, InstallBackup(p) PROVE Source(p)'
  <2>1. /\ UNCHANGED <<file, base, kind, digest>> /\ pc[p] = "backup" /\ pc'[p] = "recheck"
        /\ backup' = file.content /\ Stored' = Stored
    BY <1>0, <1>13 DEF InstallBackup, local, Stored
  <2> HIDE DEF Stored
  <2> QED BY <1>0, <2>1 DEF Source, MetadataMatches
<1>14. ASSUME NEW p \in Procs, Replace(p) PROVE Source(p)'
  <2>1. base' = base /\ file'.stamp = file.stamp + 1 /\ pc'[p] \in {"unlock", "store"}
    BY <1>0, <1>14 DEF Replace
  <2>2. base[p].stamp \in Nat /\ file.stamp \in Nat /\ base[p].stamp <= file.stamp
    BY <1>0 DEF Source, FileState
  <2>3. base'[p].stamp <= file'.stamp /\ ~MetadataMatches(p)'
    BY <2>1, <2>2 DEF MetadataMatches
  <2> QED BY <2>1, <2>3 DEF Source
<1>15. ASSUME NEW p \in Procs, Call(p) \/ Step(p) \/ Fail(p) \/ Crash(p) PROVE Source(p)'
  BY <1>4, <1>5, <1>6, <1>7, <1>8, <1>9, <1>10, <1>11, <1>12, <1>13, <1>14, <1>15
     DEF Step, Ensure, Record, Prepare, Install
<1>16. ASSUME NEW p \in Procs, Call(p) \/ Step(p) \/ Fail(p) \/ Crash(p) PROVE SourceInv'
  BY <1>3, <1>15, <1>16 DEF SourceInv
<1>17. CASE UNCHANGED vars
  BY <1>2, <1>17 DEF vars, disk, local
<1> QED BY <1>1, <1>16, <1>17 DEF Next, Quiescent

\* A call gets to its replacement only with the metadata it mapped.
LEMMA PreparedStep ==
  TypeInv /\ LockInv /\ SourceInv /\ [Next]_vars
    => \A p \in Procs :
          (pc[p] # "replace" /\ pc'[p] = "replace" /\ kind[p] \in {"mutate", "repair"})
          => /\ file = base[p]
             /\ backup = base[p].content
             /\ kind[p] = "mutate" => base[p].content \in Stored
<1> SUFFICES ASSUME TypeInv, LockInv, SourceInv, [Next]_vars, NEW p \in Procs,
                    pc[p] # "replace", pc'[p] = "replace", kind[p] \in {"mutate", "repair"}
             PROVE  /\ file = base[p] /\ backup = base[p].content
                    /\ kind[p] = "mutate" => base[p].content \in Stored
  OBVIOUS
<1>0. pc \in [Procs -> Labels] /\ Locks(p) /\ Source(p)
  BY DEF TypeInv, TypeOK, LockInv, SourceInv
<1>1. pc[p] # "copy_backup" /\ pc[p] # "revalidate"
  BY <1>0 DEF TypeInv, BackupStays, Locks
<1>2. Recheck(p) /\ MetadataMatches(p)
  <2> USE DEF At, Goto, Leave
  <2>1. ASSUME NEW q \in Procs, pc' = [pc EXCEPT ![q] = pc'[q]], pc'[q] # "replace" PROVE FALSE
    BY <1>0, <2>1
  <2>2. PICK q \in Procs : Call(q) \/ Step(q) \/ Fail(q) \/ Crash(q)
    BY DEF Next, Quiescent, Foreign, vars, local
  <2>3. q = p /\ Step(p)
    <3>1. q = p
      BY <1>0, <2>2 DEF Call, Begin, Step, Acquire, Release, Ensure, TakeDigest, LoadHead, Record,
       StoreObject, LinkObject, LoadTimeline, AppendRevision, Prepare, OpenSource, CheckMapped,
       MakePlan, CopyBackup, Revalidate, Install, Precheck, InstallBackup, Recheck, Replace, Prune,
       PruneLoad, PruneWrite, ListVictims, UnlinkObject, PruneDone, Fail, Crash
    <3> QED BY <1>0, <2>2, <3>1 DEF Call, Begin, Fail, Crash
  <2>4. AfterEnsure(p) # "replace"
    BY DEF AfterEnsure
  <2>5. ~(Acquire(p) \/ Release(p) \/ Ensure(p) \/ Record(p) \/ Prune(p))
    BY <1>0, <2>4 DEF Acquire, Release, Ensure, TakeDigest, LoadHead, Record,
       StoreObject, LinkObject, LoadTimeline, AppendRevision, Prune,
       PruneLoad, PruneWrite, ListVictims, UnlinkObject, PruneDone
  <2>6. ~Prepare(p)
    BY <1>0, <1>1 DEF Prepare, OpenSource, CheckMapped, MakePlan, CopyBackup, Revalidate
  <2>7. Recheck(p)
    BY <1>0, <2>3, <2>5, <2>6 DEF Step, Install, Precheck, InstallBackup, Replace
  <2> QED BY <1>0, <2>7 DEF Recheck
<1>3. base[p] = file /\ backup = file.content
  BY <1>0, <1>2 DEF Source, Recheck, At
<1>4. kind[p] = "mutate" => digest[p] = file.content /\ digest[p] \in Stored
  BY <1>0, <1>2 DEF Source, Recheck, At, KnownSteps, KeptSteps
<1> QED BY <1>3, <1>4

\* A call that gets to os.replace prepared its file from what the path still holds, and
\* .bak holds that too; a mutate's is a stored revision.  Other programs may replace the
\* file, and observers and rollbacks write the timeline, at any time
\* (transaction.py:60-133, 210-262).
THEOREM CommitsArePrepared ==
  ASSUME Kinds \cap {"prune", "compact"} = {} \/ Kinds \subseteq LockedKinds
  PROVE  Spec => CommitIsPrepared
<1>1. LockInv /\ TypeInv /\ [Next]_vars => LockInv'
  BY StepLocks
<1>2. TypeInv /\ StoreFacts /\ LockInv /\ SourceInv /\ [Next]_vars => SourceInv'
  BY StepSource
<1>3. TypeInv /\ LockInv /\ SourceInv /\ [Next]_vars
        => [\A p \in Procs :
              (pc[p] # "replace" /\ pc'[p] = "replace" /\ kind[p] \in {"mutate", "repair"})
              => /\ file = base[p]
                 /\ backup = base[p].content
                 /\ kind[p] = "mutate" => base[p].content \in Stored]_vars
  BY PreparedStep
<1>4. CASE Kinds \cap {"prune", "compact"} = {}
  <2>1. Init => BackedInv
    BY DEF Init, BackedInv, RunningKind, TimelineBacked, Recorded, Range, PruneSteps
  <2>2. TypeInv /\ BackedInv /\ [Next]_vars => BackedInv'
    BY <1>4, StepBacked
  <2>3. BackedInv => StoreFacts
    BY DEF BackedInv, StoreFacts, PruneSteps
  <2> QED BY InitSource, <1>1, <1>2, <1>3, <2>1, <2>2, <2>3, TypeCorrect, PTL
          DEF Spec, CommitIsPrepared
<1>5. CASE Kinds \subseteq LockedKinds
  <2>1. Init => CommitInv
    BY DEF Init, CommitInv, RunningKind, OneInside, InsideKnows, TimelineBacked, Recorded, Range, Critical
  <2>2. TypeInv /\ CommitInv /\ [Next]_vars => CommitInv'
    BY <1>5, StepCommit
  <2>3. CommitInv => StoreFacts
    BY DEF CommitInv, StoreFacts, OneInside, InsideKnows, Critical, Labels
  <2> QED BY InitSource, <1>1, <1>2, <1>3, <2>1, <2>2, <2>3, TypeCorrect, PTL
          DEF Spec, CommitIsPrepared
<1> QED BY <1>4, <1>5

(***************************************************************************)
(* The head of the timeline is the file's content whenever no call is in the   *)
(* critical section (HeadIsCurrent), when mutate, repair and compact are the    *)
(* operations.  A repair commits without having recorded what it displaces.    *)
(***************************************************************************)
InsideHead(p) ==
    /\ pc[p] \in {"load"} \cup RecordSteps => digest[p] = file.content
    /\ pc[p] = "prune_load" => HeadIs(timeline, file.content)
    /\ pc[p] = "prune_write" => HeadIs(seen[p], file.content)

\* Until a fault, a file that is not the head is being recorded by who replaced it.
Current ==
    faults = 0 => \/ timeline = <<>>
                  \/ HeadIs(timeline, file.content)
                  \/ \E p \in Procs : pc[p] \in RecordSteps /\ phase[p] = "committed"

HeadsInv == (\A p \in Procs : InsideHead(p)) /\ Current

\* A step of p, which has the lock, to l: what is left to show is about p alone.
LEMMA InsideStep ==
  ASSUME TypeInv, CommitInv, NEW p \in Procs, pc[p] \in Critical, NEW l \in Labels,
         pc' = [pc EXCEPT ![p] = l], InsideHead(p)',
         \/ timeline' = <<>> \/ HeadIs(timeline', file'.content)
         \/ l \in RecordSteps /\ phase'[p] = "committed"
         \/ faults' # 0
  PROVE  HeadsInv'
<1>1. pc'[p] = l /\ \A q \in Procs \ {p} : pc'[q] = pc[q]
  BY DEF TypeInv, TypeOK
<1>2. \A q \in Procs \ {p} : pc[q] \notin Critical
  BY DEF CommitInv, OneInside
<1>3. \A q \in Procs \ {p} : InsideHead(q)'
  BY <1>1, <1>2 DEF InsideHead, Critical, Labels, RecordSteps
<1>4. Current'
  BY <1>1 DEF Current
<1> QED BY <1>3, <1>4 DEF HeadsInv

\* Every step keeps the head current or an operation under way that will make it so.
LEMMA StepHeads ==
  ASSUME Kinds \subseteq {"mutate", "repair", "compact"}, MaxForeign = 0
  PROVE  TypeInv /\ IntactInv /\ CommitInv /\ HeadsInv /\ [Next]_vars => HeadsInv'
<1> SUFFICES ASSUME TypeInv, IntactInv, CommitInv, HeadsInv, [Next]_vars PROVE HeadsInv'
  OBVIOUS
<1>0. /\ pc \in [Procs -> Labels] /\ digest \in [Procs -> Content] /\ seen \in [Procs -> Seq(Content)]
      /\ phase \in [Procs -> {"observed", "committed"}] /\ faults \in Nat
      /\ timeline \in Seq(Content) /\ file \in FileState
      /\ (\A p \in Procs : InsideHead(p)) /\ Current
  BY DEF TypeInv, TypeOK, HeadsInv
<1> USE DEF At, Goto, Leave, RecordSteps
\* When p is inside but not recording, the head is current.
<1>a. ASSUME NEW p \in Procs, pc[p] \in Critical \ RecordSteps, faults = 0
      PROVE  timeline = <<>> \/ HeadIs(timeline, file.content)
  <2>1. \A q \in Procs \ {p} : pc[q] \notin Critical
    BY <1>a DEF CommitInv, OneInside
  <2> QED BY <1>0, <1>a, <2>1 DEF Current, Critical, Labels
<1>1. ASSUME NEW p \in Procs, Call(p) \/ Acquire(p) PROVE HeadsInv'
  <2>1. /\ UNCHANGED <<file, timeline, digest, seen, phase, faults>> /\ pc[p] \in {"idle", "wait_lock"}
        /\ \E l \in {"wait_lock", "digest", "open", "copy_backup"} : pc' = [pc EXCEPT ![p] = l]
    BY <1>1 DEF Call, Begin, Acquire, disk, local, count
  <2>2. /\ pc'[p] \in {"wait_lock", "digest", "open", "copy_backup"}
        /\ \A q \in Procs \ {p} : pc'[q] = pc[q]
    BY <1>0, <2>1
  <2>3. \A q \in Procs : InsideHead(q)'
    BY <1>0, <2>1, <2>2 DEF InsideHead
  <2>4. Current'
    BY <1>0, <2>1, <2>2 DEF Current
  <2> QED BY <2>3, <2>4 DEF HeadsInv
<1>2. ASSUME NEW p \in Procs,
             \/ Prepare(p) \/ Precheck(p) \/ InstallBackup(p) \/ Recheck(p) \/ Release(p)
             \/ ListVictims(p) \/ UnlinkObject(p) \/ PruneDone(p)
      PROVE  HeadsInv'
  <2>1. UNCHANGED <<file, timeline, faults>> /\ pc[p] \in Critical \ RecordSteps
    BY <1>2 DEF Prepare, OpenSource, CheckMapped, MakePlan, CopyBackup, Revalidate, Precheck,
       InstallBackup, Recheck, Release, ListVictims, UnlinkObject, PruneDone, disk, local, count,
       Critical, Labels
  <2>2. \E l \in Labels \ ({"load", "prune_load", "prune_write"} \cup RecordSteps) :
           pc' = [pc EXCEPT ![p] = l]
    <3>1. CASE UnlinkObject(p) /\ pc' = pc
      <4>1. pc' = [pc EXCEPT ![p] = "unlink"]
        BY <1>0, <3>1 DEF UnlinkObject
      <4> QED BY <4>1 DEF Labels
    <3>2. CASE UnlinkObject(p) /\ pc' # pc
      BY <3>2 DEF UnlinkObject, Labels
    <3> QED BY <1>2, <3>1, <3>2 DEF Prepare, OpenSource, CheckMapped, MakePlan, CopyBackup, Revalidate,
       Precheck, InstallBackup, Recheck, Release, ListVictims, PruneDone, Labels
  <2>3. pc'[p] \notin {"load", "prune_load", "prune_write"} \cup RecordSteps
    BY <1>0, <2>2
  <2>4. InsideHead(p)'
    BY <2>3 DEF InsideHead
  <2> QED BY <1>a, <2>1, <2>2, <2>4, InsideStep
<1>3. ASSUME NEW p \in Procs, Fail(p) \/ Crash(p) PROVE HeadsInv'
  <2>1. /\ UNCHANGED <<file, timeline, digest, seen>> /\ faults' # 0
        /\ \E l \in {"unlock", "idle"} : pc' = [pc EXCEPT ![p] = l]
    BY <1>0, <1>3 DEF Fail, Crash, disk, local
  <2>2. pc'[p] \in {"unlock", "idle"} /\ \A q \in Procs \ {p} : pc'[q] = pc[q]
    BY <1>0, <2>1
  <2>3. \A q \in Procs : InsideHead(q)'
    BY <1>0, <2>1, <2>2 DEF InsideHead
  <2> QED BY <2>1, <2>3 DEF HeadsInv, Current
<1>4. ASSUME NEW p \in Procs, TakeDigest(p) PROVE HeadsInv'
  <2>1. /\ UNCHANGED <<file, timeline, faults>> /\ pc[p] \in Critical \ RecordSteps
        /\ pc' = [pc EXCEPT ![p] = "load"] /\ digest'[p] = file.content
    BY <1>0, <1>4 DEF TakeDigest, disk, count, Critical, Labels
  <2>2. InsideHead(p)'
    BY <1>0, <2>1 DEF InsideHead
  <2> QED BY <1>a, <2>1, <2>2, InsideStep DEF Labels
<1>5. ASSUME NEW p \in Procs, LoadHead(p) PROVE HeadsInv'
  <2>1. /\ UNCHANGED <<file, timeline, digest, faults>> /\ pc[p] = "load"
        /\ pc[p] \in Critical \ RecordSteps /\ digest[p] = file.content
    BY <1>0, <1>5 DEF LoadHead, disk, local, count, Critical, Labels, InsideHead
  <2>2. PICK l \in {"store", AfterEnsure(p)} :
           pc' = [pc EXCEPT ![p] = l] /\ (l = "store" \/ HeadIs(timeline, file.content))
    BY <1>5, <2>1 DEF LoadHead
  <2>3. l \in Labels /\ l # "prune_write" /\ (l \in {"load"} \cup RecordSteps => l = "store") /\ pc'[p] = l
    BY <1>0, <2>2 DEF AfterEnsure, Labels
  <2>4. InsideHead(p)'
    BY <2>1, <2>2, <2>3 DEF InsideHead
  <2> QED BY <1>a, <2>1, <2>2, <2>3, <2>4, InsideStep
<1>6. ASSUME NEW p \in Procs, StoreObject(p) \/ LinkObject(p) PROVE HeadsInv'
  <2>1. /\ UNCHANGED <<file, timeline, digest, phase, faults>> /\ pc[p] \in RecordSteps
        /\ pc[p] \in Critical /\ digest[p] = file.content
    BY <1>0, <1>6 DEF StoreObject, LinkObject, disk, local, count, Critical, Labels, InsideHead
  <2>2. digest[p] \in Stored => objects[digest[p]] = digest[p]
    BY DEF IntactInv, TrueToName
  <2>3. \E l \in {"append_load", "link"} : pc' = [pc EXCEPT ![p] = l]
    BY <1>6, <2>1, <2>2 DEF StoreObject, LinkObject
  <2>4. InsideHead(p)'
    BY <1>0, <2>1, <2>3 DEF InsideHead
  <2>5. \A q \in Procs \ {p} : pc[q] \notin RecordSteps
    BY <2>1 DEF CommitInv, OneInside, Critical, Labels
  <2>6. faults = 0 => timeline = <<>> \/ HeadIs(timeline, file.content) \/ phase[p] = "committed"
    BY <1>0, <2>5 DEF Current
  <2> QED BY <2>1, <2>3, <2>4, <2>6, InsideStep DEF Labels
<1>7. ASSUME NEW p \in Procs, LoadTimeline(p) PROVE HeadsInv'
  <2>1. /\ UNCHANGED <<file, timeline, digest, phase, faults>> /\ pc[p] = "append_load"
        /\ pc[p] \in Critical /\ digest[p] = file.content
    BY <1>0, <1>7 DEF LoadTimeline, disk, count, Critical, Labels, InsideHead
  <2>2. PICK l \in {"append", AfterEnsure(p)} :
           pc' = [pc EXCEPT ![p] = l] /\ (l = "append" \/ HeadIs(timeline, file.content))
    BY <1>7, <2>1 DEF LoadTimeline
  <2>3. l \in Labels /\ l # "prune_write" /\ (l \in {"load"} \cup RecordSteps => l = "append") /\ pc'[p] = l
    BY <1>0, <2>2 DEF AfterEnsure, Labels
  <2>4. InsideHead(p)'
    BY <2>1, <2>2, <2>3 DEF InsideHead
  <2>5. \A q \in Procs \ {p} : pc[q] \notin RecordSteps
    BY <2>1 DEF CommitInv, OneInside, Critical, Labels
  <2>6. faults = 0 => timeline = <<>> \/ HeadIs(timeline, file.content) \/ phase[p] = "committed"
    BY <1>0, <2>5 DEF Current
  <2> QED BY <2>1, <2>2, <2>3, <2>4, <2>6, InsideStep
<1>8. ASSUME NEW p \in Procs, AppendRevision(p) PROVE HeadsInv'
  <2>1. /\ UNCHANGED file /\ pc[p] \in Critical /\ digest[p] = file.content
        /\ timeline' = Append(seen[p], digest[p])
    BY <1>0, <1>8 DEF AppendRevision, Critical, Labels, InsideHead
  <2>2. HeadIs(timeline', file'.content)
    BY <1>0, <2>1, AppendFacts
  <2>3. PICK l \in {"unlock", AfterEnsure(p)} : pc' = [pc EXCEPT ![p] = l]
    BY <1>8 DEF AppendRevision
  <2>4. l \in Labels /\ l \notin {"load", "prune_write"} \cup RecordSteps /\ pc'[p] = l
    BY <1>0, <2>3 DEF AfterEnsure, Labels
  <2>5. InsideHead(p)'
    BY <2>2, <2>4 DEF InsideHead
  <2> QED BY <2>1, <2>2, <2>3, <2>4, <2>5, InsideStep
<1>9. ASSUME NEW p \in Procs, Replace(p) PROVE HeadsInv'
  <2>1. pc[p] \in Critical /\ kind[p] # "restore_backup"
    BY <1>9 DEF Replace, Critical, Labels, CommitInv, RunningKind
  <2>2. /\ file'.content = dst[p] /\ digest'[p] = dst[p] /\ phase'[p] = "committed"
        /\ pc' = [pc EXCEPT ![p] = "store"]
    BY <1>0, <1>9, <2>1 DEF Replace
  <2>3. InsideHead(p)'
    BY <1>0, <2>2 DEF InsideHead
  <2> QED BY <2>1, <2>2, <2>3, InsideStep DEF Labels
<1>10. ASSUME NEW p \in Procs, PruneLoad(p) PROVE HeadsInv'
  <2>1. PICK keep \in 1..MaxKeep : seen' = [seen EXCEPT ![p] = Retained(timeline, keep)]
    BY <1>10 DEF PruneLoad
  <2>2. /\ UNCHANGED <<file, timeline>> /\ pc[p] \in Critical /\ pc' = [pc EXCEPT ![p] = "prune_write"]
        /\ HeadIs(timeline, file.content)
    BY <1>0, <1>10 DEF PruneLoad, disk, Critical, Labels, InsideHead
  <2>3. HeadIs(Retained(timeline, keep), file.content)
    <3>1. keep \in Nat \ {0}
      BY ConstantsOK
    <3> QED BY <1>0, <2>2, <3>1, RetainedFacts
  <2>4. InsideHead(p)'
    BY <1>0, <2>1, <2>2, <2>3 DEF InsideHead
  <2> QED BY <2>2, <2>4, InsideStep DEF Labels
<1>11. ASSUME NEW p \in Procs, PruneWrite(p) PROVE HeadsInv'
  <2>1. /\ UNCHANGED file /\ timeline' = seen[p] /\ pc[p] \in Critical /\ pc' = [pc EXCEPT ![p] = "glob"]
        /\ HeadIs(seen[p], file.content)
    BY <1>0, <1>11 DEF PruneWrite, Critical, Labels, InsideHead
  <2>2. InsideHead(p)'
    BY <1>0, <2>1 DEF InsideHead
  <2> QED BY <2>1, <2>2, InsideStep DEF Labels
<1>12. ASSUME NEW c \in Content, Foreign(c) PROVE HeadsInv'
  BY <1>12, ConstantsOK DEF Foreign, TypeInv, TypeOK
<1>13. CASE UNCHANGED vars
  BY <1>0, <1>13 DEF vars, disk, local, count, HeadsInv, InsideHead, Current
<1> QED
  BY <1>1, <1>2, <1>3, <1>4, <1>5, <1>6, <1>7, <1>8, <1>9, <1>10, <1>11, <1>12, <1>13
     DEF Next, Step, Ensure, Record, Install, Prune, Quiescent

\* Between calls the head of the timeline is the file, as long as nothing fails
\* (docs/REVISION_MODEL_1_4.md:14, transaction.py:210-262, 264-296).
THEOREM HeadStaysCurrent ==
  ASSUME Kinds \subseteq {"mutate", "repair", "compact"}, MaxForeign = 0
  PROVE  Spec => []HeadIsCurrent
<1>1. Init => IntactInv /\ CommitInv /\ HeadsInv
  BY DEF Init, IntactInv, TrueToName, CopyVerified, Stored, CommitInv, RunningKind, OneInside,
         InsideKnows, TimelineBacked, Recorded, Range, Critical, HeadsInv, InsideHead, Current,
         RecordSteps
<1>2. TypeInv /\ IntactInv /\ [Next]_vars => IntactInv'
  BY StepIntact
<1>3. TypeInv /\ CommitInv /\ [Next]_vars => CommitInv'
  BY StepCommit DEF LockedKinds
<1>4. TypeInv /\ IntactInv /\ CommitInv /\ HeadsInv /\ [Next]_vars => HeadsInv'
  BY StepHeads
<1>5. CommitInv /\ HeadsInv => HeadIsCurrent
  <2> SUFFICES ASSUME CommitInv, HeadsInv, lock = Free, faults = 0
               PROVE  timeline = <<>> \/ HeadIs(timeline, file.content)
    BY DEF HeadIsCurrent
  <2>1. \A p \in Procs : pc[p] \notin Critical
    BY ConstantsOK DEF CommitInv, OneInside
  <2> QED BY <2>1 DEF HeadsInv, Current, Critical, Labels, RecordSteps
<1> QED BY <1>1, <1>2, <1>3, <1>4, <1>5, TypeCorrect, PTL DEF Spec

(***************************************************************************)
(* The timeline only grows at its end, or loses its oldest entries            *)
(* (TimelineAppendsOrForgets), when every operation takes the lock.           *)
(***************************************************************************)
LEMMA AppendKeepsPrefix ==
  ASSUME NEW log \in Seq(Content), NEW r \in Content
  PROVE  IsPrefix(log, Append(log, r))
<1>1. /\ Append(log, r) \in Seq(Content) /\ Len(Append(log, r)) = Len(log) + 1
      /\ \A i \in 1..Len(log) : Append(log, r)[i] = log[i]
  BY AppendProperties
<1>2. PICK n \in Nat : n = Len(log)
  OBVIOUS
<1> DEFINE s == SubSeq(log, 1, n)
           t == SubSeq(Append(log, r), 1, n)
<1>3. /\ s \in Seq(Content) /\ Len(s) = n /\ \A i \in 1..n : s[i] = log[i]
  <2>1. \A i \in 1..n : log[i] \in Content
    BY <1>2
  <2>2. /\ s \in Seq(Content) /\ Len(s) = (IF 1 <= n THEN n - 1 + 1 ELSE 0)
        /\ \A i \in 1..n - 1 + 1 : s[i] = log[1 + i - 1]
    BY <1>2, <2>1, SubSeqProperties
  <2> HIDE DEF s
  <2> QED BY <1>2, <2>2
<1>4. /\ t \in Seq(Content) /\ Len(t) = n /\ \A i \in 1..n : t[i] = Append(log, r)[i]
  <2>1. \A i \in 1..n : Append(log, r)[i] \in Content
    BY <1>1, <1>2
  <2>2. /\ t \in Seq(Content) /\ Len(t) = (IF 1 <= n THEN n - 1 + 1 ELSE 0)
        /\ \A i \in 1..n - 1 + 1 : t[i] = Append(log, r)[1 + i - 1]
    BY <1>1, <1>2, <2>1, SubSeqProperties
  <2> HIDE DEF t
  <2> QED BY <1>2, <2>2
<1>5. s = t
  <2>1. \A i \in 1..n : s[i] = t[i]
    BY <1>1, <1>2, <1>3, <1>4
  <2> HIDE DEF s, t
  <2> QED BY <1>3, <1>4, <2>1, SeqEqual
<1> QED BY <1>1, <1>2, <1>5 DEF IsPrefix

\* A sequence of Content is a suffix of another when it is its last entries.
LEMMA LastEntries ==
  ASSUME NEW a \in Seq(Content), NEW b \in Seq(Content), Len(a) <= Len(b),
         \A i \in 1..Len(a) : a[i] = b[Len(b) - Len(a) + i]
  PROVE  IsSuffix(a, b)
<1>0. PICK n \in Nat : n = Len(a)
  OBVIOUS
<1>1. PICK m \in Nat : m = Len(b)
  OBVIOUS
<1> DEFINE ra == Reverse(a)
           rb == Reverse(b)
<1>2. n <= m /\ \A i \in 1..n : a[i] = b[m - n + i]
  BY <1>0, <1>1
<1>3. /\ ra \in Seq(Content) /\ Len(ra) = n
      /\ \A i \in 1..n : ra[i] = a[(n - i) + 1]
  <2>1. ra = [i \in 1..n |-> a[(n - i) + 1]]
    BY <1>0 DEF Reverse
  <2>2. \A i \in 1..n : a[(n - i) + 1] \in Content
    <3>1. \A i \in 1..n : (n - i) + 1 \in 1..n
      OBVIOUS
    <3> QED BY <1>0, <3>1
  <2> HIDE DEF ra
  <2>3. ra \in [1..n -> Content]
    BY <2>1, <2>2
  <2>4. ra \in Seq(Content) /\ Len(ra) = n
    BY <2>3, SeqDef, LenProperties
  <2> QED BY <2>1, <2>4
<1>4. /\ rb \in Seq(Content) /\ Len(rb) = m
      /\ \A i \in 1..m : rb[i] = b[(m - i) + 1]
  <2>1. rb = [i \in 1..m |-> b[(m - i) + 1]]
    BY <1>1 DEF Reverse
  <2>2. \A i \in 1..m : b[(m - i) + 1] \in Content
    <3>1. \A i \in 1..m : (m - i) + 1 \in 1..m
      OBVIOUS
    <3> QED BY <1>1, <3>1
  <2> HIDE DEF rb
  <2>3. rb \in [1..m -> Content]
    BY <2>1, <2>2
  <2>4. rb \in Seq(Content) /\ Len(rb) = m
    BY <2>3, SeqDef, LenProperties
  <2> QED BY <2>1, <2>4
<1>5. \A i \in 1..n : ra[i] = rb[i]
  <2> SUFFICES ASSUME NEW i \in 1..n PROVE ra[i] = rb[i]
    OBVIOUS
  <2>1. i \in 1..m /\ (n - i) + 1 \in 1..n /\ m - n + ((n - i) + 1) = (m - i) + 1
    BY <1>2
  <2>2. a[(n - i) + 1] = b[(m - i) + 1]
    BY <1>2, <2>1
  <2> HIDE DEF ra, rb
  <2> QED BY <1>3, <1>4, <2>1, <2>2
<1> HIDE DEF ra, rb
<1>6. IsPrefix(ra, rb)
  <2> DEFINE s == SubSeq(ra, 1, n)
             t == SubSeq(rb, 1, n)
  <2>1. /\ s \in Seq(Content) /\ Len(s) = n /\ \A i \in 1..n : s[i] = ra[i]
    <3>1. \A i \in 1..n : ra[i] \in Content
      BY <1>3
    <3>2. /\ s \in Seq(Content) /\ Len(s) = (IF 1 <= n THEN n - 1 + 1 ELSE 0)
          /\ \A i \in 1..n - 1 + 1 : s[i] = ra[1 + i - 1]
      BY <1>3, <3>1, SubSeqProperties
    <3> HIDE DEF s
    <3> QED BY <3>2
  <2>2. /\ t \in Seq(Content) /\ Len(t) = n /\ \A i \in 1..n : t[i] = rb[i]
    <3>1. \A i \in 1..n : rb[i] \in Content
      BY <1>2, <1>4
    <3>2. /\ t \in Seq(Content) /\ Len(t) = (IF 1 <= n THEN n - 1 + 1 ELSE 0)
          /\ \A i \in 1..n - 1 + 1 : t[i] = rb[1 + i - 1]
      BY <1>2, <1>4, <3>1, SubSeqProperties
    <3> HIDE DEF t
    <3> QED BY <3>2
  <2>3. s = t
    <3>1. \A i \in 1..n : s[i] = t[i]
      BY <1>5, <2>1, <2>2
    <3> HIDE DEF s, t
    <3> QED BY <2>1, <2>2, <3>1, SeqEqual
  <2> QED BY <1>2, <1>3, <1>4, <2>3 DEF IsPrefix
<1> QED BY <1>6 DEF IsSuffix, ra, rb

\* What prune_revisions retains is the newest part of the timeline.
LEMMA RetainedIsSuffix ==
  ASSUME NEW log \in Seq(Content), NEW keep \in Nat \ {0}
  PROVE  IsSuffix(Retained(log, keep), log)
<1>1. CASE ~(keep < Len(log))
  <2>1. Len(log) <= Len(log) /\ \A i \in 1..Len(log) : Len(log) - Len(log) + i = i
    <3>1. PICK n \in Nat : n = Len(log)
      OBVIOUS
    <3> QED BY <3>1
  <2>2. IsSuffix(log, log)
    BY <2>1, LastEntries
  <2> QED BY <1>1, <2>2 DEF Retained
<1>2. CASE keep < Len(log)
  <2>1. PICK n \in Nat : n = Len(log)
    OBVIOUS
  <2> DEFINE m == n - keep + 1
             s == SubSeq(log, m, n)
  <2>2. m \in 1..n /\ keep < n /\ n - m + 1 = keep
    BY <1>2, <2>1
  <2>3. s \in Seq(Content) /\ Len(s) = keep /\ \A i \in 1..keep : s[i] = log[m + i - 1]
    <3>1. \A i \in m..n : log[i] \in Content
      BY <2>1, <2>2
    <3> HIDE DEF m
    <3>2. /\ s \in Seq(Content) /\ Len(s) = (IF m <= n THEN n - m + 1 ELSE 0)
          /\ \A i \in 1..n - m + 1 : s[i] = log[m + i - 1]
      BY <2>2, <3>1, SubSeqProperties
    <3> HIDE DEF s
    <3> QED BY <2>2, <3>2
  <2>4. \A i \in 1..keep : m + i - 1 = n - keep + i
    BY <2>2
  <2> HIDE DEF s
  <2>5. Len(s) <= Len(log) /\ \A i \in 1..Len(s) : s[i] = log[Len(log) - Len(s) + i]
    BY <2>1, <2>2, <2>3, <2>4
  <2>6. IsSuffix(s, log)
    BY <2>3, <2>5, LastEntries
  <2> QED BY <1>2, <2>1, <2>6 DEF Retained, s
<1> QED BY <1>1, <1>2

\* A prune under the lock is about to write the newest part of the timeline.
ForgetsOldest == \A p \in Procs : pc[p] = "prune_write" => IsSuffix(seen[p], timeline)

\* Only PruneLoad goes to prune_write, and nobody writes the timeline before PruneWrite.
LEMMA StepForgets ==
  ASSUME Kinds \subseteq LockedKinds
  PROVE  TypeInv /\ CommitInv /\ ForgetsOldest /\ [Next]_vars => ForgetsOldest'
<1> SUFFICES ASSUME TypeInv, CommitInv, ForgetsOldest, [Next]_vars PROVE ForgetsOldest'
  OBVIOUS
<1>0. /\ pc \in [Procs -> Labels] /\ seen \in [Procs -> Seq(Content)] /\ timeline \in Seq(Content)
      /\ \A p \in Procs : pc[p] = "prune_write" => IsSuffix(seen[p], timeline)
  BY DEF TypeInv, TypeOK, ForgetsOldest
<1> USE DEF At, Goto, Leave
<1>a. \A p \in Procs : AfterEnsure(p) # "prune_write"
  BY DEF AfterEnsure
<1>1. ASSUME NEW p \in Procs, UNCHANGED timeline, \A q \in Procs \ {p} : seen'[q] = seen[q],
             NEW l, l # "prune_write", pc' = [pc EXCEPT ![p] = l]
      PROVE  ForgetsOldest'
  BY <1>0, <1>1 DEF ForgetsOldest
<1>2. ASSUME NEW p \in Procs, Call(p) \/ Acquire(p) \/ Release(p) PROVE ForgetsOldest'
  <2>1. UNCHANGED <<timeline, seen>>
    BY <1>2 DEF Call, Begin, Acquire, Release, disk, local
  <2>2. \E l : l # "prune_write" /\ pc' = [pc EXCEPT ![p] = l]
    BY <1>2 DEF Call, Begin, Acquire, Release
  <2> QED BY <1>1, <2>1, <2>2
<1>3. ASSUME NEW p \in Procs, Prepare(p) \/ Install(p) \/ Ensure(p) PROVE ForgetsOldest'
  <2>1. UNCHANGED <<timeline, seen>>
    BY <1>3 DEF Prepare, OpenSource, CheckMapped, MakePlan, CopyBackup, Revalidate, Install, Precheck,
       InstallBackup, Recheck, Replace, Ensure, TakeDigest, LoadHead, disk, local
  <2>2. \E l : l # "prune_write" /\ pc' = [pc EXCEPT ![p] = l]
    BY <1>3, <1>a DEF Prepare, OpenSource, CheckMapped, MakePlan, CopyBackup, Revalidate, Install, Precheck,
       InstallBackup, Recheck, Replace, Ensure, TakeDigest, LoadHead
  <2> QED BY <1>1, <2>1, <2>2
<1>4. ASSUME NEW p \in Procs, StoreObject(p) \/ LinkObject(p) \/ LoadTimeline(p) PROVE ForgetsOldest'
  <2>1. UNCHANGED timeline /\ \A q \in Procs \ {p} : seen'[q] = seen[q]
    BY <1>0, <1>4 DEF StoreObject, LinkObject, LoadTimeline, disk, local
  <2>2. \E l : l # "prune_write" /\ pc' = [pc EXCEPT ![p] = l]
    BY <1>4, <1>a DEF StoreObject, LinkObject, LoadTimeline
  <2> QED BY <1>1, <2>1, <2>2
<1>5. ASSUME NEW p \in Procs, AppendRevision(p) \/ PruneWrite(p) PROVE ForgetsOldest'
  <2>1. pc[p] \in Critical /\ \E l : l # "prune_write" /\ pc' = [pc EXCEPT ![p] = l]
    BY <1>5, <1>a DEF AppendRevision, PruneWrite, Critical, Labels
  <2>2. \A q \in Procs : pc'[q] # "prune_write"
    BY <1>0, <2>1 DEF CommitInv, OneInside, Critical, Labels
  <2> QED BY <2>2 DEF ForgetsOldest
<1>6. ASSUME NEW p \in Procs, PruneLoad(p) PROVE ForgetsOldest'
  <2>1. PICK keep \in 1..MaxKeep : seen' = [seen EXCEPT ![p] = Retained(timeline, keep)]
    BY <1>6 DEF PruneLoad
  <2>2. UNCHANGED timeline /\ pc' = [pc EXCEPT ![p] = "prune_write"]
    BY <1>6 DEF PruneLoad, disk
  <2>3. IsSuffix(Retained(timeline, keep), timeline)
    <3>1. keep \in Nat \ {0}
      BY ConstantsOK
    <3> QED BY <1>0, <3>1, RetainedIsSuffix
  <2> QED BY <1>0, <2>1, <2>2, <2>3 DEF ForgetsOldest
<1>7. ASSUME NEW p \in Procs, ListVictims(p) \/ PruneDone(p) \/ Fail(p) \/ Crash(p) PROVE ForgetsOldest'
  <2>1. UNCHANGED <<timeline, seen>>
    BY <1>7 DEF ListVictims, PruneDone, Fail, Crash, disk, local
  <2>2. \E l : l # "prune_write" /\ pc' = [pc EXCEPT ![p] = l]
    BY <1>7 DEF ListVictims, PruneDone, Fail, Crash
  <2> QED BY <1>1, <2>1, <2>2
<1>8. ASSUME NEW p \in Procs, UnlinkObject(p) PROVE ForgetsOldest'
  <2>1. UNCHANGED <<timeline, seen>>
    BY <1>8 DEF UnlinkObject
  <2>2. UNCHANGED pc \/ \E l : l # "prune_write" /\ pc' = [pc EXCEPT ![p] = l]
    BY <1>8 DEF UnlinkObject
  <2> QED BY <1>0, <1>1, <2>1, <2>2 DEF ForgetsOldest
<1>9. ASSUME NEW c \in Content, Foreign(c) PROVE ForgetsOldest'
  BY <1>0, <1>9 DEF Foreign, local, ForgetsOldest
<1>10. CASE UNCHANGED vars
  BY <1>0, <1>10 DEF vars, disk, local, ForgetsOldest
<1> QED BY <1>2, <1>3, <1>4, <1>5, <1>6, <1>7, <1>8, <1>9, <1>10 DEF Next, Step, Record, Prune, Quiescent

\* The step itself: what replaces the timeline appends to it or is its newest part.
LEMMA TimelineStep ==
  ASSUME TypeInv, CommitInv, ForgetsOldest, [Next]_vars
  PROVE  [IsPrefix(timeline, timeline') \/ IsSuffix(timeline', timeline)]_timeline
<1>0. seen \in [Procs -> Seq(Content)] /\ digest \in [Procs -> Content] /\ timeline \in Seq(Content)
  BY DEF TypeInv, TypeOK
<1>1. CASE \E p \in Procs : AppendRevision(p)
  <2>1. PICK p \in Procs : timeline' = Append(seen[p], digest[p]) /\ seen[p] = timeline
    BY <1>1 DEF AppendRevision, At, CommitInv, InsideKnows
  <2> QED BY <1>0, <2>1, AppendKeepsPrefix
<1>2. CASE \E p \in Procs : PruneWrite(p)
  BY <1>2 DEF PruneWrite, At, ForgetsOldest
<1>3. CASE ~(\E p \in Procs : AppendRevision(p) \/ PruneWrite(p))
  <2>1. ASSUME NEW p \in Procs, Step(p) PROVE UNCHANGED timeline
    BY <1>3, <2>1 DEF Step, Ensure, Record, Prepare, Install, Prune, Acquire, Release, TakeDigest, LoadHead,
       StoreObject, LinkObject, LoadTimeline, OpenSource, CheckMapped, MakePlan, CopyBackup, Revalidate,
       Precheck, InstallBackup, Recheck, Replace, PruneLoad, ListVictims, UnlinkObject, PruneDone, disk
  <2>2. ASSUME NEW p \in Procs, Call(p) \/ Fail(p) \/ Crash(p) PROVE UNCHANGED timeline
    BY <2>2 DEF Call, Begin, Fail, Crash, disk
  <2>3. ASSUME NEW c \in Content, Foreign(c) PROVE UNCHANGED timeline
    BY <2>3 DEF Foreign
  <2>4. CASE UNCHANGED vars
    BY <2>4 DEF vars, disk
  <2> QED BY <2>1, <2>2, <2>3, <2>4 DEF Next, Quiescent
<1> QED BY <1>1, <1>2, <1>3

\* Nobody rewrites the history of a VFS: revisions are added at the end of the
\* timeline, or its oldest ones forgotten (revisions.py:178-196, prune_revisions).
THEOREM TimelineIsNotRewritten ==
  ASSUME Kinds \subseteq LockedKinds
  PROVE  Spec => TimelineAppendsOrForgets
<1>1. Init => CommitInv /\ ForgetsOldest
  BY DEF Init, CommitInv, RunningKind, OneInside, InsideKnows, TimelineBacked, Recorded, Range, Critical,
         ForgetsOldest
<1>2. TypeInv /\ CommitInv /\ [Next]_vars => CommitInv'
  BY StepCommit
<1>3. TypeInv /\ CommitInv /\ ForgetsOldest /\ [Next]_vars => ForgetsOldest'
  BY StepForgets
<1>4. TypeInv /\ CommitInv /\ ForgetsOldest /\ [Next]_vars
      => [IsPrefix(timeline, timeline') \/ IsSuffix(timeline', timeline)]_timeline
  BY TimelineStep
<1> QED BY <1>1, <1>2, <1>3, <1>4, TypeCorrect, PTL DEF Spec, TimelineAppendsOrForgets
=============================================================================
