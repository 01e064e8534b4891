------------------------ MODULE SurgicalRepair_proofs ------------------------
(***************************************************************************)
(* Machine-checked theorems about SurgicalRepair, for all processes,         *)
(* variables, payloads and bounds, with overlapping calls, damage and        *)
(* crashes anywhere.                                                       *)
(***************************************************************************)
EXTENDS SurgicalRepair, TLAPS

(***************************************************************************)
(* Types.                                                                  *)
(***************************************************************************)
LEMMA InstallTyped ==
  ASSUME TypeOK, NEW k, Install(k)
  PROVE  file' \in FileStates
<1>1. CASE file' \in store \/ file' = bak
  BY <1>1 DEF TypeOK
<1>2. ASSUME NEW n \in Names, NEW v \in Values,
             file' = [file EXCEPT !.recs[n] = [value |-> v, wear |-> {}]]
      PROVE  file' \in FileStates
  BY <1>2 DEF TypeOK, FileStates, Pieces
<1>3. ASSUME NEW fr \in [value : Frames, wear : SUBSET file.frame.wear],
             NEW re \in [value : Layouts, wear : SUBSET file.rest.wear],
             file' = [file EXCEPT !.frame = fr, !.rest = re]
      PROVE  file' \in FileStates
  <2>1. fr \in Pieces(Frames) /\ re \in Pieces(Layouts)
    BY DEF TypeOK, FileStates, Pieces
  <2> QED BY <1>3, <2>1 DEF TypeOK, FileStates
<1> QED BY <1>1, <1>2, <1>3 DEF Install

\* What is recorded is neither untyped nor spoiled.
LEMMA RecordTyped ==
  ASSUME TypeOK, NEW states \in SUBSET FileStates, Record(states), spoiled' = spoiled
  PROVE  store' \subseteq FileStates /\ spoiled' \subseteq FileStates /\ store' \cap spoiled' = {}
BY DEF TypeOK, Record

\* A piece struck or mixed is one.
LEMMA WearTyped ==
  ASSUME NEW S, NEW piece \in Pieces(S), NEW m \in Marks
  PROVE  [piece EXCEPT !.wear = @ \cup {m}] \in Pieces(S)
BY DEF Pieces

\* What a repair may want is a record.
LEMMA SourcesTyped ==
  ASSUME TypeOK, NEW p \in Procs, NEW n \in Names
  PROVE  Sources(p, n) \subseteq Pieces(Values)
<1>1. \A r \in store : r.recs[n] \in Pieces(Values)
  BY DEF TypeOK, FileStates
<1>2. raw[p].recs[n] \in Pieces(Values)
  BY DEF TypeOK, FileStates
<1>3. [raw[p].recs[n] EXCEPT !.wear = @ \cup {Mixed}] \in Pieces(Values)
  BY <1>2, WearTyped DEF Marks
<1> QED BY <1>1, <1>2, <1>3 DEF Sources, Trusted

\* A repaired file is one: its frame is the file's, its records those wanted.
LEMMA FixTyped ==
  ASSUME TypeOK, NEW p \in Procs, Fix(p)
  PROVE  /\ file' \in FileStates
         /\ file'.frame = file.frame /\ file'.rest \in Remains(p)
         /\ \A n \in Names : file'.recs[n] = IF n \in hit[p] \/ Spilled(p)
                                             THEN patch[p][n] ELSE file.recs[n]
<1> DEFINE recs == [n \in Names |-> IF n \in hit[p] \/ Spilled(p) THEN patch[p][n] ELSE file.recs[n]]
<1>1. file.recs \in [Names -> Pieces(Values)] /\ patch[p] \in [Names -> Pieces(Values)]
  BY DEF TypeOK, FileStates
<1>2. recs \in [Names -> Pieces(Values)]
  BY <1>1
<1>3. PICK re \in Remains(p) : file' = [file EXCEPT !.rest = re, !.recs = recs]
  BY DEF Fix
<1>4. re \in Pieces(Layouts)
  <2>1. file.rest \in Pieces(Layouts) /\ raw[p].rest \in Pieces(Layouts) /\ seen[p].rest \in Pieces(Layouts)
    BY DEF TypeOK, FileStates
  <2> QED BY <2>1 DEF Remains, Pieces, Marks
<1> HIDE DEF recs
<1>5. file' = [frame |-> file.frame, rest |-> re, recs |-> recs]
  BY <1>3 DEF TypeOK, FileStates
<1>6. file' \in FileStates /\ file'.frame = file.frame /\ file'.rest = re /\ file'.recs = recs
  BY <1>2, <1>4, <1>5 DEF TypeOK, FileStates
<1> QED BY <1>6 DEF recs

\* Damage leaves each piece as it was, or wears it.
LEMMA DamageTyped ==
  ASSUME TypeOK, DamageFile
  PROVE  /\ file' \in FileStates
         /\ file'.frame \in {file.frame, Struck(file.frame)}
         /\ file'.rest \in {file.rest, Struck(file.rest)}
         /\ \A n \in Names : file'.recs[n] \in {file.recs[n], Struck(file.recs[n])}
<1>1. PICK fr \in {file.frame, Struck(file.frame)}, re \in {file.rest, Struck(file.rest)},
           struck \in SUBSET Names :
        file' = [frame |-> fr, rest |-> re,
                 recs |-> [n \in Names |-> IF n \in struck THEN Struck(file.recs[n]) ELSE file.recs[n]]]
  BY DEF DamageFile
<1>2. damage + 1 \in Marks
  BY RepairConstantsOK DEF DamageFile, TypeOK, Marks
<1>3. \A n \in Names : file.recs[n] \in Pieces(Values) /\ Struck(file.recs[n]) \in Pieces(Values)
  <2>1. ASSUME NEW n \in Names PROVE Struck(file.recs[n]) \in Pieces(Values)
    <3>1. file.recs[n] \in Pieces(Values)
      BY DEF TypeOK, FileStates
    <3> QED BY <1>2, <3>1, WearTyped DEF Struck
  <2> QED BY <2>1 DEF TypeOK, FileStates
<1>4. fr \in Pieces(Frames) /\ re \in Pieces(Layouts)
  <2>1. file.frame \in Pieces(Frames) /\ file.rest \in Pieces(Layouts)
    BY DEF TypeOK, FileStates
  <2>2. Struck(file.frame) \in Pieces(Frames)
    BY <1>2, <2>1, WearTyped DEF Struck
  <2>3. Struck(file.rest) \in Pieces(Layouts)
    BY <1>2, <2>1, WearTyped DEF Struck
  <2> QED BY <2>1, <2>2, <2>3
<1>5. [n \in Names |-> IF n \in struck THEN Struck(file.recs[n]) ELSE file.recs[n]]
        \in [Names -> Pieces(Values)]
  BY <1>3
<1> QED BY <1>1, <1>4, <1>5 DEF FileStates

\* The types hold at the start.
LEMMA TypeOKInit == Init => TypeOK
BY RepairConstantsOK DEF Init, TypeOK, FileStates, Labels, FirstStep

\* Every step keeps the types.
LEMMA TypeOKStep == TypeOK /\ [Next]_vars => TypeOK'
<1> SUFFICES ASSUME TypeOK, [Next]_vars PROVE TypeOK'
  OBVIOUS
<1> USE RepairConstantsOK
<1>1. ASSUME NEW p \in Procs, NEW k \in Kinds, Begin(p, k) PROVE TypeOK'
  <2>1. k \in DOMAIN FirstStep /\ FirstStep[k] \in Labels
    BY DEF FirstStep, Labels
  <2> QED BY <1>1, <2>1 DEF Begin, Goto, TypeOK, disk, local
<1>2. ASSUME NEW p \in Procs, Commit(p) PROVE TypeOK'
  <2>1. file' \in FileStates
    BY <1>2, InstallTyped DEF Commit
  <2>2. store' \subseteq FileStates /\ spoiled' \subseteq FileStates /\ store' \cap spoiled' = {}
    BY <1>2, <2>1, RecordTyped DEF Commit, TypeOK
  <2>3. AfterCommit(kind[p]) \in Labels
    BY DEF AfterCommit, Labels
  <2> QED BY <1>2, <2>1, <2>2, <2>3 DEF Commit, Goto, TypeOK, local
<1>3. ASSUME NEW p \in Procs, Refuse(p) PROVE TypeOK'
  <2>1. store' \subseteq FileStates /\ spoiled' \subseteq FileStates /\ store' \cap spoiled' = {}
    BY <1>3, RecordTyped DEF Refuse, TypeOK
  <2> QED BY <1>3, <2>1 DEF Refuse, Goto, TypeOK, Labels, local
<1>4. ASSUME NEW p \in Procs, List(p) PROVE TypeOK'
  <2>1. store' \subseteq FileStates /\ spoiled' \subseteq FileStates /\ store' \cap spoiled' = {}
    BY <1>4, RecordTyped DEF List, TypeOK
  <2> QED BY <1>4, <2>1 DEF List, Goto, TypeOK, Labels, local
<1>5. ASSUME NEW p \in Procs, Build(p) PROVE TypeOK'
  BY <1>5 DEF Build, Goto, TypeOK, Labels, disk, local
<1>6. ASSUME NEW p \in Procs, BuildFails(p) PROVE TypeOK'
  BY <1>6 DEF BuildFails, Goto, TypeOK, Labels, disk, local
<1>7. ASSUME NEW p \in Procs, Publish(p) PROVE TypeOK'
  BY <1>7 DEF Publish, Goto, TypeOK, Labels, disk, local
<1>8. ASSUME NEW p \in Procs, LoadMap(p) PROVE TypeOK'
  BY <1>8 DEF LoadMap, Goto, TypeOK, Labels, disk, local
<1>9. ASSUME NEW p \in Procs, ReadRaw(p) PROVE TypeOK'
  <2>1. PICK H \in SUBSET Names :
          /\ hit' = [hit EXCEPT ![p] = H]
          /\ Goto(p, IF Repairable(file, seen[p], H) THEN "choose" ELSE "idle")
    BY <1>9 DEF ReadRaw, Failed
  <2>2. hit' \in [Procs -> SUBSET Names] /\ raw' \in [Procs -> FileStates]
    BY <1>9, <2>1 DEF ReadRaw, TypeOK
  <2>3. pc' \in [Procs -> Labels]
    BY <2>1 DEF Goto, TypeOK, Labels
  <2> QED BY <1>9, <2>2, <2>3 DEF ReadRaw, TypeOK, disk
<1>10. ASSUME NEW p \in Procs, Choose(p) PROVE TypeOK'
  <2>1. patch' \in [Procs -> [Names -> Pieces(Values)]]
    BY <1>10, SourcesTyped DEF Choose, TypeOK
  <2> QED BY <1>10, <2>1 DEF Choose, Goto, TypeOK, Labels, disk
<1>11. ASSUME NEW p \in Procs, NoCandidate(p) PROVE TypeOK'
  BY <1>11 DEF NoCandidate, Goto, TypeOK, Labels, disk, local
<1>12. ASSUME NEW p \in Procs, FixRefused(p) PROVE TypeOK'
  BY <1>12 DEF FixRefused, Goto, TypeOK, Labels, disk, local
<1>13. ASSUME NEW p \in Procs, Crash(p) PROVE TypeOK'
  <2>1. serial' \in BOOLEAN
    BY <1>13 DEF Crash
  <2>2. crashes' \in 0..MaxCrashes
    BY <1>13 DEF Crash, TypeOK
  <2>3. pc' \in [Procs -> Labels]
    BY <1>13 DEF Crash, Goto, TypeOK, Labels
  <2> QED BY <1>13, <2>1, <2>2, <2>3 DEF Crash, TypeOK, disk, local
<1>14. ASSUME NEW p \in Procs, Fix(p) PROVE TypeOK'
  <2>1. file' \in FileStates
    BY <1>14, FixTyped
  <2>2. store' \subseteq FileStates /\ spoiled' \subseteq FileStates /\ store' \cap spoiled' = {}
    BY <1>14, <2>1, RecordTyped DEF Fix
  <2> QED BY <1>14, <2>1, <2>2 DEF Fix, Goto, TypeOK, Labels, local
<1>15. CASE DamageFile
  <2>1. file' \in FileStates
    BY <1>15, DamageTyped
  <2> QED BY <1>15, <2>1 DEF DamageFile, TypeOK, local
<1>16. CASE DamageObject
  BY <1>16 DEF DamageObject, TypeOK, local
<1>17. CASE UNCHANGED vars
  BY <1>17 DEF vars, disk, local, TypeOK
<1> QED BY <1>1, <1>2, <1>3, <1>4, <1>5, <1>6, <1>7, <1>8, <1>9, <1>10, <1>11, <1>12, <1>13,
        <1>14, <1>15, <1>16, <1>17 DEF Next, Quiescent

\* Every variable stays in its type, whatever calls, damage and crashes happen.
THEOREM TypeOKHolds == Spec => []TypeOK
BY TypeOKInit, TypeOKStep, PTL DEF Spec

(***************************************************************************)
(* What a repair knows between its steps: only records failed in the bytes it *)
(* analysed; it wants those as the map has them, and has read the others.     *)
(***************************************************************************)
Analysed(p) == At(p, "choose") \/ At(p, "fix") =>
    raw[p].frame = seen[p].frame /\ hit[p] \in Failed(raw[p], seen[p])
Planned(p)  == At(p, "fix") => \A n \in Names :
    IF n \in hit[p] THEN patch[p][n] = seen[p].recs[n]
    ELSE patch[p][n] = raw[p].recs[n] \/ (Moved(p) /\ ~Whole(seen[p]))
RepairInv   == TypeOK /\ \A p \in Procs : Analysed(p) /\ Planned(p)

\* The bytes of a trusted revision are the map's.
LEMMA SourcesKnown ==
  ASSUME NEW p \in Procs, NEW n \in Names, NEW b \in Sources(p, n)
  PROVE  IF n \in hit[p] THEN b = seen[p].recs[n]
         ELSE b = raw[p].recs[n] \/ (Moved(p) /\ ~Whole(seen[p]))
BY DEF Sources, Trusted

\* No repair has begun at the start.
LEMMA RepairInvInit == Init => RepairInv
BY TypeOKInit DEF Init, RepairInv, Analysed, Planned, At

\* A step that leaves the locals of q and does not bring q to the steps in question
\* leaves what is known of its repair.
LEMMA RepairElsewhere ==
  ASSUME NEW q \in Procs, Analysed(q), Planned(q),
         seen'[q] = seen[q], raw'[q] = raw[q], hit'[q] = hit[q], patch'[q] = patch[q],
         pc'[q] = pc[q] \/ pc'[q] \notin {"choose", "fix"}
  PROVE  Analysed(q)' /\ Planned(q)'
BY DEF Analysed, Planned, At, Moved, Whole, Failed, Differ

\* Only a process's own steps disturb what is known of its repair.
LEMMA RepairInvStep == RepairInv /\ [Next]_vars => RepairInv'
<1> SUFFICES ASSUME RepairInv, [Next]_vars PROVE RepairInv'
  OBVIOUS
<1>1. TypeOK /\ TypeOK'
  BY TypeOKStep DEF RepairInv
<1>2. SUFFICES ASSUME NEW q \in Procs PROVE Analysed(q)' /\ Planned(q)'
  BY <1>1 DEF RepairInv
<1>3. Analysed(q) /\ Planned(q)
  BY DEF RepairInv
<1>4. ASSUME NEW p \in Procs, NEW k \in Kinds, Begin(p, k) PROVE Analysed(q)' /\ Planned(q)'
  <2>1. FirstStep[k] \notin {"choose", "fix"}
    BY RepairConstantsOK DEF FirstStep
  <2>2. pc'[q] = pc[q] \/ pc'[q] \notin {"choose", "fix"}
    BY <1>1, <1>4, <2>1 DEF Begin, Goto, TypeOK
  <2> QED BY <1>3, <1>4, <2>2, RepairElsewhere DEF Begin, local
<1>5. ASSUME NEW p \in Procs, Commit(p) \/ Refuse(p) \/ List(p) PROVE Analysed(q)' /\ Planned(q)'
  <2>1. pc'[q] = pc[q] \/ pc'[q] \notin {"choose", "fix"}
    BY <1>1, <1>5 DEF Commit, Refuse, List, AfterCommit, Goto, TypeOK
  <2> QED BY <1>3, <1>5, <2>1, RepairElsewhere DEF Commit, Refuse, List, local
<1>6. ASSUME NEW p \in Procs, Build(p) \/ LoadMap(p) PROVE Analysed(q)' /\ Planned(q)'
  <2>1. CASE q = p
    BY <1>1, <1>6, <2>1 DEF Build, LoadMap, Goto, At, Analysed, Planned, TypeOK
  <2>2. CASE q # p
    <3>1. pc'[q] = pc[q] /\ seen'[q] = seen[q]
      BY <1>1, <1>6, <2>2 DEF Build, LoadMap, Goto, TypeOK
    <3> QED BY <1>3, <1>6, <3>1, RepairElsewhere DEF Build, LoadMap
  <2> QED BY <2>1, <2>2
<1>7. ASSUME NEW p \in Procs, ReadRaw(p) PROVE Analysed(q)' /\ Planned(q)'
  <2>1. PICK H \in Failed(file, seen[p]) :
          /\ hit' = [hit EXCEPT ![p] = H]
          /\ Goto(p, IF Repairable(file, seen[p], H) THEN "choose" ELSE "idle")
    BY <1>7 DEF ReadRaw
  <2>2. CASE q = p
    <3>1. raw'[q] = file /\ hit'[q] = H /\ seen'[q] = seen[q]
          /\ pc'[q] = IF Repairable(file, seen[q], H) THEN "choose" ELSE "idle"
      BY <1>1, <1>7, <2>1, <2>2 DEF ReadRaw, Goto, TypeOK
    <3> QED BY <3>1, <2>1, <2>2 DEF Repairable, At, Analysed, Planned, Failed, Differ, Whole
  <2>3. CASE q # p
    <3>1. pc'[q] = pc[q] /\ raw'[q] = raw[q] /\ hit'[q] = hit[q]
      BY <1>1, <1>7, <2>1, <2>3 DEF ReadRaw, Goto, TypeOK
    <3> QED BY <1>3, <1>7, <3>1, RepairElsewhere DEF ReadRaw
  <2> QED BY <2>2, <2>3
<1>8. ASSUME NEW p \in Procs, Choose(p) PROVE Analysed(q)' /\ Planned(q)'
  <2>1. CASE q = p
    <3>1. UNCHANGED <<seen, raw, hit>> /\ At(q, "choose") /\ pc'[q] = "fix"
      BY <1>1, <1>8, <2>1 DEF Choose, Goto, TypeOK
    <3>2. \A n \in Names : patch'[q][n] \in Sources(q, n)
      BY <1>1, <1>8, <2>1 DEF Choose, TypeOK
    <3>3. Planned(q)'
      BY <3>1, <3>2, SourcesKnown DEF Planned, Moved, Whole
    <3>4. Analysed(q)'
      BY <1>3, <3>1 DEF Analysed, At, Failed, Differ, Whole
    <3> QED BY <3>3, <3>4
  <2>2. CASE q # p
    <3>1. pc'[q] = pc[q] /\ patch'[q] = patch[q]
      BY <1>1, <1>8, <2>2 DEF Choose, Goto, TypeOK
    <3> QED BY <1>3, <1>8, <3>1, RepairElsewhere DEF Choose
  <2> QED BY <2>1, <2>2
<1>9. ASSUME NEW p \in Procs,
             BuildFails(p) \/ Publish(p) \/ NoCandidate(p) \/ FixRefused(p) \/ Crash(p) \/ Fix(p)
      PROVE  Analysed(q)' /\ Planned(q)'
  <2>1. pc'[q] = pc[q] \/ pc'[q] \notin {"choose", "fix"}
    BY <1>1, <1>9 DEF BuildFails, Publish, NoCandidate, FixRefused, Crash, Fix, Goto, TypeOK
  <2>2. UNCHANGED local
    BY <1>9 DEF BuildFails, Publish, NoCandidate, FixRefused, Crash, Fix
  <2> QED BY <1>3, <2>1, <2>2, RepairElsewhere DEF local
<1>10. CASE DamageFile \/ DamageObject \/ UNCHANGED vars
  BY <1>3, <1>10, RepairElsewhere DEF DamageFile, DamageObject, vars, local
<1> QED BY <1>4, <1>5, <1>6, <1>7, <1>8, <1>9, <1>10 DEF Next, Quiescent

\* Between its steps a repair keeps bytes whose frame is the map's, found records
\* failed and nothing else that counts, and wants those with the map's digests,
\* whatever others do to the file (recovery.py:84-115).
THEOREM RepairInvariant == Spec => []RepairInv
BY RepairInvInit, RepairInvStep, PTL DEF Spec

(***************************************************************************)
(* Only Fix leads from "fix" to "build", and it leaves records as mapped.     *)
(***************************************************************************)
AsMapped(p) ==
    /\ file'.frame = seen[p].frame /\ file'.rest.value = seen[p].rest.value
    /\ Whole(seen[p]) => /\ file'.recs = seen[p].recs
                         /\ file.rest = seen[p].rest => file' = seen[p]
    /\ ~Moved(p) => \A n \in Names : file'.recs[n] \in {seen[p].recs[n], file.recs[n]}

\* The records come from the map's revisions or from the bytes analysed.
LEMMA FixLeavesAsMapped ==
  ASSUME RepairInv, NEW p \in Procs, Fix(p)
  PROVE  AsMapped(p)
<1>1. /\ TypeOK /\ file = raw[p] /\ raw[p].frame = seen[p].frame
      /\ hit[p] \in Failed(raw[p], seen[p])
      /\ \A n \in Names : IF n \in hit[p] THEN patch[p][n] = seen[p].recs[n]
                          ELSE patch[p][n] = raw[p].recs[n] \/ (Moved(p) /\ ~Whole(seen[p]))
  BY DEF Fix, Unchanged, RepairInv, Analysed, Planned
<1>2. /\ file' \in FileStates /\ seen[p] \in FileStates
      /\ file'.frame = file.frame /\ file'.rest \in Remains(p)
      /\ \A n \in Names : file'.recs[n] = IF n \in hit[p] \/ Spilled(p)
                                          THEN patch[p][n] ELSE file.recs[n]
  BY <1>1, FixTyped DEF TypeOK
<1>3. file'.rest.value = seen[p].rest.value /\ (Spilled(p) \/ file'.rest = file.rest)
  BY <1>1, <1>2 DEF Remains, Spilled, Moved
<1>4. \A n \in Names : file'.recs[n] \in {seen[p].recs[n], file.recs[n]} \/ (Moved(p) /\ ~Whole(seen[p]))
  BY <1>1, <1>2
<1>5. ASSUME Whole(seen[p]) PROVE file'.recs = seen[p].recs
  <2>1. \A n \in Names : n \notin hit[p] => raw[p].recs[n] = seen[p].recs[n]
    BY <1>1, <1>5 DEF Failed, Differ
  <2>2. \A n \in Names : file'.recs[n] = seen[p].recs[n]
    BY <1>1, <1>2, <1>5, <2>1
  <2> QED BY <1>2, <2>2 DEF FileStates
<1>6. ASSUME Whole(seen[p]), file.rest = seen[p].rest PROVE file' = seen[p]
  <2>1. file'.rest = seen[p].rest
    BY <1>1, <1>3, <1>6 DEF Spilled, Moved
  <2> QED BY <1>1, <1>2, <1>5, <1>6, <2>1 DEF FileStates
<1> QED BY <1>1, <1>2, <1>3, <1>4, <1>5, <1>6 DEF AsMapped

\* Repairing every slot is repairing the file.
LEMMA FixesIsFix ==
  ASSUME RepairInv, [Next]_vars, NEW p \in Procs, Fixes(p)
  PROVE  Fix(p)
<1>1. pc[p] = "fix" /\ pc'[p] = "build" /\ pc \in [Procs -> Labels]
  BY DEF Fixes, At, RepairInv, TypeOK
<1>2. ~UNCHANGED vars
  BY <1>1 DEF vars
<1>3. ~DamageFile /\ ~DamageObject /\ ~Quiescent
  BY <1>1 DEF DamageFile, DamageObject, Quiescent, vars
<1>4. PICK q \in Procs :
        \/ \E k \in Kinds : Begin(q, k)
        \/ Commit(q) \/ Refuse(q) \/ List(q)
        \/ Build(q) \/ BuildFails(q) \/ Publish(q)
        \/ LoadMap(q) \/ ReadRaw(q) \/ Choose(q) \/ NoCandidate(q) \/ Fix(q) \/ FixRefused(q)
        \/ Crash(q)
  BY <1>2, <1>3 DEF Next
<1>5. pc' = [pc EXCEPT ![q] = pc'[q]]
  BY <1>1, <1>4 DEF Begin, Commit, Refuse, List, Build, BuildFails, Publish, LoadMap, ReadRaw,
     Choose, NoCandidate, Fix, FixRefused, Crash, Goto
<1>6. q = p
  BY <1>1, <1>5
<1> QED BY <1>1, <1>4, <1>6 DEF Begin, Commit, Refuse, List, Build, BuildFails, Publish, LoadMap,
     ReadRaw, Choose, NoCandidate, FixRefused, Crash, Goto, At

\* Whatever comes between the steps of a repair, it leaves the frame, the places and the
\* records as the map it loaded has them, and the whole file if nothing else differs.
THEOREM RepairsLeaveAsMapped == Spec => RecordsAsMapped
<1>1. RepairInv /\ [Next]_vars => [\A p \in Procs : Fixes(p) => AsMapped(p)]_vars
  BY FixesIsFix, FixLeavesAsMapped
<1> QED BY <1>1, RepairInvariant, PTL DEF Spec, RecordsAsMapped, AsMapped

(***************************************************************************)
(* A healthy file is reported healthy, and a repair leaves alone what still    *)
(* holds what was committed, as long as calls are serial.                     *)
(***************************************************************************)
LEMMA WornTransitive ==
  ASSUME NEW r, NEW s, NEW t, WornFrom(t, s), WornFrom(s, r)
  PROVE  WornFrom(t, r)
BY DEF WornFrom, WornPiece

\* A file is worn from itself.
LEMMA WornReflexive == ASSUME NEW s PROVE WornFrom(s, s)
BY DEF WornFrom, WornPiece

\* Wear does not heal by itself: between a piece and itself there is only that piece.
LEMMA PieceBetween ==
  ASSUME NEW S, NEW a \in Pieces(S), NEW b \in Pieces(S), WornPiece(a, b), WornPiece(b, a)
  PROVE  a = b
<1>1. a.value = b.value /\ a.wear = b.wear
  BY DEF WornPiece
<1> QED BY <1>1 DEF Pieces

\* The same of a file.
LEMMA WornBetween ==
  ASSUME NEW s \in FileStates, NEW t \in FileStates, WornFrom(s, t), WornFrom(t, s)
  PROVE  t = s
<1>1. t.frame = s.frame
  BY PieceBetween DEF WornFrom, FileStates
<1>2. t.rest = s.rest
  BY PieceBetween DEF WornFrom, FileStates
<1>3. \A n \in Names : t.recs[n] = s.recs[n]
  BY PieceBetween DEF WornFrom, FileStates
<1> QED BY <1>1, <1>2, <1>3 DEF FileStates

\* A piece struck is worn.
LEMMA StruckWears ==
  ASSUME NEW S, NEW a \in Pieces(S)
  PROVE  WornPiece(Struck(a), a)
BY DEF WornPiece, Struck, Pieces

\* In-place damage wears the file.
LEMMA DamageWears ==
  ASSUME TypeOK, DamageFile
  PROVE  WornFrom(file', file)
<1>1. /\ file.frame \in Pieces(Frames) /\ file.rest \in Pieces(Layouts)
      /\ \A n \in Names : file.recs[n] \in Pieces(Values)
  BY DEF TypeOK, FileStates
<1>2. WornPiece(file'.frame, file.frame)
  BY <1>1, DamageTyped, StruckWears DEF WornPiece
<1>3. WornPiece(file'.rest, file.rest)
  BY <1>1, DamageTyped, StruckWears DEF WornPiece
<1>4. \A n \in Names : WornPiece(file'.recs[n], file.recs[n])
  BY <1>1, DamageTyped, StruckWears DEF WornPiece
<1> QED BY <1>2, <1>3, <1>4 DEF WornFrom

\* Every step keeps the file worn from the committed one.
WearInv == WornFrom(file, committed)

LEMMA WearStep == TypeOK /\ WearInv /\ [Next]_vars => WearInv'
<1> SUFFICES ASSUME TypeOK, WearInv, [Next]_vars PROVE WearInv'
  OBVIOUS
<1>1. ASSUME NEW p \in Procs, Commit(p) \/ Fix(p) PROVE WearInv'
  <2>1. file' = committed'
    BY <1>1 DEF Commit, Fix
  <2> QED BY <2>1, WornReflexive DEF WearInv
<1>2. CASE DamageFile
  <2>1. WornFrom(file', committed) /\ committed' = committed
    BY <1>2, DamageWears, WornTransitive DEF WearInv, DamageFile
  <2> QED BY <2>1 DEF WearInv
<1>3. ASSUME UNCHANGED <<file, committed>> PROVE WearInv'
  BY <1>3 DEF WearInv, WornFrom, WornPiece
<1>4. ASSUME NEW p \in Procs,
             \/ \E k \in Kinds : Begin(p, k)
             \/ Refuse(p) \/ List(p) \/ Build(p) \/ BuildFails(p) \/ Publish(p)
             \/ LoadMap(p) \/ ReadRaw(p) \/ Choose(p)
             \/ NoCandidate(p) \/ FixRefused(p) \/ Crash(p)
      PROVE  WearInv'
  BY <1>3, <1>4 DEF Begin, Refuse, List, Build, BuildFails, Publish, LoadMap, ReadRaw, Choose,
     NoCandidate, FixRefused, Crash, disk
<1>5. CASE DamageObject \/ UNCHANGED vars
  BY <1>3, <1>5 DEF DamageObject, vars, disk
<1> QED BY <1>1, <1>2, <1>4, <1>5 DEF Next, Quiescent

\* What a step leaves of the serial invariant to show about each process.
Serially(p) ==
    /\ At(p, "publish") => WornFrom(file, seen[p]) /\ WornFrom(seen[p], committed)
    /\ pc[p] \in {"read", "choose", "fix"} => seen[p] = map

Following == MapFollows \/ \E p \in Procs : pc[p] \in {"build", "publish"}

SerialPart == serial => Alone /\ Following /\ \A p \in Procs : Serially(p)

\* A step of p, in a serial run the only process with a call, to the label l.
LEMMA SerialMove ==
  ASSUME TypeOK, SerialPart, NEW p \in Procs, ~At(p, "idle"), NEW l \in Labels, Goto(p, l),
         kind' = kind, serial' => serial, serial => Serially(p)',
         serial => MapFollows' \/ l \in {"build", "publish"}
  PROVE  SerialPart'
<1> SUFFICES ASSUME serial, serial' PROVE Alone' /\ Following' /\ \A q \in Procs : Serially(q)'
  BY DEF SerialPart
<1>1. pc'[p] = l /\ \A q \in Procs \ {p} : pc'[q] = pc[q]
  BY DEF Goto, TypeOK
<1>2. Alone /\ \A q \in Procs \ {p} : pc[q] = "idle"
  BY DEF SerialPart, Alone, At
<1>3. Alone'
  BY <1>1, <1>2 DEF Alone, At
<1>4. Following'
  BY <1>1 DEF Following
<1>5. \A q \in Procs : Serially(q)'
  BY <1>1, <1>2 DEF Serially, At
<1> QED BY <1>3, <1>4, <1>5

\* Every step keeps the map between the file and the last commit while calls are serial.
LEMMA SerialStep == RepairInv /\ WearInv /\ SerialPart /\ [Next]_vars => SerialPart'
<1> SUFFICES ASSUME RepairInv, WearInv, SerialPart, [Next]_vars PROVE SerialPart'
  OBVIOUS
<1>0. /\ TypeOK /\ TypeOK' /\ pc \in [Procs -> Labels] /\ seen \in [Procs -> FileStates]
      /\ WornFrom(file, committed)
  BY TypeOKStep DEF RepairInv, TypeOK, WearInv
\* With one process at work, and it neither building nor publishing, the map follows.
<1>a. ASSUME serial, NEW p \in Procs, ~At(p, "idle"), pc[p] \notin {"build", "publish"}
      PROVE  MapFollows
  BY <1>a DEF SerialPart, Alone, Following, At
<1>1. ASSUME NEW p \in Procs, NEW k \in Kinds, Begin(p, k) PROVE SerialPart'
  <2> SUFFICES ASSUME serial' PROVE SerialPart'
    BY DEF SerialPart
  <2>1. serial /\ k # "transact" /\ \A q \in Procs : pc[q] = "idle"
    BY <1>1 DEF Begin, At
  <2>2. UNCHANGED <<file, map, committed, seen>>
    BY <1>1 DEF Begin, disk, local
  <2>3. pc'[p] \in {"commit", "build", "load"} /\ kind'[p] = k /\ \A q \in Procs \ {p} : pc'[q] = "idle"
    BY <1>0, <1>1, <2>1, RepairConstantsOK DEF Begin, Goto, FirstStep, TypeOK
  <2>4. MapFollows'
    BY <2>1, <2>2 DEF SerialPart, Following, MapFollows, WornFrom, WornPiece
  <2>5. Alone'
    BY <2>1, <2>3 DEF Alone, At
  <2>6. \A q \in Procs : Serially(q)'
    BY <2>3 DEF Serially, At
  <2> QED BY <2>4, <2>5, <2>6 DEF SerialPart, Following
<1>2. ASSUME NEW p \in Procs, Commit(p) \/ Fix(p) PROVE SerialPart'
  <2>1. ~At(p, "idle") /\ kind' = kind /\ serial' = serial
    BY <1>2 DEF Commit, Fix, At
  <2>2. serial => Goto(p, "build")
    BY <1>2, <2>1 DEF Commit, Fix, AfterCommit, SerialPart, Alone
  <2> SUFFICES ASSUME serial PROVE SerialPart'
    BY <2>1 DEF SerialPart
  <2>3. Serially(p)'
    BY <1>0, <2>2 DEF Serially, Goto, At
  <2> QED BY <1>0, <2>1, <2>2, <2>3, SerialMove DEF Labels
<1>3. ASSUME NEW p \in Procs, Refuse(p) \/ List(p) \/ NoCandidate(p) \/ FixRefused(p) PROVE SerialPart'
  <2>1. /\ UNCHANGED <<file, map, committed, kind, serial>> /\ ~At(p, "idle")
        /\ pc[p] \notin {"build", "publish"}
    BY <1>3 DEF Refuse, List, NoCandidate, FixRefused, At, disk
  <2>2. \E l \in {"idle", "build"} : Goto(p, l)
    BY <1>3 DEF Refuse, List, NoCandidate, FixRefused
  <2>3. Serially(p)'
    BY <1>0, <2>2 DEF Serially, Goto, At
  <2>4. serial => MapFollows'
    BY <1>a, <2>1 DEF MapFollows, WornFrom, WornPiece
  <2> QED BY <1>0, <2>1, <2>2, <2>3, <2>4, SerialMove DEF Labels
<1>4. ASSUME NEW p \in Procs, Build(p) PROVE SerialPart'
  <2>1. /\ UNCHANGED <<file, map, committed, kind, serial>> /\ ~At(p, "idle") /\ Goto(p, "publish")
        /\ seen'[p] = file
    BY <1>0, <1>4 DEF Build, At, disk
  <2>2. Serially(p)'
    BY <1>0, <2>1, WornReflexive DEF Serially, Goto, At
  <2> QED BY <1>0, <2>1, <2>2, SerialMove DEF Labels
<1>5. ASSUME NEW p \in Procs, BuildFails(p) PROVE SerialPart'
  BY <1>5 DEF BuildFails, SerialPart
<1>6. ASSUME NEW p \in Procs, Publish(p) PROVE SerialPart'
  <2>1. /\ UNCHANGED <<file, committed, kind, serial>> /\ At(p, "publish") /\ Goto(p, "idle")
        /\ map' = seen[p]
    BY <1>6 DEF Publish
  <2>2. Serially(p)'
    BY <1>0, <2>1 DEF Serially, Goto, At
  <2>3. serial => MapFollows'
    BY <2>1 DEF SerialPart, Serially, MapFollows, WornFrom, WornPiece
  <2> QED BY <1>0, <2>1, <2>2, <2>3, SerialMove DEF Labels, At
<1>7. ASSUME NEW p \in Procs, LoadMap(p) \/ ReadRaw(p) \/ Choose(p) PROVE SerialPart'
  <2>1. /\ UNCHANGED <<file, map, committed, kind, serial>> /\ ~At(p, "idle")
        /\ pc[p] \notin {"build", "publish"}
    BY <1>7 DEF LoadMap, ReadRaw, Choose, At, disk
  <2>2. \E l \in {"read", "choose", "fix", "idle"} : Goto(p, l)
    BY <1>7 DEF LoadMap, ReadRaw, Choose
  <2>3. serial => Serially(p)'
    <3>1. serial => seen'[p] = map
      BY <1>0, <1>7 DEF LoadMap, ReadRaw, Choose, SerialPart, Serially, At
    <3> QED BY <1>0, <2>1, <2>2, <3>1 DEF Serially, Goto, At
  <2>4. serial => MapFollows'
    BY <1>a, <2>1 DEF MapFollows, WornFrom, WornPiece
  <2> QED BY <1>0, <2>1, <2>2, <2>3, <2>4, SerialMove DEF Labels
<1>8. ASSUME NEW p \in Procs, Crash(p) PROVE SerialPart'
  BY <1>8 DEF Crash, SerialPart
<1>9. CASE DamageFile
  <2>1. UNCHANGED <<map, pc, kind, seen, committed, serial>>
    BY <1>9 DEF DamageFile, local
  <2>2. WornFrom(file', file)
    BY <1>0, <1>9, DamageWears
  <2>3. \A s : WornFrom(file, s) => WornFrom(file', s)
    BY <2>2, WornTransitive
  <2>4. \A q \in Procs : Serially(q) => Serially(q)'
    BY <2>1, <2>3 DEF Serially, At, WornFrom, WornPiece
  <2>5. MapFollows => MapFollows'
    BY <2>1, <2>2, <2>3 DEF MapFollows, WornFrom, WornPiece
  <2> QED BY <2>1, <2>4, <2>5 DEF SerialPart, Alone, Following, At
<1>10. CASE DamageObject \/ UNCHANGED vars
  <2>1. UNCHANGED <<file, map, pc, kind, seen, committed, serial>>
    BY <1>10 DEF DamageObject, vars, disk, local
  <2>2. \A q \in Procs : Serially(q) => Serially(q)'
    BY <2>1 DEF Serially, At, WornFrom, WornPiece
  <2>3. MapFollows => MapFollows'
    BY <2>1 DEF MapFollows, WornFrom, WornPiece
  <2> QED BY <2>1, <2>2, <2>3 DEF SerialPart, Alone, Following, At
<1> QED BY <1>1, <1>2, <1>3, <1>4, <1>5, <1>6, <1>7, <1>8, <1>9, <1>10 DEF Next, Quiescent

\* At the start the map is the file's.
LEMMA SerialInit == Init => WearInv /\ SerialPart
<1> SUFFICES ASSUME Init PROVE WearInv /\ SerialPart
  OBVIOUS
<1>1. map = file /\ committed = file /\ \A p \in Procs : seen[p] = file /\ pc[p] = "idle"
  BY DEF Init
<1> QED BY <1>1, WornReflexive DEF WearInv, SerialPart, Alone, Following, Serially, MapFollows, At

\* The inductive invariant of a serial run: the map follows the file or is about to.
THEOREM SerialInvariant == Spec => []SerialInv
<1>1. RepairInv => TypeOK
  BY DEF RepairInv
<1>2. WearInv /\ SerialPart => SerialInv
  BY DEF SerialInv, WearInv, SerialPart, Serially, Following
<1> QED BY <1>1, <1>2, SerialInit, WearStep, SerialStep, RepairInvariant, PTL DEF Spec

\* After serial calls that published a map of what they committed, a file that is still
\* as the last of them left it is described by the map: it is not reported stale, nor
\* any region failed (integrity.py verify_map).
THEOREM HealthyFilesPass == Spec => []HealthyIsReportedHealthy
<1>1. TypeOK /\ SerialInv => HealthyIsReportedHealthy
  <2> SUFFICES ASSUME TypeOK, SerialInv, serial, Quiet, file = committed PROVE map = file
    BY DEF HealthyIsReportedHealthy
  <2>1. MapFollows
    BY DEF SerialInv, Quiet, At
  <2> QED BY <2>1, WornBetween DEF MapFollows, TypeOK
<1> QED BY <1>1, SerialInvariant, TypeOKHolds, PTL

\* A repair after such calls leaves alone every record that is what was last
\* committed (recovery.py:118-122, docs/RELEASE_NOTES_1_4_8.md:9).
THEOREM RepairsKeepCommitted == Spec => SerialRepairKeepsCommitted
<1>1. RepairInv /\ SerialInv /\ [Next]_vars => [serial => KeepsCommitted]_vars
  <2> SUFFICES ASSUME RepairInv, SerialInv, [Next]_vars, serial, NEW p \in Procs, Fixes(p),
                      NEW n \in Names, file.recs[n] = committed.recs[n]
               PROVE  file'.recs[n] = file.recs[n]
    BY DEF KeepsCommitted
  <2>1. Fix(p) /\ AsMapped(p)
    BY FixesIsFix, FixLeavesAsMapped
  <2>2. pc[p] = "fix" /\ seen[p] = map /\ file = raw[p]
    BY <2>1 DEF SerialInv, Fix, Unchanged, At
  <2>3. MapFollows
    BY <2>2 DEF SerialInv, Alone, At
  <2>4. file.rest.value = map.rest.value /\ ~Moved(p)
    BY <2>2, <2>3 DEF MapFollows, WornFrom, WornPiece, Moved
  <2>5. file.recs[n] = map.recs[n]
    <3>1. file.recs[n] \in Pieces(Values) /\ map.recs[n] \in Pieces(Values)
      BY DEF RepairInv, TypeOK, FileStates
    <3>2. WornPiece(file.recs[n], map.recs[n]) /\ WornPiece(map.recs[n], file.recs[n])
      BY <2>3 DEF MapFollows, WornFrom
    <3> QED BY <3>1, <3>2, PieceBetween
  <2> QED BY <2>1, <2>2, <2>4, <2>5 DEF AsMapped
<1> QED BY <1>1, RepairInvariant, SerialInvariant, PTL DEF Spec, SerialRepairKeepsCommitted
=============================================================================
