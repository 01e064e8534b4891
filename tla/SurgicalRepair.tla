--------------------------- MODULE SurgicalRepair ---------------------------
(***************************************************************************)
(* The integrity map of one VFS (integrity.py) and its surgical repair       *)
(* (recovery.py), beside the calls that commit and publish a new map, the     *)
(* transactions that commit and do not (engine.py), and damage done to the    *)
(* file in place.                                                          *)
(*                                                                         *)
(* A state of the file is made of pieces: the records, the frame, which is    *)
(* every structural region but tqpt-body (prefix, locks, history) and all     *)
(* sizes, and the rest: where the records lie and the bytes in no leaf        *)
(* region (null head, newlines, opaque lines, closing markers).  The wear of  *)
(* a piece is the events that damaged it.  A map is the digests of the        *)
(* regions of one state, so it stands for that state.                        *)
(*                                                                         *)
(* A damaged file may be opened or refused, and may show other records than   *)
(* were written: whoever reads it meets either, so both are allowed.  A       *)
(* locked commit is one step here; module VfsCommit has its steps.           *)
(***************************************************************************)
EXTENDS Naturals

CONSTANTS Procs,        \* processes working on the VFS
          Names,        \* variables whose records are regions
          Values,       \* payloads
          Frames,       \* frames that calls leave
          Layouts,      \* places of the records in the body
          Kinds,        \* the calls of this instance
          MaxCalls,     \* bound: calls started
          MaxDamage,    \* bound: events that damage the file or an object
          MaxCrashes    \* bound: processes that die during a call

ASSUME RepairConstantsOK ==
    /\ Kinds \subseteq {"write", "transact", "rollback", "recover", "rebuild", "list", "repair"}
    /\ MaxCalls \in Nat /\ MaxDamage \in Nat /\ MaxCrashes \in Nat

VARIABLES
    file,       \* the state of the VFS file
    bak,        \* the state of the backup beside it
    map,        \* the state the integrity map describes
    store,      \* the revisions whose objects are intact
    spoiled,    \* the revisions whose objects are damaged
    pc, kind,
    seen,       \* the map loaded by a repair, or built by a publisher
    raw,        \* the bytes a repair has read and analysed
    hit,        \* the records whose regions a repair found failed
    patch,      \* the records that a repair wants, changed or not
    committed,  \* the state the last commit installed
    serial,     \* calls never overlapped, died, failed to publish or were transactions
    calls, damage, crashes

disk  == <<file, bak, map, store, spoiled>>
local == <<seen, raw, hit, patch>>
vars  == <<disk, pc, kind, local, committed, serial, calls, damage, crashes>>

\* Damage events, and the mixture that a repair makes of two layouts.
Mixed == 0
Marks == {Mixed} \cup 1..MaxDamage

Pieces(S)  == [value : S, wear : SUBSET Marks]
FileStates == [frame : Pieces(Frames), rest : Pieces(Layouts), recs : [Names -> Pieces(Values)]]
Labels == {"idle", "commit", "load", "read", "choose", "fix", "build", "publish"}

\* Whatever opens s finds the records that were written.
Whole(s) == s.rest.wear = {} /\ \A n \in Names : s.recs[n].wear = {}
\* MappedVFS and parse_vfs do not refuse s.
Sound(s) == Whole(s) /\ s.frame.wear = {}

\* The records whose bytes are not the map's.
Differ(s, m) == {n \in Names : s.recs[n] # m.recs[n]}

\* The records that have a failed region.  Where records have moved, a region of the
\* map lies over other bytes; a map made of a damaged file may lack regions.
Failed(s, m) ==
    {H \in SUBSET Names : /\ Whole(m) => Differ(s, m) \subseteq H
                          /\ s.rest.value = m.rest.value => H \subseteq Differ(s, m)}

-----------------------------------------------------------------------------
Init ==
    /\ file \in FileStates /\ Sound(file)
    /\ bak = file /\ map = file /\ committed = file /\ store = {file} /\ spoiled = {}
    /\ pc = [p \in Procs |-> "idle"]
    /\ kind = [p \in Procs |-> "list"]
    /\ seen = [p \in Procs |-> file] /\ raw = seen
    /\ hit = [p \in Procs |-> {}]
    /\ patch = [p \in Procs |-> file.recs]
    /\ serial = TRUE
    /\ calls = 0 /\ damage = 0 /\ crashes = 0

At(p, label)   == pc[p] = label
Goto(p, label) == pc' = [pc EXCEPT ![p] = label]

FirstStep == [write |-> "commit", transact |-> "commit", rollback |-> "commit", recover |-> "commit",
              list |-> "commit", rebuild |-> "build", repair |-> "load"]

Begin(p, k) ==
    /\ At(p, "idle") /\ k \in Kinds /\ calls < MaxCalls
    /\ Goto(p, FirstStep[k])
    /\ kind' = [kind EXCEPT ![p] = k]
    /\ serial' = (serial /\ k # "transact" /\ \A q \in Procs : At(q, "idle"))
    /\ calls' = calls + 1
    /\ UNCHANGED <<disk, local, committed, damage, crashes>>

(***************************************************************************)
(* Commits.  A revision whose object is damaged cannot be stored again.       *)
(***************************************************************************)
Record(states) == store' = store \cup (states \ spoiled)

\* A call installs a stored state, the backup, a record rewritten in its place, or
\* anything that moves records or changes the frame: a transaction whose lengths make
\* up for each other keeps the frame.
Install(k) ==
    \/ k = "rollback" /\ file' \in store
    \/ k = "recover"  /\ file' = bak
    \/ /\ k \in {"write", "transact"}
       /\ \/ \E n \in Names, v \in Values :
                file' = [file EXCEPT !.recs[n] = [value |-> v, wear |-> {}]]
          \/ \E fr \in [value : Frames, wear : SUBSET file.frame.wear],
                re \in [value : Layouts, wear : SUBSET file.rest.wear] :
                file' = [file EXCEPT !.frame = fr, !.rest = re]

\* Faulty variant: the restoring calls do not publish a map.
AfterCommitOfWrites(k) == IF k = "write" THEN "build" ELSE "idle"
\* Faulty variant: the flush and the direct call do not publish either.
AfterCommitNever(k) == "idle"
\* _mutate_current publishes a map when the lock is released, and so do the flush
\* of a batch and the restoring calls; run_transaction_calls does not.
AfterCommit(k) == IF k = "transact" THEN "idle" ELSE "build"

\* mutate and restore_revision record what they displace and what they install, and
\* mutate leaves the former as the backup; restore_backup does neither.
Commit(p) ==
    /\ At(p, "commit") /\ Install(kind[p])
    /\ committed' = file'
    /\ IF kind[p] = "recover" THEN UNCHANGED store ELSE Record({file, file'})
    /\ bak' = IF kind[p] \in {"rollback", "recover"} THEN bak ELSE file
    /\ Goto(p, AfterCommit(kind[p]))
    /\ UNCHANGED <<map, spoiled, kind, local, serial, calls, damage, crashes>>

\* The call is refused, before or after the current state was recorded; the finally
\* clause of _mutate_current publishes nevertheless, a refused flush does not.
Refuse(p) ==
    /\ At(p, "commit") /\ kind[p] # "list"
    /\ Record({file}) \/ UNCHANGED store
    /\ Goto(p, "idle") \/ (kind[p] = "write" /\ Goto(p, "build"))
    /\ UNCHANGED <<file, bak, map, spoiled, kind, local, committed, serial, calls, damage, crashes>>

\* list_revisions and list_files record what they find.
List(p) ==
    /\ At(p, "commit") /\ kind[p] = "list"
    /\ Record({file})
    /\ Goto(p, "idle")
    /\ UNCHANGED <<file, bak, map, spoiled, kind, local, committed, serial, calls, damage, crashes>>

(***************************************************************************)
(* publish_map: read the file, then replace the map, without the lock.       *)
(***************************************************************************)
Build(p) ==
    /\ At(p, "build")
    /\ seen' = [seen EXCEPT ![p] = file]
    /\ Goto(p, "publish")
    /\ UNCHANGED <<disk, kind, raw, hit, patch, committed, serial, calls, damage, crashes>>

\* The file is refused; a commit may be left with the map of an earlier one.
BuildFails(p) ==
    /\ At(p, "build") /\ ~Sound(file)
    /\ Goto(p, "idle")
    /\ serial' = FALSE
    /\ UNCHANGED <<disk, kind, local, committed, calls, damage, crashes>>

Publish(p) ==
    /\ At(p, "publish")
    /\ map' = seen[p]
    /\ Goto(p, "idle")
    /\ UNCHANGED <<file, bak, store, spoiled, kind, local, committed, serial, calls, damage, crashes>>

(***************************************************************************)
(* repair_vfs.                                                             *)
(***************************************************************************)
LoadMap(p) ==
    /\ At(p, "load")
    /\ seen' = [seen EXCEPT ![p] = map]
    /\ Goto(p, "read")
    /\ UNCHANGED <<disk, kind, raw, hit, patch, committed, serial, calls, damage, crashes>>

\* _repair_regions: some record or payload failed, and no structural region but
\* tqpt-body, whose failure a failed record excuses wherever in the body it is.
Repairable(s, m, H) == s.frame = m.frame /\ H # {}

ReadRaw(p) ==
    /\ At(p, "read")
    /\ raw' = [raw EXCEPT ![p] = file]
    /\ \E H \in Failed(file, seen[p]) :
          /\ hit' = [hit EXCEPT ![p] = H]
          /\ Goto(p, IF Repairable(file, seen[p], H) THEN "choose" ELSE "idle")
    /\ UNCHANGED <<disk, kind, seen, patch, committed, serial, calls, damage, crashes>>

\* Faulty variant: the bytes of a candidate are not compared with the digest.
TrustedUnchecked(n, rec) == store
\* _candidate_bytes: revisions that hold these very bytes for the region.
Trusted(n, rec) == {r \in store : r.recs[n] = rec}

\* The map has the records in other places, or its regions need not be the records:
\* what a repair writes may then touch what has not failed.
Moved(p)   == raw[p].rest.value # seen[p].rest.value
Spilled(p) == Moved(p) \/ ~Whole(seen[p])

\* What the record n may be after the repair.
Sources(p, n) ==
    IF n \in hit[p] THEN {r.recs[n] : r \in Trusted(n, seen[p].recs[n])}
    ELSE {raw[p].recs[n]} \cup
         (IF Moved(p) /\ ~Whole(seen[p]) THEN {[raw[p].recs[n] EXCEPT !.wear = @ \cup {Mixed}]} ELSE {})

Choose(p) ==
    /\ At(p, "choose")
    /\ \E recs \in [Names -> UNION {Sources(p, n) : n \in Names}] :
          /\ \A n \in Names : recs[n] \in Sources(p, n)
          /\ patch' = [patch EXCEPT ![p] = recs]
    /\ Goto(p, "fix")
    /\ UNCHANGED <<disk, kind, seen, raw, hit, committed, serial, calls, damage, crashes>>

\* No revision that opens has the bytes of some region.
NoCandidate(p) ==
    /\ At(p, "choose")
    /\ \E n \in hit[p] : Whole(seen[p]) => ~\E r \in Trusted(n, seen[p].recs[n]) : Sound(r)
    /\ Goto(p, "idle")
    /\ UNCHANGED <<disk, kind, local, committed, serial, calls, damage, crashes>>

\* Faulty variant: the digest is not compared again under the lock.
UnchangedNever(p) == file.frame = raw[p].frame
\* "VFS changed after recovery analysis"
Unchanged(p) == file = raw[p]

\* The rest of the body after the repair: as it is, damage included, or a mixture.
Remains(p) ==
    IF Spilled(p)
    THEN [value : {seen[p].rest.value}, wear : SUBSET (raw[p].rest.wear \cup seen[p].rest.wear \cup {Mixed})]
    ELSE {file.rest}

\* What has not failed is copied from the file as it is; nothing is parsed before
\* the commit.  The displaced state is kept as the backup and not recorded.
Fix(p) ==
    /\ At(p, "fix") /\ Unchanged(p)
    /\ \E re \in Remains(p) :
          file' = [file EXCEPT !.rest = re,
                               !.recs = [n \in Names |-> IF n \in hit[p] \/ Spilled(p)
                                                         THEN patch[p][n] ELSE @[n]]]
    /\ committed' = file'
    /\ Record({file'})
    /\ bak' = file
    /\ Goto(p, "build")
    /\ UNCHANGED <<map, spoiled, kind, local, serial, calls, damage, crashes>>

FixRefused(p) ==
    /\ At(p, "fix") /\ ~Unchanged(p)
    /\ Goto(p, "idle")
    /\ UNCHANGED <<disk, kind, local, committed, serial, calls, damage, crashes>>

-----------------------------------------------------------------------------
\* A process dies, or an I/O error ends the call.
Crash(p) ==
    /\ ~At(p, "idle") /\ crashes < MaxCrashes
    /\ Goto(p, "idle")
    /\ serial' = FALSE
    /\ crashes' = crashes + 1
    /\ UNCHANGED <<disk, kind, local, committed, calls, damage>>

\* Bytes of the file change under the same inode, in any of its pieces at once;
\* backups and revisions have inodes of their own.
Struck(piece) == [piece EXCEPT !.wear = @ \cup {damage + 1}]

DamageFile ==
    /\ damage < MaxDamage
    /\ \E fr \in {file.frame, Struck(file.frame)}, re \in {file.rest, Struck(file.rest)},
          struck \in SUBSET Names :
          file' = [frame |-> fr, rest |-> re,
                   recs |-> [n \in Names |-> IF n \in struck THEN Struck(file.recs[n]) ELSE file.recs[n]]]
    /\ damage' = damage + 1
    /\ UNCHANGED <<bak, map, store, spoiled, pc, kind, local, committed, serial, calls, crashes>>

DamageObject ==
    /\ damage < MaxDamage
    /\ \E r \in store : store' = store \ {r} /\ spoiled' = spoiled \cup {r}
    /\ damage' = damage + 1
    /\ UNCHANGED <<file, bak, map, pc, kind, local, committed, serial, calls, crashes>>

\* No call runs and none need follow: the only state in which to stop.
Quiescent == (\A p \in Procs : At(p, "idle")) /\ UNCHANGED vars

Next ==
    \/ \E p \in Procs :
          \/ \E k \in Kinds : Begin(p, k)
          \/ Commit(p) \/ Refuse(p) \/ List(p)
          \/ Build(p) \/ BuildFails(p) \/ Publish(p)
          \/ LoadMap(p) \/ ReadRaw(p) \/ Choose(p) \/ NoCandidate(p) \/ Fix(p) \/ FixRefused(p)
          \/ Crash(p)
    \/ DamageFile \/ DamageObject \/ Quiescent

Spec == Init /\ [][Next]_vars

-----------------------------------------------------------------------------
(***************************************************************************)
(* Properties.                                                             *)
(***************************************************************************)
TypeOK ==
    /\ file \in FileStates /\ bak \in FileStates /\ map \in FileStates /\ committed \in FileStates
    /\ store \subseteq FileStates /\ spoiled \subseteq FileStates /\ store \cap spoiled = {}
    /\ pc \in [Procs -> Labels] /\ kind \in [Procs -> DOMAIN FirstStep]
    /\ seen \in [Procs -> FileStates] /\ raw \in [Procs -> FileStates]
    /\ hit \in [Procs -> SUBSET Names] /\ patch \in [Procs -> [Names -> Pieces(Values)]]
    /\ serial \in BOOLEAN
    /\ calls \in 0..MaxCalls /\ damage \in 0..MaxDamage /\ crashes \in 0..MaxCrashes

Quiet == \A p \in Procs : At(p, "idle")
Fixes(p) == At(p, "fix") /\ pc'[p] = "build"

\* Whatever commits, damage and other repairs come between its steps, and whichever
\* revisions its regions come from, a repair of map m leaves the frame, the places and
\* every record as m has them, never a mixture of revisions or of a later commit
\* (recovery.py:98-122).  It promises no more: bytes in no record stay damaged, and are
\* a mixture if the records had moved.  The map of a damaged file may lack regions:
\* then a record is the map's or the one that was there.
RecordsAsMapped ==
    [][\A p \in Procs : Fixes(p) =>
          /\ file'.frame = seen[p].frame /\ file'.rest.value = seen[p].rest.value
          /\ Whole(seen[p]) => /\ file'.recs = seen[p].recs
                               /\ file.rest = seen[p].rest => file' = seen[p]
          /\ ~Moved(p) => \A n \in Names : file'.recs[n] \in {seen[p].recs[n], file.recs[n]}]_vars

\* A repair rewrites only damaged regions (docs/RELEASE_NOTES_1_4_8.md:9): a record that is
\* what was last committed stays as it is, whatever else is damaged, as long as calls do
\* not overlap, are not transactions, complete, and publish a map of what they committed.
KeepsCommitted ==
    \A p \in Procs : Fixes(p) =>
        \A n \in Names : file.recs[n] = committed.recs[n] => file'.recs[n] = file.recs[n]
SerialRepairKeepsCommitted == [][serial => KeepsCommitted]_vars

\* A file that is as the last commit left it is not reported: after such calls the map
\* describes it (verify_integrity: neither stale nor failures).  That says no more than
\* that nothing damaged it since: a repair may itself commit a damaged file.
HealthyIsReportedHealthy == serial /\ Quiet /\ file = committed => map = file

(***************************************************************************)
(* The inductive invariant of the last two (proofs in SurgicalRepair_proofs). *)
(***************************************************************************)
WornPiece(a, b) == a.value = b.value /\ b.wear \subseteq a.wear

\* Damage alone, or nothing, made t of s.
WornFrom(t, s) ==
    /\ WornPiece(t.frame, s.frame) /\ WornPiece(t.rest, s.rest)
    /\ \A n \in Names : WornPiece(t.recs[n], s.recs[n])

\* The file was worn from what the map describes, and that from what was last
\* committed: a map may have been built of a damaged file.
MapFollows == WornFrom(file, map) /\ WornFrom(map, committed)

Alone ==
    /\ \A p, q \in Procs : ~At(p, "idle") /\ ~At(q, "idle") => p = q
    /\ \A p \in Procs : At(p, "idle") \/ kind[p] # "transact"

\* While calls are serial the map follows the file, or a call is about to publish it,
\* and a repair still has the map of the disk.
SerialInv ==
    WornFrom(file, committed) /\ (serial =>
        /\ Alone
        /\ MapFollows \/ \E p \in Procs : pc[p] \in {"build", "publish"}
        /\ \A p \in Procs :
              /\ At(p, "publish") => WornFrom(file, seen[p]) /\ WornFrom(seen[p], committed)
              /\ pc[p] \in {"read", "choose", "fix"} => seen[p] = map)
=============================================================================
