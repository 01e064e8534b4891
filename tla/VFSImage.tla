------------------------------ MODULE VFSImage ------------------------------
(***************************************************************************)
(* What the public mutations do to the parsed image of one VFS (model.py),   *)
(* twice: the direct calls of engine.py, one commit each, and the copies of   *)
(* them that _apply_transaction_call runs for run_transaction and for write   *)
(* batches, which share one overlay until it is committed or given up.        *)
(*                                                                         *)
(* A commit is atomic here; how it is made so is module VfsCommit.  A name    *)
(* is a sequence: <<a>> for a and <<a, 1>> for a_1, the first item of a's     *)
(* stalk history.  A payload is its value; joined payloads are some value.    *)
(***************************************************************************)
EXTENDS Naturals, Sequences, SequencesExt

CONSTANTS UserNames,    \* the variable names callers use
          Values,       \* payloads
          LockOps,      \* operations that locks forbid, "*" for all
          DirectOps,    \* the calls of this instance that are made directly
          BatchedOps,   \* and those made in transactions or batches
          MaxCommits,   \* bound: commits
          MaxBatch      \* bound: calls in one transaction

Shared  == {"addvar", "appvar", "set_value", "changevar", "renamevar_stx", "removevar",
            "joinvars"}
OnlyDirect == {"lockvar", "lockdel", "stalkvar"}

ASSUME ImageConstantsOK ==
    /\ UserNames \subseteq Seq(UNION {Range(n) : n \in UserNames})
    /\ DirectOps \subseteq Shared \cup OnlyDirect /\ BatchedOps \subseteq Shared
    /\ MaxCommits \in Nat /\ MaxBatch \in Nat

VARIABLES
    image,      \* the committed image
    overlay,    \* the image a transaction works on; the committed one otherwise
    open,       \* a transaction is being applied
    applied,    \* calls applied to the overlay
    commits     \* commits so far

vars == <<image, overlay, open, applied, commits>>

\* The calls and the arguments they are made with.
Calls(ops) ==
    [op : ops \cap {"addvar", "changevar", "set_value"}, name : UserNames, val : Values]
    \cup [op : ops \cap {"stalkvar"}, name : UserNames, val : Values]
    \cup [op : ops \cap {"removevar"}, name : UserNames]
    \cup [op : ops \cap {"renamevar_stx"}, name : UserNames, to : UserNames]
    \cup [op : ops \cap {"joinvars"}, name : UserNames, from : SUBSET UserNames \ {{}}]
    \cup [op : ops \cap {"appvar"}, name : UserNames, val : Values, to : UserNames, locks : SUBSET LockOps]
    \cup [op : ops \cap {"lockvar", "lockdel"}, name : UserNames, locks : SUBSET LockOps \ {{}}]

-----------------------------------------------------------------------------
(***************************************************************************)
(* Images.  A refused call has no result; a performed one has its results.   *)
(***************************************************************************)
Empty == [recs |-> <<>>, locks |-> << >>, hist |-> << >>, recent |-> <<>>]

Names(img) == {r.name : r \in Range(img.recs)}

\* variable_map: of several records with one name the last is found.
IndexOf(img, n) == SelectLastInSeq(img.recs, LAMBDA r : r.name = n)

\* _parse_variables refuses a second record of one name, and the file with it.
Parses(img) == \A i, j \in DOMAIN img.recs : img.recs[i].name = img.recs[j].name => i = j

LocksOf(img, n) == IF n \in DOMAIN img.locks THEN img.locks[n] ELSE {}

\* Faulty variant: the wildcard is not looked for.
LockedExactly(img, n, op) == op \in LocksOf(img, n)
\* _ensure_not_locked
Locked(img, n, op) == {op, "*"} \cap LocksOf(img, n) # {}

HistoryItems(img) == UNION {Range(img.hist[r]) : r \in DOMAIN img.hist}

Without(f, k)    == Restrict(f, DOMAIN f \ {k})
Put(f, k, x)     == [j \in DOMAIN f \cup {k} |-> IF j = k THEN x ELSE f[j]]
Moved(f, k, new) == IF k \in DOMAIN f THEN Put(Without(f, k), new, f[k]) ELSE f
Record(n, v)     == [name |-> n, val |-> v]

\* A call whose checks all pass has the result img.
When(checks, img) == IF checks THEN {img} ELSE {}

(***************************************************************************)
(* The calls.                                                              *)
(***************************************************************************)
AddVar(img, n, v) ==
    When(n \notin Names(img), [img EXCEPT !.recs = Append(@, Record(n, v))])

\* appvar: a new variable, and a lock entry that replaces the one of m.
AppVar(img, n, v, m, ls) ==
    When(n \notin Names(img) /\ m \in Names(img) \cup {n},
         [img EXCEPT !.recs = Append(@, Record(n, v)), !.locks = Put(@, m, ls)])

SetValue(img, n, v) == [img EXCEPT !.recs = ReplaceAt(@, IndexOf(img, n), Record(n, v))]

ChangeVar(img, n, v) ==
    When(n \in Names(img) /\ ~Locked(img, n, "changevar"), SetValue(img, n, v))

\* Faulty variant: the lock is not consulted when the variable exists.
SetOverlayUnlocked(img, n, v) ==
    When(n \in Names(img), SetValue(img, n, v)) \cup AddVar(img, n, v)
SetOverlay(img, n, v) == IF n \in Names(img) THEN ChangeVar(img, n, v) ELSE AddVar(img, n, v)

\* set_typed_value looks the name up in a snapshot, and then changes or adds in a
\* commit of its own: other writers decide which of the two meets which image.
SetDirect(img, n, v) == ChangeVar(img, n, v) \cup AddVar(img, n, v)

(***************************************************************************)
(* The items of a renamed root get names derived from the new one; nobody     *)
(* looks whether those exist.                                               *)
(***************************************************************************)
Derived(n, m, item) == m \o SubSeq(item, Len(n) + 1, Len(item))

ItemName(img, n, m, k) == LET item == img.hist[n][k] IN
    IF IsPrefix(n, item) THEN Derived(n, m, item) ELSE Append(m, k)

RenamedHistory(img, n, m) ==
    IF n \in DOMAIN img.hist
    THEN Put(Without(img.hist, n), m, [k \in DOMAIN img.hist[n] |-> ItemName(img, n, m, k)])
    ELSE img.hist

\* The new name of x: the root's, an item's, or its own.
NewName(img, n, m, x) ==
    IF x = n THEN m
    ELSE IF n \in DOMAIN img.hist /\ x \in Range(img.hist[n])
    THEN ItemName(img, n, m, CHOOSE k \in DOMAIN img.hist[n] : img.hist[n][k] = x)
    ELSE x

RenamedRecords(img, n, m) ==
    [i \in DOMAIN img.recs |->
        IF i = IndexOf(img, img.recs[i].name)
        THEN [img.recs[i] EXCEPT !.name = NewName(img, n, m, @)] ELSE img.recs[i]]

RenameOverlay(img, n, m) ==
    When(/\ n \in Names(img) /\ m \notin Names(img)
         /\ ~Locked(img, n, "renamevar_stx") /\ n \notin HistoryItems(img),
         [img EXCEPT !.recs = RenamedRecords(img, n, m), !.locks = Moved(@, n, m),
                     !.hist = RenamedHistory(img, n, m)])

\* Faulty variant: the most-recent list keeps the old item names.
RenameForgetsRecent(img, n, m) == RenameOverlay(img, n, m)
\* The direct call renames the items in the most-recent list too.
RenameDirect(img, n, m) ==
    {[i EXCEPT !.recent = [k \in DOMAIN @ |-> NewName(img, n, m, @[k])]] :
        i \in RenameOverlay(img, n, m)}

\* Faulty variant: the variable's locks stay.
WithoutRecordOnly(img, n) == [img EXCEPT !.recs = RemoveFirst(@, img.recs[IndexOf(img, n)])]
WithoutVar(img, n) == [img EXCEPT !.recs = RemoveFirst(@, img.recs[IndexOf(img, n)]),
                                  !.locks = Without(@, n)]

MayRemove(img, n) == n \in Names(img) /\ ~Locked(img, n, "removevar")

RemoveOverlay(img, n) ==
    When(MayRemove(img, n), [WithoutVar(img, n) EXCEPT !.hist = Without(@, n)])

\* Faulty variant: the guards that protect a stalked variable are gone.
RemoveUnguarded(img, n) == When(MayRemove(img, n), WithoutVar(img, n))
\* The direct call protects a stalked variable and the items of its history.
RemoveDirect(img, n) ==
    When(MayRemove(img, n) /\ n \notin DOMAIN img.hist \cup HistoryItems(img), WithoutVar(img, n))

\* The payloads of the joined variables one after the other: some value.
Joined(img, n) == {[img EXCEPT !.recs = Append(@, Record(n, v))] : v \in Values}
MayJoin(img, from) == from \subseteq Names(img) /\ \A m \in from : ~Locked(img, m, "joinvars")

\* Faulty variant: the new name may exist.
JoinUnchecked(img, n, from) == IF MayJoin(img, from) THEN Joined(img, n) ELSE {}
JoinVars(img, n, from) ==
    IF n \notin Names(img) /\ MayJoin(img, from) THEN Joined(img, n) ELSE {}

AddLock(img, n, ls) ==
    When(n \in Names(img), [img EXCEPT !.locks = Put(@, n, LocksOf(img, n) \cup ls)])

\* An entry without operations is dropped.
DeleteLock(img, n, ls) ==
    When(n \in Names(img),
         [img EXCEPT !.locks = IF LocksOf(img, n) \subseteq ls THEN Without(@, n)
                               ELSE Put(@, n, LocksOf(img, n) \ ls)])

\* The next item of n's history, entered in the history and in the most-recent
\* list ___SQTPP___MRSV___.
Items(img, n)    == IF n \in DOMAIN img.hist THEN img.hist[n] ELSE <<>>
NextItem(img, n) == Append(n, Len(Items(img, n)) + 1)

StalkChecks(img, n, v) ==
    /\ n \in Names(img) /\ ~Locked(img, n, "stalkvar")
    /\ img.recs[IndexOf(img, n)].val # v /\ NextItem(img, n) \notin Names(img)

WithItem(img, n, v) ==
    LET item == NextItem(img, n) IN
    [img EXCEPT !.recs = Append(@, Record(item, v)),
                !.hist = Put(@, n, Append(Items(img, n), item))]

\* Faulty variant: the base is entered in the most-recent list, again and again.
StalkListsBase(img, n, v) ==
    When(StalkChecks(img, n, v), [WithItem(img, n, v) EXCEPT !.recent = Append(@, n)])
Stalk(img, n, v) ==
    When(StalkChecks(img, n, v),
         [WithItem(img, n, v) EXCEPT !.recent =
             IF NextItem(img, n) \in Range(@) THEN @ ELSE Append(@, NextItem(img, n))])

(***************************************************************************)
(* The two dispatches: the public functions, and _apply_transaction_call.     *)
(***************************************************************************)
DirectResults(img, c) ==
    CASE c.op = "addvar"        -> AddVar(img, c.name, c.val)
      [] c.op = "appvar"        -> AppVar(img, c.name, c.val, c.to, c.locks)
      [] c.op = "set_value"     -> SetDirect(img, c.name, c.val)
      [] c.op = "changevar"     -> ChangeVar(img, c.name, c.val)
      [] c.op = "renamevar_stx" -> RenameDirect(img, c.name, c.to)
      [] c.op = "removevar"     -> RemoveDirect(img, c.name)
      [] c.op = "joinvars"      -> JoinVars(img, c.name, c.from)
      [] c.op = "lockvar"       -> AddLock(img, c.name, c.locks)
      [] c.op = "lockdel"       -> DeleteLock(img, c.name, c.locks)
      [] c.op = "stalkvar"      -> Stalk(img, c.name, c.val)

OverlayResults(img, c) ==
    CASE c.op = "set_value"     -> SetOverlay(img, c.name, c.val)
      [] c.op = "renamevar_stx" -> RenameOverlay(img, c.name, c.to)
      [] c.op = "removevar"     -> RemoveOverlay(img, c.name)
      [] OTHER                  -> DirectResults(img, c)

-----------------------------------------------------------------------------
Init == /\ image = Empty /\ overlay = image
        /\ open = FALSE /\ applied = 0 /\ commits = 0

\* A direct call parses the file, changes the image and commits it.
Direct(c) ==
    /\ ~open /\ commits < MaxCommits /\ Parses(image)
    /\ image' \in DirectResults(image, c)
    /\ overlay' = image'
    /\ commits' = commits + 1
    /\ UNCHANGED <<open, applied>>

\* run_transaction_calls parses the file under the lock.
Open ==
    /\ ~open /\ commits < MaxCommits /\ MaxBatch > 0 /\ Parses(image)
    /\ open' = TRUE
    /\ UNCHANGED <<image, overlay, applied, commits>>

Apply(c) ==
    /\ open /\ applied < MaxBatch
    /\ overlay' \in OverlayResults(overlay, c)
    /\ applied' = applied + 1
    /\ UNCHANGED <<image, open, commits>>

Commit ==
    /\ open /\ applied > 0
    /\ image' = overlay
    /\ open' = FALSE /\ applied' = 0
    /\ commits' = commits + 1
    /\ UNCHANGED overlay

\* A call of the transaction is refused: the overlay is dropped.
Abort ==
    /\ open
    /\ overlay' = image
    /\ open' = FALSE /\ applied' = 0
    /\ UNCHANGED <<image, commits>>

\* A direct call that is refused, also because the file does not parse.
Refused == ~open /\ UNCHANGED vars

Next == \/ \E c \in Calls(DirectOps) : Direct(c)
        \/ \E c \in Calls(BatchedOps) : Apply(c)
        \/ Open \/ Commit \/ Abort \/ Refused

Spec == Init /\ [][Next]_vars

-----------------------------------------------------------------------------
(***************************************************************************)
(* Properties.                                                             *)
(***************************************************************************)
IsImage(img) ==
    /\ img.recs \in Seq([name : Names(img), val : Values])
    /\ \A n \in DOMAIN img.locks : img.locks[n] \subseteq LockOps
    /\ \A n \in DOMAIN img.hist : img.hist[n] # <<>>
    /\ IsInjective(img.recent)

TypeOK == /\ IsImage(image) /\ IsImage(overlay)
          /\ open \in BOOLEAN /\ applied \in 0..MaxBatch /\ commits \in 0..MaxCommits
          /\ ~open => overlay = image /\ applied = 0

\* No sequence of accepted calls commits a file that the parser refuses, after
\* which every call fails (parser.py:51 "duplicate variable record").
AlwaysParses == Parses(image)

\* A history belongs to a variable, its items are variables, and no variable is
\* an item twice (engine.py:476-478).
HistoryBacked ==
    /\ DOMAIN image.hist \cup HistoryItems(image) \subseteq Names(image)
    /\ \A r, s \in DOMAIN image.hist : \A i \in DOMAIN image.hist[r], j \in DOMAIN image.hist[s] :
          image.hist[r][i] = image.hist[s][j] => r = s /\ i = j

\* loadvar("*") reads the last entry of the most-recent list: each of them is an
\* item of some history.
RecentBacked == Range(image.recent) = HistoryItems(image)

\* A lock entry belongs to a variable; one that outlives its variable would lock
\* the next variable of that name.
LocksHaveVars == DOMAIN image.locks \subseteq Names(image)

\* The sections of the file name only records it has, whatever was renamed, removed,
\* stalked or re-created: histories, the most-recent list and locks agree with the
\* records and with each other (engine.py:448-500).
SectionsBacked == TypeOK /\ HistoryBacked /\ RecentBacked /\ LocksHaveVars

\* What a lock forbids does not happen in any single call, direct or in a batch:
\* "*" keeps name, value and history, "changevar" keeps the value.
LocksRespected ==
    [][(open => open' \/ commits' > commits) =>
       \A n \in Names(overlay) :
          LET val(img) == img.recs[IndexOf(img, n)].val
          IN /\ "*" \in LocksOf(overlay, n)
                   => /\ n \in Names(overlay') /\ val(overlay') = val(overlay)
                      /\ Items(overlay', n) = Items(overlay, n)
             /\ "changevar" \in LocksOf(overlay, n) /\ n \in Names(overlay')
                   => val(overlay') = val(overlay)]_vars

(***************************************************************************)
(* The inductive invariant of the three (proofs in VFSImage_proofs), for        *)
(* callers who name no variable like an item of another one and who remove and  *)
(* rename only directly.                                                    *)
(***************************************************************************)
NoItemNamed == \A n, m \in UserNames : \A k \in Nat : m # Append(n, k)
NoBatchedMoves == BatchedOps \cap {"renamevar_stx", "removevar"} = {}

\* The k-th item of a history is its variable's name with k, and is a record.
HistoriesCount(img) ==
    /\ DOMAIN img.hist \subseteq UserNames \cap Names(img)
    /\ \A n \in DOMAIN img.hist :
          /\ Len(img.hist[n]) \in Nat \ {0}
          /\ img.hist[n] = [k \in 1..Len(img.hist[n]) |-> Append(n, k)]
          /\ Range(img.hist[n]) \subseteq Names(img)

\* Names are the callers' or items'; locks are on the callers' names.
Tidy(img) ==
    /\ img = [recs |-> img.recs, locks |-> img.locks, hist |-> img.hist, recent |-> img.recent]
    /\ Parses(img)
    /\ img.recs \in Seq([name : UserNames \cup HistoryItems(img), val : Values])
    /\ HistoriesCount(img)
    /\ img.recent \in Seq(HistoryItems(img)) /\ IsInjective(img.recent)
    /\ Range(img.recent) = HistoryItems(img)
    /\ DOMAIN img.locks \subseteq UserNames \cap Names(img)
    /\ \A n \in DOMAIN img.locks : img.locks[n] \subseteq LockOps

ImageInv ==
    /\ Tidy(image) /\ Tidy(overlay)
    /\ open \in BOOLEAN /\ applied \in 0..MaxBatch /\ commits \in 0..MaxCommits
    /\ IF open THEN commits < MaxCommits ELSE overlay = image /\ applied = 0
=============================================================================
