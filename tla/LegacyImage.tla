----------------------------- MODULE LegacyImage -----------------------------
(***************************************************************************)
(* The frozen implementation of 1.2, legacy/original.py, the oracle of the    *)
(* migration: what its calls do to one .sqtpp file.  Each call reads the file,  *)
(* edits its text with str.replace and regular expressions, and replaces the    *)
(* file, under one lock of the whole package.                               *)
(*                                                                         *)
(* What the text edits do is kept, the text is not.  The pattern of a variable  *)
(* is not anchored at the start of a line, so it also meets every name that     *)
(* ends in the variable's: a name is the sequence of its parts, <<c, b>> for    *)
(* cb and <<b, 1>> for b_1.  A payload is the sequence of its @qp values.  The  *)
(* lock section is the sequence of its lines, a lock record counting as one.    *)
(***************************************************************************)
EXTENDS Naturals, Sequences, FiniteSets, SequencesExt

CONSTANTS UserNames,    \* the variable names callers use
          StalkNames,   \* those that stalkvar is called with
          Values,       \* the values of payloads
          LockOps,      \* operations named in locks
          Ops,          \* the calls of this instance
          Tilde,        \* mark of the name of a joined history, ~__a__~
          RecentName,   \* the lock record ___SQTPP___MRSV___
          NullLine,     \* the line null of a lock section without locks so far
          BlankLine,    \* an empty line
          MaxCalls,     \* bound: calls
          MaxItems,     \* bound: the number of the last item of a history
          MaxPayload,   \* bound: values in one payload
          MaxCuts       \* bound: crashes between the two writes of a stalkvar

AllOps == {"addvar", "corevar", "appvar", "appvar_locks", "changevar", "removevar",
           "renamevar_stx", "renumber", "joinvars", "lockvar", "lockdel", "stalkvar"}

\* The parts of names, and the records of a lock section.
Parts     == (UNION {Range(n) : n \in UserNames}) \cup Nat \cup {Tilde, RecentName}
LockLines == [name : Seq(Parts), ops : Seq(LockOps \cup Seq(Parts))]

\* stalkvar edits the text of the histories without anchors too: no name of a
\* history ends in another.  Items are not stalked.  A caller's name has no marks of the
\* implementation, and null and an empty line are no lock records.
ASSUME LegacyConstantsOK ==
    /\ IsFiniteSet(UserNames) /\ IsFiniteSet(LockOps)
    /\ UserNames \subseteq Seq(UNION {Range(n) : n \in UserNames}) \ {<<>>}
    /\ \A n \in UserNames : Tilde \notin Range(n) /\ n # <<RecentName>>
    /\ Tilde \notin Nat
    /\ StalkNames \subseteq UserNames
    /\ \A m, n \in StalkNames : IsSuffix(m, n) => m = n
    /\ NullLine # BlankLine /\ {NullLine, BlankLine} \cap LockLines = {}
    /\ Ops \subseteq AllOps
    /\ {MaxCalls, MaxItems, MaxPayload, MaxCuts} \subseteq Nat

VARIABLES file,     \* the file on disk
          calls,    \* calls made
          cuts      \* crashes so far

vars == <<file, calls, cuts>>

\* What is left of s when only what is in kept stays, or when what is in gone goes.
Only(s, kept)    == FlattenSeq([i \in DOMAIN s |-> IF s[i] \in kept THEN <<s[i]>> ELSE <<>>])
Without(s, gone) == Only(s, Range(s) \ gone)

OneOfEach(entries) ==
    \A i, j \in DOMAIN entries : i # j => entries[i].name # entries[j].name

-----------------------------------------------------------------------------
(***************************************************************************)
(* Files.  stray: appvar with locks leaves one colon too many at the end of     *)
(* the lock section.                                                       *)
(***************************************************************************)
NewFile == [recs |-> <<>>, lines |-> <<NullLine>>, hist |-> << >>, stray |-> FALSE]

Core        == <<>>                 \* the payload of a corevar, @q*p(...)
Missing     == <<NullLine>>         \* @qp(null):
Record(n,p) == [name |-> n, val |-> p]
Names(f)    == {r.name : r \in Range(f.recs)}

\* sqtpp_locate_var: the record itself, from the start of its line.
Exists(f, n) == \E r \in Range(f.recs) : r.name = n /\ r.val # Core

\* The unanchored pattern n<@qp(...):> of sqtpp_var_value: all records it meets.
Meets(n, r) == IsSuffix(n, r.name) /\ r.val # Core
Found(f, n) == \E r \in Range(f.recs) : Meets(n, r)
Value(f, n) == f.recs[SelectInSeq(f.recs, LAMBDA r : Meets(n, r))].val

\* The records n<p> that str.replace removes: they begin a line.
WithoutRecord(f, n, p) == [f EXCEPT !.recs = Without(@, {Record(n, p)})]

IsRoot(f, n)   == n \in DOMAIN f.hist
Items(f, n)    == IF IsRoot(f, n) THEN f.hist[n] ELSE <<>>
AllItems(f)    == UNION {Range(f.hist[n]) : n \in DOMAIN f.hist}
Number(item)   == Last(item)
Forget(f, n)   == [f EXCEPT !.hist = [m \in DOMAIN @ \ {n} |-> @[m]]]

\* sqtpp_svvs_next_int: never 1 when the history exists.
NextNumber(items) == IF items = <<>> THEN 1 ELSE Max({1} \cup {Number(i) : i \in Range(items)}) + 1

(***************************************************************************)
(* The lock section.                                                       *)
(***************************************************************************)
IsLock(l)       == l \notin {NullLine, BlankLine}
LockIndex(s, n) == SelectInSeq(s, LAMBDA l : IsLock(l) /\ l.name = n)
HasLock(s, n)   == LockIndex(s, n) # 0
LockOf(s, n)    == s[LockIndex(s, n)]
Lock(n, ops)    == [name |-> n, ops |-> ops]

ReplaceAllLines(s, old, new) == [i \in DOMAIN s |-> IF s[i] = old THEN new ELSE s[i]]

\* replace('\n\n', '\n') takes the newlines of a run of empty lines in pairs; the
\* one before the end of the section is not followed by another.
PlaceInRun(s, i) == i - Max({0} \cup {j \in 1..(i - 1) : s[j] # BlankLine})
Kept(s, i)       == s[i] # BlankLine \/ i = Len(s) \/ PlaceInRun(s, i) % 2 = 0
Collapsed(s)     == FlattenSeq([i \in DOMAIN s |-> IF Kept(s, i) THEN <<s[i]>> ELSE <<>>])

\* Faulty variant: the section is cut off at the record.
LockCutOff(s, n) ==
    IF HasLock(s, n) THEN Append(SubSeq(s, 1, LockIndex(s, n) - 1), BlankLine) ELSE s
\* The first record of n and its equals become empty lines.
WithoutLock(s, n) ==
    IF HasLock(s, n) THEN Collapsed(ReplaceAllLines(s, LockOf(s, n), BlankLine)) ELSE s

\* One after the other.
WithoutLocks(f, ns) ==
    LET lines[k \in 0..Len(ns)] ==
          IF k = 0 THEN f.lines ELSE WithoutLock(lines[k - 1], ns[k])
    IN [f EXCEPT !.lines = lines[Len(ns)]]

\* sqtpp_silent_lock_add of ___SQTPP___MRSV___: the item takes the place of the last
\* one, or a record is added and the stray colons go.
Recent == <<RecentName>>
\* Faulty variant: a record is added each time.
AddRecent(f, item) == [f EXCEPT !.lines = Append(@, Lock(Recent, <<item>>)), !.stray = FALSE]
WithRecent(f, item) ==
    IF HasLock(f.lines, Recent)
    THEN [f EXCEPT !.lines = ReplaceAllLines(@, LockOf(f.lines, Recent), Lock(Recent, <<item>>))]
    ELSE [f EXCEPT !.lines = Append(@, Lock(Recent, <<item>>)), !.stray = FALSE]

-----------------------------------------------------------------------------
(***************************************************************************)
(* The calls, each with the set of files it may leave; a refused call has       *)
(* none, one that finds nothing to do leaves the file as it is.               *)
(***************************************************************************)
When(checks, f) == IF checks THEN {f} ELSE {}

Add(f, n, p) == [f EXCEPT !.recs = Append(@, Record(n, p))]

\* Faulty variant: no look at the records.
AddVarAlways(f, n, v) == {Add(f, n, <<v>>)}
AddVar(f, n, v)       == When(~Exists(f, n), Add(f, n, <<v>>))

\* corevar looks for an @qp record of the name, not for an @q*p one.
CoreVar(f, n) == When(~Found(f, n), Add(f, n, Core))

\* appvar of the names ns: those without a value get null.
AppVar(f, ns, vs) ==
    When(Range(ns) \cap Names(f) = {},
         [f EXCEPT !.recs = @ \o [i \in DOMAIN ns |->
             Record(ns[i], IF i \in DOMAIN vs THEN <<vs[i]>> ELSE Missing)]])

\* appvar with a lock: a record more, whether or not m has one.
AppVarLocks(f, ns, vs, m, op) ==
    {[g EXCEPT !.lines = Append(@, Lock(m, <<op>>)), !.stray = TRUE] : g \in AppVar(f, ns, vs)}

\* Faulty variant: every record with the old payload is changed.
ChangeByPayload(f, n, v) ==
    When(Found(f, n), [f EXCEPT !.recs = [i \in DOMAIN @ |->
        IF @[i].val = Value(f, n) THEN Record(@[i].name, <<v>>) ELSE @[i]]])
\* changevar of a plain variable: the text n<payload>, wherever a name ends in n.
ChangePlain(f, n, v) ==
    When(Found(f, n), [f EXCEPT !.recs = [i \in DOMAIN @ |->
        IF Meets(n, @[i]) /\ @[i].val = Value(f, n) THEN Record(@[i].name, <<v>>) ELSE @[i]]])

\* changevar of a root removes the items that have the value, but not all of them.
EqualItems(f, n, v) ==
    Only(Items(f, n), {i \in Range(Items(f, n)) : Found(f, i) /\ Value(f, i) = <<v>>})

\* What is found for some items goes, and they go out of the history of n.
\* Faulty variant: the history goes on naming them.
UnstalkRecords(f, n, items) ==
    [f EXCEPT !.recs = Without(@, {Record(i, Value(f, i)) : i \in items})]
Unstalk(f, n, items) ==
    [f EXCEPT !.recs = Without(@, {Record(i, Value(f, i)) : i \in items}),
              !.hist[n] = Without(@, items)]

ChangeRoot(f, n, v) ==
    LET gone == EqualItems(f, n, v) IN
    When(Len(Items(f, n)) > 1 /\ Len(gone) < Len(Items(f, n)),
         WithoutLocks(Unstalk(f, n, Range(gone)), gone))

ChangeVar(f, n, v) == IF IsRoot(f, n) THEN ChangeRoot(f, n, v) ELSE ChangePlain(f, n, v)

\* removevar: nothing happens when nothing is met.
RemoveVar(f, n) ==
    When(~IsRoot(f, n),
         IF Found(f, n) THEN WithoutLocks(WithoutRecord(f, n, Value(f, n)), <<n>>) ELSE f)

EndIn(n, m, x) == SubSeq(x, 1, Len(x) - Len(n)) \o m

\* Faulty variant: the lock stays behind.
RenameRecords(f, n, m) ==
    When(~IsRoot(f, n) /\ Found(f, n),
         [f EXCEPT !.recs = [i \in DOMAIN @ |->
                        IF Meets(n, @[i]) /\ @[i].val = Value(f, n)
                        THEN Record(EndIn(n, m, @[i].name), @[i].val) ELSE @[i]]])
\* renamevar_stx: nobody looks whether the new name exists.
RenameVar(f, n, m) ==
    When(~IsRoot(f, n) /\ Found(f, n),
         [f EXCEPT !.recs = [i \in DOMAIN @ |->
                        IF Meets(n, @[i]) /\ @[i].val = Value(f, n)
                        THEN Record(EndIn(n, m, @[i].name), @[i].val) ELSE @[i]],
                   !.lines = [i \in DOMAIN @ |->
                        IF IsLock(@[i]) /\ @[i].name = n THEN Lock(m, @[i].ops) ELSE @[i]]])

\* renamevar_stx of a root with an integer k: for k > 0 the renumbering stops with an
\* IndexError before it writes; otherwise 1 - k items go, the smallest first, but the
\* last.
RenumberChecks(f, n, k) == IsRoot(f, n) /\ Len(Items(f, n)) > 1 /\ k <= 0
Renumber(f, n, k) ==
    IF ~RenumberChecks(f, n, k) THEN {} ELSE
    LET smaller(i) == {j \in Range(Items(f, n)) : Number(j) < Number(i)}
        least == {i \in Range(Items(f, n)) :
                     Cardinality(smaller(i)) < Min({1 - k, Len(Items(f, n)) - 1})}
        gone  == Only(Items(f, n), {i \in least : Found(f, i)})
    IN {WithoutLocks(Unstalk(f, n, Range(gone)), gone)}

\* joinvars: the payloads of those of the variables that are found.
Payloads(f, ns) == FlattenSeq([i \in DOMAIN ns |-> IF Found(f, ns[i]) THEN Value(f, ns[i]) ELSE <<>>])
JoinName(n)     == <<Tilde>> \o n \o <<Tilde>>

JoinRoot(f, n) ==
    LET p == Payloads(f, Items(f, n))
        i == SelectInSeq(f.recs, LAMBDA r : r.name = JoinName(n))
    IN {IF i = 0 THEN Add(f, JoinName(n), p)
        ELSE [f EXCEPT !.recs[i] = Record(JoinName(n), p)]}

JoinVars(f, n, ns) ==
    LET p == Payloads(f, IF IsRoot(f, n) THEN Items(f, n) ELSE ns) IN
    IF p = <<>> THEN {f}
    ELSE IF IsRoot(f, n) THEN JoinRoot(f, n) ELSE {Add(f, n, p)}

\* lockvar.  While the section says null it is taken for empty and replaced.
LockFirst(f, n, ops) == {[f EXCEPT !.lines = <<Lock(n, ops)>>, !.stray = FALSE]}

\* Later the record of n is removed, but for one on the first line, and written anew at
\* the end, with its operations in the order of a Python set.
LockAgain(f, n, ops) ==
    LET mine == IF HasLock(f.lines, n) THEN {LockOf(f.lines, n)} ELSE {}
        all  == Range(ops) \cup UNION {Range(l.ops) : l \in mine}
        old  == Without(Tail(f.lines), mine)
    IN {[f EXCEPT !.lines = <<Head(@)>> \o Append(old, Lock(n, o))] : o \in SetToSeqs(all)}

LockVar(f, n, ops) ==
    IF ~Exists(f, n) THEN {}
    ELSE IF NullLine \in Range(f.lines) THEN LockFirst(f, n, ops) ELSE LockAgain(f, n, ops)

\* lockdel of some operations, or of all.
LockDel(f, n, all, ops) ==
    IF ~HasLock(f.lines, n) THEN {}
    ELSE LET left == Without(LockOf(f.lines, n).ops, Range(ops)) IN
         IF all \/ left = <<>> THEN {WithoutLocks(f, <<n>>)}
         ELSE {[f EXCEPT !.lines = ReplaceAllLines(@, LockOf(f.lines, n), Lock(n, left))]}

\* stalkvar.  The value of the root again ends the history, and leaves its items.
WithHistory(f, n, item) ==
    [f EXCEPT !.hist = [m \in DOMAIN @ \cup {n} |-> IF m = n THEN Append(Items(f, n), item) ELSE @[m]]]
StalkItem(f, n)         == Append(n, NextNumber(Items(f, n)))
StalkNew(f, n, v) ==
    LET item == StalkItem(f, n) IN
    WithRecent(Add(WithHistory(f, n, item), item, <<v>>), item)

Stalk(f, n, v) ==
    IF ~Found(f, n) THEN {}
    ELSE IF Value(f, n) # <<v>> THEN {StalkNew(f, n, v)}
    ELSE When(IsRoot(f, n), Forget(f, n))

\* The first history of the file is written before its record and its lock.
StalkCut(f, n, v) ==
    When(f.hist = << >> /\ Found(f, n) /\ Value(f, n) # <<v>>, WithHistory(f, n, StalkItem(f, n)))

-----------------------------------------------------------------------------
(***************************************************************************)
(* Calls and their arguments.  Items are changed, removed, renamed and joined   *)
(* by their own names as well.  lockvar is not called with items: the end of a   *)
(* history with a locked item would add a dark variable, not modelled.          *)
(***************************************************************************)
Calls(f) ==
    LET known == UserNames \cup AllItems(f)
        some  == SetToAllKPermutations(UserNames) \ {<<>>} IN
    [op : Ops \cap {"addvar"}, name : UserNames, val : Values]
    \cup [op : Ops \cap {"corevar"}, name : UserNames]
    \cup [op : Ops \cap {"appvar"}, name : {ns \in some : Len(ns) <= 2}, val : {<<>>} \cup {<<v>> : v \in Values}]
    \cup [op : Ops \cap {"appvar_locks"}, name : {ns \in some : Len(ns) = 1}, val : {<<v>> : v \in Values},
          on : UserNames, lock : LockOps]
    \cup [op : Ops \cap {"changevar"}, name : known, val : Values]
    \cup [op : Ops \cap {"removevar"}, name : known]
    \cup [op : Ops \cap {"renamevar_stx"}, name : known, to : UserNames]
    \cup [op : Ops \cap {"renumber"}, name : StalkNames, to : {0, 1}]
    \cup [op : Ops \cap {"joinvars"}, name : UserNames, from : {ns \in some : Len(ns) <= 2}]
    \cup [op : Ops \cap {"lockvar"}, name : UserNames, locks : SetToAllKPermutations(LockOps) \ {<<>>}]
    \cup [op : Ops \cap {"lockdel"}, name : UserNames, all : BOOLEAN, locks : {<<o>> : o \in LockOps}]
    \cup [op : Ops \cap {"stalkvar"}, name : StalkNames, val : Values]

Results(f, c) ==
    CASE c.op = "addvar"        -> AddVar(f, c.name, c.val)
      [] c.op = "corevar"       -> CoreVar(f, c.name)
      [] c.op = "appvar"        -> AppVar(f, c.name, c.val)
      [] c.op = "appvar_locks"  -> AppVarLocks(f, c.name, c.val, c.on, c.lock)
      [] c.op = "changevar"     -> ChangeVar(f, c.name, c.val)
      [] c.op = "removevar"     -> RemoveVar(f, c.name)
      [] c.op = "renamevar_stx" -> RenameVar(f, c.name, c.to)
      [] c.op = "renumber"      -> Renumber(f, c.name, c.to)
      [] c.op = "joinvars"      -> JoinVars(f, c.name, c.from)
      [] c.op = "lockvar"       -> LockVar(f, c.name, c.locks)
      [] c.op = "lockdel"       -> LockDel(f, c.name, c.all, c.locks)
      [] c.op = "stalkvar"      -> Stalk(f, c.name, c.val)

\* Bounds.  A section with stray colons is followed only through the calls that leave
\* it alone or write it anew.
EditsLocks(f, c) ==
    \/ c.op \in {"appvar_locks", "removevar", "renamevar_stx", "renumber", "lockdel"}
    \/ c.op = "lockvar" /\ NullLine \notin Range(f.lines)
    \/ c.op = "changevar" /\ IsRoot(f, c.name)
    \/ c.op = "stalkvar" /\ HasLock(f.lines, Recent)
Within(f) == /\ \A r \in Range(f.recs) : Len(r.val) <= MaxPayload
             /\ \A i \in AllItems(f) : Number(i) <= MaxItems

Init == file = NewFile /\ calls = 0 /\ cuts = 0

Call(c) ==
    /\ calls < MaxCalls
    /\ file.stray => ~EditsLocks(file, c)
    /\ file' \in {g \in Results(file, c) : Within(g)}
    /\ calls' = calls + 1
    /\ UNCHANGED cuts

Cut(n, v) ==
    /\ "stalkvar" \in Ops /\ cuts < MaxCuts /\ calls < MaxCalls
    /\ file' \in StalkCut(file, n, v)
    /\ calls' = calls + 1 /\ cuts' = cuts + 1

\* A call that is refused leaves the file as it is.
Refused == UNCHANGED vars

Next == \/ \E c \in Calls(file) : Call(c)
        \/ \E n \in StalkNames, v \in Values : Cut(n, v)
        \/ Refused

Spec == Init /\ [][Next]_vars

-----------------------------------------------------------------------------
(***************************************************************************)
(* Properties.  Those about calls look at every call that may come next.        *)
(***************************************************************************)
TypeOK ==
    /\ \A r \in Range(file.recs) : r.val \in {Core, Missing} \cup BoundedSeq(Values \cup {NullLine}, MaxPayload)
    /\ \A l \in Range(file.lines) : IsLock(l) => l.ops # <<>>
    /\ OneOfEach(Only(file.lines, {l \in Range(file.lines) : IsLock(l) /\ l.name = Recent}))
    /\ \A n \in DOMAIN file.hist : n \in StalkNames
    /\ calls \in 0..MaxCalls /\ cuts \in 0..MaxCuts

\* What the parser of the new engine accepts (parser.py:31-81): one record and one lock
\* of a name, and no colons that belong to nothing.  Joined histories are opaque to it.
Opaque(r)   == Head(r.name) = Tilde
Parsed(f)   == Only(f.recs, {r \in Range(f.recs) : ~Opaque(r)})
Locks(f)    == Only(f.lines, {l \in Range(f.lines) : IsLock(l)})
Accepted(f) == OneOfEach(Parsed(f)) /\ OneOfEach(Locks(f)) /\ ~f.stray

\* Every file a call may leave next.
Follows(f, c) == IF f.stray /\ EditsLocks(f, c) THEN {} ELSE {g \in Results(f, c) : Within(g)}

\* The call enters a name a second time.
Collides(f, c) ==
    CASE c.op \in {"addvar", "corevar"} -> Record(c.name, Core) \in Range(f.recs)
      [] c.op = "joinvars"      -> c.name \in Names(f) /\ ~IsRoot(f, c.name)
      [] c.op = "stalkvar"      -> StalkItem(f, c.name) \in Names(f)
      [] c.op = "renamevar_stx" ->
            \/ \E r \in Range(f.recs) : Meets(c.name, r) /\ EndIn(c.name, c.to, r.name) \in Names(f)
            \/ HasLock(f.lines, c.name) /\ HasLock(f.lines, c.to)
      [] c.op = "lockvar"       -> IsLock(Head(f.lines)) /\ Head(f.lines).name = c.name
      [] c.op = "appvar_locks"  -> TRUE
      [] OTHER                  -> FALSE

\* A file of 1.2 that the new engine can open stays one (RELEASE_NOTES_1_3_0.md:5), but
\* for a call that enters a name again without looking (original.py:1103, 1131, 2806,
\* 1826), a variable added over a corevar (848, 894), and appvar with a lock (986).
OnlyCollisionsBreakFiles ==
    Accepted(file) => \A c \in Calls(file) : \A g \in Follows(file, c) : Accepted(g) \/ Collides(file, c)

\* The records and locks a call is about: its variables, the items of their history, the
\* next one, the joined history.
Aims(f, c) ==
    IF c.op \in {"appvar", "appvar_locks"} THEN Range(c.name)
    ELSE {c.name, JoinName(c.name), StalkItem(f, c.name)} \cup Range(Items(f, c.name))
         \cup (IF c.op = "renamevar_stx" THEN {c.to} ELSE {})
ByEnding(c) == c.op \in {"changevar", "renamevar_stx"}
IsAim(aims, c, r) ==
    \E n \in aims : IF ByEnding(c) THEN IsSuffix(n, r.name) ELSE n = r.name

\* All other records keep their payloads, their number and their order: replacing text
\* in the whole file (original.py:1253, 1131, 1281) never meets a payload of another
\* variable, unless its name ends in the one that is changed or renamed.
OthersKeepRecords(f, c, g) ==
    LET aims == Aims(f, c)
        others(h) == Only(h.recs, {r \in Range(h.recs) : ~IsAim(aims, c, r)})
    IN others(g) = others(f)

\* The locks of all other variables stay as they are, whatever becomes of empty lines
\* (original.py:2167-2204), unless lockvar meets a section that still says null (2854).
OthersKeepLocks(f, c, g) ==
    LET named == Aims(f, c) \cup {Recent} \cup (IF c.op = "appvar_locks" THEN {c.on} ELSE {})
        others(h) == Only(h.lines, {l \in Range(h.lines) : IsLock(l) /\ l.name \notin named})
    IN others(g) = others(f) \/ (c.op = "lockvar" /\ NullLine \in Range(f.lines))

\* The file keeps its form, and a call leaves the records and locks of all variables it
\* is not about.
OthersUntouched ==
    /\ TypeOK
    /\ \A c \in Calls(file) : \A g \in Follows(file, c) :
          OthersKeepRecords(file, c, g) /\ OthersKeepLocks(file, c, g)

\* A history names records that exist: taking items out of it (original.py:1276-1287,
\* 1192-1215) takes both, so that an item without its record goes back to a call by
\* the item's own name, or to a crash in its stalkvar.
Dangling(f) == {i \in AllItems(f) : ~Exists(f, i)}
ItemsKeepRecords ==
    \A c \in Calls(file) : \A g \in Follows(file, c) : \A i \in Dangling(g) \ Dangling(file) :
        c.op \in {"removevar", "renamevar_stx"} /\ c.name = i

(***************************************************************************)
(* The legacy calls as an oracle for the new ones, module VFSImage: the image of   *)
(* the file, and the calls that the two take in the same way.                   *)
(***************************************************************************)
Image(f) ==
    [recs   |-> Parsed(f),
     locks  |-> [n \in {l.name : l \in Range(Locks(f))} \ {Recent} |-> Range(LockOf(f.lines, n).ops)],
     hist   |-> f.hist,
     recent |-> <<>>]

New == INSTANCE VFSImage WITH
           Values <- BoundedSeq(Values \cup {NullLine}, MaxPayload),
           image <- Image(file), overlay <- Image(file), open <- FALSE, applied <- 0, commits <- calls,
           DirectOps <- Ops \cap AllOps, BatchedOps <- {}, MaxCommits <- MaxCalls, MaxBatch <- 0

\* The name is the one variable that it meets, and no lock forbids the call.
Plain(f, n, op) == /\ Exists(f, n) /\ \A r \in Range(f.recs) : IsSuffix(n, r.name) => r.name = n
                   /\ ~New!Locked(Image(f), n, op)
Contiguous(f, n) == \A k \in DOMAIN Items(f, n) : Items(f, n)[k] = Append(n, k)

Comparable(f, c) ==
    CASE c.op = "addvar"        -> TRUE
      [] c.op = "changevar"     -> Plain(f, c.name, c.op) /\ ~IsRoot(f, c.name)
      [] c.op = "removevar"     -> Plain(f, c.name, c.op) /\ ~IsRoot(f, c.name) /\ c.name \notin AllItems(f)
      [] c.op = "renamevar_stx" -> Plain(f, c.name, c.op) /\ ~IsRoot(f, c.name) /\ c.name \notin AllItems(f)
      [] c.op = "joinvars"      -> ~IsRoot(f, c.name) /\ \A n \in Range(c.from) : Plain(f, n, c.op)
      [] c.op = "lockvar"       -> Exists(f, c.name) /\ (NullLine \in Range(f.lines) => Len(f.lines) = 1)
      [] c.op = "lockdel"       -> Exists(f, c.name) /\ HasLock(f.lines, c.name)
      [] c.op = "stalkvar"      -> Plain(f, c.name, c.op) /\ Contiguous(f, c.name) /\ Value(f, c.name) # <<c.val>>
      [] OTHER                  -> FALSE

NewResults(img, c) ==
    CASE c.op = "addvar"        -> New!AddVar(img, c.name, <<c.val>>)
      [] c.op = "changevar"     -> New!ChangeVar(img, c.name, <<c.val>>)
      [] c.op = "removevar"     -> New!RemoveDirect(img, c.name)
      [] c.op = "renamevar_stx" -> New!RenameDirect(img, c.name, c.to)
      [] c.op = "joinvars"      -> New!JoinVars(img, c.name, Range(c.from))
      [] c.op = "lockvar"       -> New!AddLock(img, c.name, Range(c.locks))
      [] c.op = "lockdel"       -> New!DeleteLock(img, c.name,
                                       IF c.all THEN Range(LockOf(file.lines, c.name).ops) ELSE Range(c.locks))
      [] c.op = "stalkvar"      -> {[i EXCEPT !.recent = <<>>] : i \in New!Stalk(img, c.name, <<c.val>>)}

\* On a file both accept, and where no name is entered twice, met by its ending or
\* locked, the old call and the new one leave the same records in the same order, the
\* same locks and histories (COMPATIBILITY_MATRIX.md:5); which values joinvars gives is
\* VFSImage's free choice.
OracleAgrees ==
    Accepted(file) => \A c \in Calls(file) : Comparable(file, c) /\ ~Collides(file, c) =>
        LET new == NewResults(Image(file), c) IN
        /\ new = {} <=> Results(file, c) = {}
        /\ {Image(g) : g \in Follows(file, c)} \subseteq new
=============================================================================
