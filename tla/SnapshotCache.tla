--------------------------- MODULE SnapshotCache ---------------------------
(***************************************************************************)
(* Reading one VFS file while it is replaced: the mapped snapshots           *)
(* (snapshot.py), the cache of them that every process keeps (engine.py       *)
(* :46-117), the .sqti sidecar index all processes share, and the calls that   *)
(* invalidate the one and unlink the other around their commit.               *)
(*                                                                         *)
(* A commit is one atomic replacement here (module VfsCommit shows why).  The  *)
(* file is the sequence of its generations; what stat returns, the identity    *)
(* (device, inode, size, mtime), is the number of the generation.  A process    *)
(* that dies takes no more steps: what it leaves is what its last step left.   *)
(***************************************************************************)
EXTENDS Naturals, Sequences, SequencesExt, TLC

CONSTANTS Procs, Threads,
          ProcOf,         \* the process of each thread
          OpsOf,          \* the calls each thread makes
          MaxCalls,       \* bound: calls of each thread
          MaxGens,        \* bound: generations of the file
          ScanWeight,     \* index_weight of a scanned snapshot
          SidecarWeight,  \* and of one that uses the sidecar
          MaxWeight,      \* _READ_CACHE_MAX_INDEX_BYTES
          MaxEntries      \* _READ_CACHE_MAX_ENTRIES

\* What each call does to the file, the sidecar and the cache, in order.
Program ==
  [ read     |-> <<"stat", "lookup", "map", "index", "save", "restat", "file">>,
    inspect  |-> <<"map", "index", "save">>,
    rebuild  |-> <<"drop", "unlink", "map", "index", "save">>,
    mutate   |-> <<"drop", "commit", "drop", "unlink", "map", "index", "save", "unlink">>,
    transact |-> <<"drop", "commit", "drop", "unlink">>,
    restore  |-> <<"restore", "drop", "unlink", "map", "index", "save", "unlink">>,
    repair   |-> <<"drop", "patch", "map", "index", "save", "map", "index", "save",
                   "map", "index", "save", "drop", "unlink">>,
    optimize |-> <<"drop", "parse", "canon", "compare", "map", "index", "save", "unlink",
                   "map", "index", "save", "drop">> ]

\* The rest of a read whose second stat differs from the first.
Again == <<"map", "index", "save", "restat2", "file">>

ASSUME CacheConstantsOK ==
    /\ ProcOf \in [Threads -> Procs] /\ OpsOf \in [Threads -> SUBSET DOMAIN Program]
    /\ MaxCalls \in [Threads -> Nat] /\ {MaxWeight, MaxEntries} \subseteq Nat
    /\ MaxGens \in Nat \ {0}
    /\ {ScanWeight, SidecarWeight} \subseteq Nat \ {0}

VARIABLES
    files,      \* the generations of the file, each [content, canonical]
    sidecar,    \* the generation the sidecar describes; 0: none or damaged
    cache,      \* _READ_CACHE of each process, least recently used first
    bytes,      \* _READ_CACHE_INDEX_BYTES
    todo,       \* the steps left of the call of each thread
    local,      \* the locals of the call
    calls       \* calls each thread has made

vars == <<files, sidecar, cache, bytes, todo, local, calls>>

Head_  == Len(files)
\* key: the last stat; first: the first one; gen: the generation mapped; index: the
\* one its spans are of; content: a fingerprint; began: the head when a read began;
\* alarm: optimize has reported changed content.
Clear  == [key |-> 0, first |-> 0, gen |-> 0, index |-> 0, weight |-> 0,
           content |-> 0, began |-> 0, alarm |-> FALSE]

\* The weight of the first n entries, for every n, and of them all.
Sums(entries) ==
    LET sum[n \in 0..Len(entries)] ==
            IF n = 0 THEN 0 ELSE sum[n - 1] + entries[n].weight
    IN  sum
Weight(entries) == Sums(entries)[Len(entries)]
Entry(l) == [key |-> l.key, first |-> l.first, gen |-> l.gen, index |-> l.index,
             weight |-> l.weight]

Init == /\ \E c \in BOOLEAN : files = <<[content |-> 1, canonical |-> c]>>
        /\ sidecar = 0
        /\ cache = [p \in Procs |-> <<>>] /\ bytes = [p \in Procs |-> 0]
        /\ todo = [t \in Threads |-> <<>>]
        /\ local = [t \in Threads |-> Clear]
        /\ calls = [t \in Threads |-> 0]

-----------------------------------------------------------------------------
At(t, s) == todo[t] # <<>> /\ Head(todo[t]) = s
Done(t)  == todo' = [todo EXCEPT ![t] = Tail(@)]
Jump(t, steps) == todo' = [todo EXCEPT ![t] = steps]

Begin(t) ==
    /\ todo[t] = <<>> /\ calls[t] < MaxCalls[t]
    /\ \E o \in OpsOf[t] :
          /\ Jump(t, Program[o])
          /\ local' = [local EXCEPT ![t] = IF o = "read" THEN [Clear EXCEPT !.began = Head_] ELSE Clear]
    /\ calls' = [calls EXCEPT ![t] = @ + 1]
    /\ UNCHANGED <<files, sidecar, cache, bytes>>

(***************************************************************************)
(* _read_snapshot.                                                         *)
(***************************************************************************)
Stat(t) ==
    /\ At(t, "stat") /\ Done(t)
    /\ local' = [local EXCEPT ![t].key = Head_, ![t].first = Head_]
    /\ UNCHANGED <<files, sidecar, cache, bytes, calls>>

\* Faulty variant: any entry of the file is a hit.
HitsAny(p, key) == DOMAIN cache[p]
Hits(p, key) == {i \in DOMAIN cache[p] : cache[p][i].key = key}

\* Under _READ_CACHE_LOCK; a hit becomes the most recently used entry.
Lookup(t) == LET p == ProcOf[t] IN
    /\ At(t, "lookup")
    /\ \/ \E i \in Hits(p, local[t].key) :
            /\ cache' = [cache EXCEPT ![p] = Append(RemoveAt(@, i), @[i])]
            /\ Jump(t, <<>>)
            /\ local' = [local EXCEPT ![t] = Clear]
       \/ Hits(p, local[t].key) = {} /\ Done(t) /\ UNCHANGED <<local, cache>>
    /\ UNCHANGED <<files, sidecar, bytes, calls>>

\* MappedVFS opens and maps the file: what it maps stays as it is.
Map(t) ==
    /\ At(t, "map") /\ Done(t)
    /\ local' = [local EXCEPT ![t].gen = Head_]
    /\ UNCHANGED <<files, sidecar, cache, bytes, calls>>

\* Faulty variant: whatever sidecar is there is used.
UsesAnySidecar(gen) == sidecar # 0
\* _load_sidecar accepts a sidecar that carries the identity of the mapped file.
UsesSidecar(gen) == sidecar = gen

\* A read keeps its snapshot, the other calls close theirs.
Snapshot(t, l) == IF Contains(todo[t], "file") THEN l
                  ELSE [Clear EXCEPT !.content = l.content]

\* The sidecar is loaded, or the mapped bytes are scanned.
Index(t) ==
    /\ At(t, "index")
    /\ IF UsesSidecar(local[t].gen)
       THEN /\ local' = [local EXCEPT ![t] =
                  Snapshot(t, [@ EXCEPT !.index = sidecar, !.weight = SidecarWeight])]
            /\ Jump(t, Tail(Tail(todo[t])))
       ELSE /\ local' = [local EXCEPT ![t].index = local[t].gen, ![t].weight = ScanWeight]
            /\ Done(t)
    /\ UNCHANGED <<files, sidecar, cache, bytes, calls>>

\* _write_sidecar replaces the sidecar atomically, whatever the file is by now; an
\* OSError is ignored.
Save(t) ==
    /\ At(t, "save") /\ Done(t)
    /\ sidecar' \in {local[t].gen, sidecar}
    /\ local' = [local EXCEPT ![t] = Snapshot(t, @)]
    /\ UNCHANGED <<files, cache, bytes, calls>>

\* Faulty variant: a file that changed meanwhile is not opened again.
NeverReopens(t) == FALSE
\* The stat after the first open decides whether to open once more; the one after
\* the second open decides nothing.
MustReopen(t) == At(t, "restat") /\ Head_ # local[t].key

Restat(t) ==
    /\ At(t, "restat") \/ At(t, "restat2")
    /\ local' = [local EXCEPT ![t].key = Head_]
    /\ IF MustReopen(t) THEN Jump(t, Again) ELSE Done(t)
    /\ UNCHANGED <<files, sidecar, cache, bytes, calls>>

\* Evict the least recently used entries until both limits hold.
Evictions(entries, total) ==
    CHOOSE n \in 0..Len(entries) :
        /\ n = Len(entries) \/ (/\ total - Sums(entries)[n] <= MaxWeight
                                /\ Len(entries) - n <= MaxEntries)
        /\ \A k \in 0..(n - 1) : \/ total - Sums(entries)[k] > MaxWeight
                                 \/ Len(entries) - k > MaxEntries

\* Faulty variants: the weight of an entry that is replaced stays on the account; a
\* weight is taken off although nothing is replaced.
ReplacedWeightKept(p, key)   == 0
ReplacedWeightAlways(p, key) == ScanWeight
\* _READ_CACHE.pop(final_key, None): the entry of the key, if any, leaves the cache.
Popped(p, key) == CHOOSE i \in Hits(p, key) : TRUE
Others(p, key) == IF Hits(p, key) = {} THEN cache[p] ELSE RemoveAt(cache[p], Popped(p, key))
ReplacedWeight(p, key) == IF Hits(p, key) = {} THEN 0 ELSE cache[p][Popped(p, key)].weight

\* Under _READ_CACHE_LOCK the snapshot is filed under the last stat.
File(t) == LET p       == ProcOf[t]
               entries == Append(Others(p, local[t].key), Entry(local[t]))
               total   == bytes[p] - ReplacedWeight(p, local[t].key) + local[t].weight
               n       == Evictions(entries, total) IN
    /\ At(t, "file") /\ Done(t)
    /\ cache' = [cache EXCEPT ![p] = SubSeq(entries, n + 1, Len(entries))]
    /\ bytes' = [bytes EXCEPT ![p] = total - Sums(entries)[n]]
    /\ local' = [local EXCEPT ![t] = Clear]
    /\ UNCHANGED <<files, sidecar, calls>>

(***************************************************************************)
(* The calls that replace the file or drop what is cached about it.          *)
(***************************************************************************)
\* _invalidate_read_cache: every entry of the file, in this process only.
Drop(t) == LET p == ProcOf[t] IN
    /\ At(t, "drop") /\ Done(t)
    /\ cache' = [cache EXCEPT ![p] = <<>>]
    /\ bytes' = [bytes EXCEPT ![p] = @ - Weight(cache[p])]
    /\ UNCHANGED <<files, sidecar, local, calls>>

\* The sidecar is removed; that it is gone already is ignored.
Unlink(t) ==
    /\ At(t, "unlink") /\ Done(t)
    /\ sidecar' = 0
    /\ UNCHANGED <<files, cache, bytes, local, calls>>

Replace(content, canonical) ==
    /\ Head_ < MaxGens
    /\ files' = Append(files, [content |-> content, canonical |-> canonical])

\* New content, in a layout that is canonical or not: a restored revision has the
\* layout it was written with.
Commit(t) ==
    /\ At(t, "commit") \/ At(t, "restore") \/ At(t, "patch")
    /\ Done(t)
    /\ \E c \in BOOLEAN : Replace(Head_ + 1, c)
    /\ UNCHANGED <<sidecar, cache, bytes, local, calls>>

\* The commit is refused: recover and rollback stop, optimize drops its entries, and
\* the others clean up as if they had committed.
Refused(t) ==
    /\ \/ At(t, "restore") /\ Jump(t, <<>>)
       \/ At(t, "patch")   /\ Jump(t, <<"drop", "unlink">>)
       \/ At(t, "canon")   /\ Jump(t, <<"drop">>)
       \/ At(t, "commit")  /\ Done(t)
    /\ UNCHANGED <<files, sidecar, cache, bytes, local, calls>>

\* optimize_vfs parses the file without the lock, ...
Parse(t) ==
    /\ At(t, "parse")
    /\ local' = [local EXCEPT ![t].content = files[Head_].content]
    /\ IF files[Head_].canonical THEN Jump(t, Tail(Tail(todo[t]))) ELSE Done(t)
    /\ UNCHANGED <<files, sidecar, cache, bytes, calls>>

\* Faulty variants: the image parsed before the lock is written; the canonical form
\* loses something.
CanonicalOfBefore(t) == local[t].content
CanonicalLoses(t)    == MaxGens + 1
\* ... rewrites what it parses again under the lock ...
CanonicalContent(t) == files[Head_].content

Canonicalize(t) ==
    /\ At(t, "canon") /\ Done(t)
    /\ Replace(CanonicalContent(t), TRUE)
    /\ UNCHANGED <<sidecar, cache, bytes, local, calls>>

\* ... and compares the fingerprints before and after, again without the lock: other
\* content is a RuntimeError.
Compare(t) ==
    /\ At(t, "compare")
    /\ IF files[Head_].content = local[t].content
       THEN Done(t) /\ UNCHANGED local
       ELSE Jump(t, <<"drop">>) /\ local' = [local EXCEPT ![t].alarm = TRUE]
    /\ UNCHANGED <<files, sidecar, cache, bytes, calls>>

Next == \E t \in Threads :
          \/ Begin(t) \/ Stat(t) \/ Lookup(t) \/ Map(t) \/ Index(t) \/ Save(t)
          \/ Restat(t) \/ File(t) \/ Drop(t) \/ Unlink(t) \/ Commit(t) \/ Refused(t)
          \/ Parse(t) \/ Canonicalize(t) \/ Compare(t)

Spec == Init /\ [][Next]_vars

-----------------------------------------------------------------------------
(***************************************************************************)
(* Properties.                                                             *)
(***************************************************************************)
Gens == 0..MaxGens
Entries == [key : Gens, first : Gens, gen : Gens, index : Gens,
            weight : {0, ScanWeight, SidecarWeight}]

TypeOK ==
    /\ files \in Seq([content : 1..MaxGens, canonical : BOOLEAN]) /\ Head_ \in 1..MaxGens
    /\ sidecar \in 0..Head_
    /\ \A p \in Procs : cache[p] \in Seq(Entries) /\ bytes[p] \in Nat
    /\ \A t \in Threads : Entry(local[t]) \in Entries
    /\ \A t \in Threads : calls[t] \in 0..MaxCalls[t]

\* No snapshot addresses the bytes of one generation with the spans of another,
\* whoever wrote, unlinked or left behind the sidecar meanwhile (snapshot.py:310-387).
IndexDescribes ==
    /\ \A p \in Procs : \A i \in DOMAIN cache[p] : cache[p][i].gen = cache[p][i].index
    /\ \A t \in Threads : At(t, "file") => local[t].gen = local[t].index

\* Reopening once is enough against one replacement: a snapshot is filed under another
\* generation only when the file was replaced twice during its read (engine.py:99-104).
MetTwo(e) == e.key >= e.first + 2
FiledAsMapped ==
    \A p \in Procs : \A i \in DOMAIN cache[p] :
        cache[p][i].key = cache[p][i].gen \/ MetTwo(cache[p][i])

\* What a cached snapshot says of the file is true of one generation: its key, the bytes
\* it maps and the spans that address them, whatever readers, writers and optimizations
\* of several processes interleave.
SnapshotsTrue == IndexDescribes /\ FiledAsMapped

\* What a read returns is not older than the file was when the call began, unless it
\* comes from such an entry: a reader sees every commit that returned before, its own
\* thread's, its process's and other processes' (engine.py:81-97).
ReadIsRecent ==
    [][\A t \in Threads : (At(t, "lookup") \/ At(t, "file")) /\ todo'[t] = <<>> =>
          LET e == IF At(t, "lookup") THEN Last(cache'[ProcOf[t]]) ELSE Entry(local[t])
          IN e.gen >= local[t].began \/ MetTwo(e)]_vars

\* Every variable has its type, the account is the weight of the entries, a file
\* generation has at most one, and both limits hold, whatever threads invalidate and
\* file meanwhile (engine.py:58-79).
CacheAccounted ==
    /\ TypeOK
    /\ \A p \in Procs :
        /\ bytes[p] = Weight(cache[p])
        /\ bytes[p] <= MaxWeight /\ Len(cache[p]) <= MaxEntries
        /\ \A i, j \in DOMAIN cache[p] : cache[p][i].key = cache[p][j].key => i = j

\* An optimization that overlaps other writers keeps what they committed: no generation
\* it writes differs in content from the one it replaces; and it reports "optimization
\* changed logical VFS content" only when another writer committed between its two
\* fingerprints (maintenance.py:50-65).
OptimizeKeepsContent ==
    [][\A t \in Threads :
          /\ At(t, "canon") /\ Len(files') > Head_ /\ todo'[t] # todo[t]
                => files'[Head_ + 1].content = files[Head_].content
          /\ local'[t].alarm =>
                \E g \in (local'[t].content + 1)..Head_ : files[g].content = g]_vars
=============================================================================
