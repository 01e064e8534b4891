--------------------------- MODULE SnapshotIndex ---------------------------
(***************************************************************************)
(* The index of one mapped snapshot (snapshot.py): what scanning the variable *)
(* body finds, the table of (hash, slot) pairs a sidecar stores sorted, and    *)
(* the search of that table for a name, one step per turn of its two loops.     *)
(*                                                                         *)
(* A body is a sequence of lines; a line is a name (its record), Opaque, or    *)
(* Blank.  Slots and table positions count from 0, as in the file.             *)
(***************************************************************************)
EXTENDS Integers, Sequences

CONSTANTS Names,        \* names that records have or that are asked for
          HashOf,       \* _stable_name_hash: CRC-32, so different names may collide
          Opaque, Blank,
          MaxLines      \* bound: lines of a body

ASSUME IndexConstantsOK ==
    /\ HashOf \in [Names -> Nat]
    /\ Opaque \notin Names /\ Blank \notin Names /\ Opaque # Blank
    /\ MaxLines \in Nat

VARIABLES
    recs,       \* the name of every slot
    table,      \* the slot of every table entry
    query,      \* the name that is looked for
    lo, hi,     \* the locals of _lookup_slot
    phase       \* "narrow", "probe", and the outcomes "found" and "missing"

vars == <<recs, table, query, lo, hi, phase>>

-----------------------------------------------------------------------------
(***************************************************************************)
(* _scan_variables, beside _parse_variables (parser.py).                     *)
(***************************************************************************)
IsRecord(line) == line \in Names

\* Both readers refuse a second record of one name.
Accepted(lines) == \A i, j \in DOMAIN lines : IsRecord(lines[i]) /\ lines[i] = lines[j] => i = j

\* The positions of the records, in order, as finditer yields them.
Matches(lines) == {i \in DOMAIN lines : IsRecord(lines[i])}

NonEmpty(lines, from, to) == {i \in from..(to - 1) : lines[i] # Blank}

\* Where the line is expected that follows the last record before line i.
Expected(lines, i) ==
    LET before == {j \in Matches(lines) : j < i}
    IN IF before = {} THEN 1 ELSE 1 + CHOOSE j \in before : \A k \in before : k <= j

\* Faulty variant: what follows the last record is not counted.
GapsOnly(lines) == UNION {NonEmpty(lines, Expected(lines, i), i) : i \in Matches(lines)}
\* The opaque lines are counted gap by gap, and after the last record.
OpaqueLines(lines) ==
    UNION {NonEmpty(lines, Expected(lines, i), i) : i \in Matches(lines) \cup {Len(lines) + 1}}

\* The parser looks at the lines one by one.
ParsedOpaque(lines) == {i \in DOMAIN lines : ~IsRecord(lines[i]) /\ lines[i] # Blank}

(***************************************************************************)
(* The table that _write_sidecar stores: every slot once, by hash, then slot.  *)
(***************************************************************************)
Hash(i) == HashOf[recs[table[i]]]

IsTable(rs, tb) ==
    /\ \A s \in DOMAIN rs : \E i \in DOMAIN tb : tb[i] = s
    /\ \A i, j \in DOMAIN tb : i < j =>
          LET h == HashOf[rs[tb[i]]]  k == HashOf[rs[tb[j]]]
          IN h < k \/ (h = k /\ tb[i] < tb[j])

Slots == DOMAIN recs

\* The records of a scanned body have different names.
Init == /\ \E n \in 0..MaxLines :
              /\ recs \in [0..(n - 1) -> Names]
              /\ \A i, j \in 0..(n - 1) : recs[i] = recs[j] => i = j
              /\ table \in [0..(n - 1) -> 0..(n - 1)]
              /\ IsTable(recs, table)
              /\ lo = 0 /\ hi = n
        /\ query \in Names
        /\ phase = "narrow"

-----------------------------------------------------------------------------
Mid    == (lo + hi) \div 2
Target == HashOf[query]

\* Faulty variant: an equal hash counts as below.
BelowOrEqual(i) == Hash(i) <= Target
\* The entry cannot be, or be behind, the first one with the wanted hash.
Below(i) == Hash(i) < Target

\* Faulty variant: hash and slot are taken for two entries.
AfterPair(i) == i + 2
After(i) == i + 1

Narrow ==
    /\ phase = "narrow" /\ lo < hi
    /\ IF Below(Mid) THEN lo' = After(Mid) /\ UNCHANGED hi
                     ELSE hi' = Mid /\ UNCHANGED lo
    /\ UNCHANGED <<recs, table, query, phase>>

Narrowed ==
    /\ phase = "narrow" /\ lo >= hi
    /\ phase' = "probe"
    /\ UNCHANGED <<recs, table, query, lo, hi>>

\* Entries with the wanted hash are compared with the name itself.
SameHash == lo \in DOMAIN table /\ Hash(lo) = Target
\* Faulty variant: an equal hash passes for an equal name.
HashMatches == SameHash
NameMatches == SameHash /\ recs[table[lo]] = query

Probe ==
    /\ phase = "probe"
    /\ \/ NameMatches /\ phase' = "found" /\ UNCHANGED lo
       \/ SameHash /\ ~NameMatches /\ lo' = lo + 1 /\ UNCHANGED phase
       \/ ~SameHash /\ phase' = "missing" /\ UNCHANGED lo
    /\ UNCHANGED <<recs, table, query, hi>>

Next == Narrow \/ Narrowed \/ Probe

Spec == Init /\ [][Next]_vars

-----------------------------------------------------------------------------
(***************************************************************************)
(* Properties.                                                             *)
(***************************************************************************)
TypeOK ==
    /\ \E n \in 0..MaxLines : /\ recs \in [0..(n - 1) -> Names]
                              /\ table \in [0..(n - 1) -> 0..(n - 1)]
                              /\ hi \in 0..n /\ lo \in 0..n
    /\ query \in Names /\ phase \in {"narrow", "probe", "found", "missing"}

\* The search finds the record of the name asked for and no other, also among names
\* with equal hashes, and reports a name as missing only when no record has it
\* (snapshot.py:505-537).
LookupCorrect ==
    /\ phase = "found"   => lo \in DOMAIN table /\ recs[table[lo]] = query
    /\ phase = "missing" => \A s \in Slots : recs[s] # query

\* The scan and the parser see the same opaque lines of a body they both accept, so
\* that diagnostics and rewriting agree on what is kept (snapshot.py:268-305,
\* parser.py:31-54).
ScanAgrees(lines) == Accepted(lines) => OpaqueLines(lines) = ParsedOpaque(lines)
=============================================================================
