-------------------------- MODULE Algorithms_proofs -------------------------
(***************************************************************************)
(* The algorithms of Algorithms are correct for every input: the search of    *)
(* the sidecar index and the scan of a body, the codecs of payloads and the    *)
(* arithmetic of ranges, and the plans that edit a file.                      *)
(***************************************************************************)
EXTENDS Algorithms, SequenceTheorems, FiniteSetTheorems, WellFoundedInduction, TLAPS

(***************************************************************************)
(* The search of the index.                                                *)
(***************************************************************************)
\* What never changes: the table holds every slot once, by hash.
Indexed(n) ==
    /\ recs \in [0..(n - 1) -> Names] /\ table \in [0..(n - 1) -> 0..(n - 1)]
    /\ query \in Names
    /\ \A s \in 0..(n - 1) : \E i \in 0..(n - 1) : table[i] = s
    /\ \A i, j \in 0..(n - 1) : i <= j => Hash(i) <= Hash(j)

\* Entries before lo are too small, those from hi on are not.
Bracketed(n) ==
    /\ lo \in 0..n /\ hi \in 0..n /\ lo <= hi
    /\ \A i \in 0..(n - 1) : /\ i < lo  => Hash(i) < Target
                             /\ i >= hi => Hash(i) >= Target

\* No entry before lo has the name.
Passed(n) ==
    /\ lo \in 0..n /\ hi \in 0..n
    /\ \A i \in 0..(n - 1) : i < lo => recs[table[i]] # query

\* The inductive invariant, of an index of n entries.
SearchInv(n) ==
    /\ n \in 0..MaxLines /\ Indexed(n)
    /\ phase \in {"narrow", "probe", "found", "missing"}
    /\ phase = "narrow"  => Bracketed(n)
    /\ phase # "narrow"  => Passed(n)
    /\ phase = "found"   => lo \in 0..(n - 1) /\ recs[table[lo]] = query
    /\ phase = "missing" => lo \notin 0..(n - 1) \/ Hash(lo) # Target
    /\ phase \in {"probe", "missing"} /\ lo < n => Hash(lo) >= Target

Inv == \E n \in 0..MaxLines : SearchInv(n)

\* A table that is sorted strictly by hash and slot is sorted by hash.
LEMMA TableSorted ==
    ASSUME NEW n \in Nat,
           recs \in [0..(n - 1) -> Names], table \in [0..(n - 1) -> 0..(n - 1)],
           IsTable(recs, table)
    PROVE  \A i, j \in 0..(n - 1) : i <= j => Hash(i) <= Hash(j)
<1> SUFFICES ASSUME NEW i \in 0..(n - 1), NEW j \in 0..(n - 1), i <= j
             PROVE  Hash(i) <= Hash(j)
    OBVIOUS
<1>1. Hash(i) \in Nat /\ Hash(j) \in Nat
    BY IndexConstantsOK DEF Hash
<1>2. CASE i = j
    BY <1>1, <1>2
<1>3. CASE i < j
    <2>1. DOMAIN table = 0..(n - 1)
        OBVIOUS
    <2>2. \/ HashOf[recs[table[i]]] < HashOf[recs[table[j]]]
          \/ HashOf[recs[table[i]]] = HashOf[recs[table[j]]]
        BY <1>3, <2>1 DEF IsTable
    <2> QED BY <1>1, <2>2 DEF Hash
<1> QED BY <1>2, <1>3

\* The search starts with all entries between lo and hi.
LEMMA InitInv == Init => Inv
<1> SUFFICES ASSUME Init PROVE Inv
    OBVIOUS
<1>1. PICK n \in 0..MaxLines :
          /\ recs \in [0..(n - 1) -> Names] /\ table \in [0..(n - 1) -> 0..(n - 1)]
          /\ IsTable(recs, table) /\ lo = 0 /\ hi = n
    BY DEF Init
<1>2. n \in Nat
    BY IndexConstantsOK
<1>3. Indexed(n)
    <2>1. \A i, j \in 0..(n - 1) : i <= j => Hash(i) <= Hash(j)
        BY <1>1, <1>2, TableSorted
    <2>2. \A s \in 0..(n - 1) : \E i \in 0..(n - 1) : table[i] = s
        BY <1>1 DEF IsTable
    <2>3. query \in Names
        BY DEF Init
    <2> QED BY <1>1, <2>1, <2>2, <2>3 DEF Indexed
<1>4. Bracketed(n)
    BY <1>1, <1>2 DEF Bracketed
<1>5. phase = "narrow"
    BY DEF Init
<1> QED BY <1>3, <1>4, <1>5 DEF Inv, SearchInv

\* What the index is does not depend on the locals of the search.
LEMMA IndexedStays ==
    ASSUME NEW n \in Nat, Indexed(n), UNCHANGED <<recs, table, query>>
    PROVE  Indexed(n)' /\ Target' = Target /\ (\A i \in 0..(n - 1) : Hash(i)' = Hash(i))
BY DEF Indexed, Hash, Target

\* Halving keeps the bounds around the first slot.
LEMMA NarrowInv ==
    ASSUME NEW n \in 0..MaxLines, SearchInv(n), Narrow
    PROVE  SearchInv(n)'
<1> USE IndexConstantsOK
<1>1. n \in Nat /\ Indexed(n) /\ Bracketed(n) /\ phase = "narrow" /\ phase' = "narrow" /\ lo < hi
    BY DEF SearchInv, Narrow
<1>2. /\ Indexed(n)' /\ Target' = Target
      /\ \A i \in 0..(n - 1) : Hash(i)' = Hash(i)
    BY <1>1, IndexedStays DEF Narrow
<1>3. Mid \in 0..(n - 1) /\ lo <= Mid /\ Mid < hi
    BY <1>1 DEF Bracketed, Mid
<1>4. Target \in Nat /\ \A i \in 0..(n - 1) : Hash(i) \in Nat
    BY <1>1 DEF Indexed, Hash, Target
<1>5. \A i, j \in 0..(n - 1) : i <= j => Hash(i) <= Hash(j)
    BY <1>1 DEF Indexed
<1>6. Bracketed(n)'
    <2>1. CASE Hash(Mid) < Target
        <3>1. lo' = Mid + 1 /\ hi' = hi
            BY <2>1 DEF Narrow, Below, After
        <3>2. \A i \in 0..(n - 1) : i < Mid + 1 => Hash(i) < Target
            BY <1>1, <1>3, <1>4, <1>5, <2>1
        <3> QED BY <1>1, <1>2, <1>3, <3>1, <3>2 DEF Bracketed
    <2>2. CASE ~(Hash(Mid) < Target)
        <3>1. lo' = lo /\ hi' = Mid
            BY <2>2 DEF Narrow, Below
        <3>2. \A i \in 0..(n - 1) : i >= Mid => Hash(i) >= Target
            BY <1>1, <1>3, <1>4, <1>5, <2>2
        <3> QED BY <1>1, <1>2, <1>3, <3>1, <3>2 DEF Bracketed
    <2> QED BY <2>1, <2>2
<1> QED BY <1>1, <1>2, <1>6 DEF SearchInv

\* Where the interval is empty, lo is the first entry that is not too small.
LEMMA NarrowedInv ==
    ASSUME NEW n \in 0..MaxLines, SearchInv(n), Narrowed
    PROVE  SearchInv(n)'
<1> USE IndexConstantsOK
<1>1. /\ n \in Nat /\ Indexed(n) /\ Bracketed(n) /\ phase' = "probe"
      /\ lo' = lo /\ hi' = hi /\ lo >= hi
    BY DEF SearchInv, Narrowed
<1>2. /\ Indexed(n)' /\ Target' = Target
      /\ \A i \in 0..(n - 1) : Hash(i)' = Hash(i)
    BY <1>1, IndexedStays DEF Narrowed
<1>3. \A i \in 0..(n - 1) : i < lo => recs[table[i]] # query
    <2> SUFFICES ASSUME NEW i \in 0..(n - 1), i < lo, recs[table[i]] = query
                 PROVE  FALSE
        OBVIOUS
    <2>1. Hash(i) < Target
        BY <1>1 DEF Bracketed
    <2>2. Hash(i) = Target /\ Target \in Nat
        BY <1>1 DEF Hash, Target, Indexed
    <2> QED BY <2>1, <2>2
<1>4. recs' = recs /\ table' = table /\ query' = query
    BY DEF Narrowed
<1>5. Passed(n)'
    BY <1>1, <1>3, <1>4 DEF Passed, Bracketed
<1>6. lo < n => Hash(lo) >= Target
    BY <1>1 DEF Bracketed
<1>7. (lo < n => Hash(lo) >= Target)'
    BY <1>1, <1>4, <1>6 DEF Hash, Target
<1> QED BY <1>1, <1>2, <1>5, <1>7 DEF SearchInv

\* Walking the slots of equal hashes keeps the invariant.
LEMMA ProbeInv ==
    ASSUME NEW n \in 0..MaxLines, SearchInv(n), Probe
    PROVE  SearchInv(n)'
<1> USE IndexConstantsOK
<1>1. n \in Nat /\ Indexed(n) /\ Passed(n) /\ phase = "probe"
    BY DEF SearchInv, Probe
<1>2. recs' = recs /\ table' = table /\ query' = query /\ hi' = hi
    BY DEF Probe
<1>3. Indexed(n)'
    BY <1>1, <1>2, IndexedStays
<1>4. DOMAIN table = 0..(n - 1)
    BY <1>1 DEF Indexed
<1>5. CASE NameMatches /\ phase' = "found" /\ lo' = lo
    <2>1. lo \in 0..(n - 1) /\ recs[table[lo]] = query
        BY <1>4, <1>5 DEF NameMatches, SameHash
    <2> QED BY <1>1, <1>2, <1>3, <1>5, <2>1 DEF SearchInv, Passed
<1>6. CASE SameHash /\ ~NameMatches /\ lo' = lo + 1 /\ phase' = phase
    <2>1. lo \in 0..(n - 1) /\ Hash(lo) = Target /\ recs[table[lo]] # query
        BY <1>4, <1>6 DEF NameMatches, SameHash
    <2>2. Passed(n)'
        BY <1>1, <1>2, <1>6, <2>1 DEF Passed
    <2>3. lo + 1 < n => Hash(lo + 1) >= Target
        <3> SUFFICES ASSUME lo + 1 < n PROVE Hash(lo + 1) >= Target
            OBVIOUS
        <3>1. lo + 1 \in 0..(n - 1)
            BY <1>1, <2>1
        <3>2. Hash(lo) <= Hash(lo + 1)
            BY <1>1, <2>1, <3>1 DEF Indexed
        <3>3. Hash(lo) \in Nat /\ Hash(lo + 1) \in Nat
            BY <1>1, <2>1, <3>1 DEF Indexed, Hash
        <3> QED BY <2>1, <3>2, <3>3
    <2>4. (lo < n => Hash(lo) >= Target)'
        BY <1>2, <1>6, <2>3 DEF Hash, Target
    <2> QED BY <1>1, <1>3, <1>6, <2>2, <2>4 DEF SearchInv
<1>7. CASE ~SameHash /\ phase' = "missing" /\ lo' = lo
    <2>1. (lo \notin 0..(n - 1) \/ Hash(lo) # Target)'
        BY <1>2, <1>4, <1>7 DEF SameHash, Hash, Target
    <2>2. Passed(n)'
        BY <1>1, <1>2, <1>7 DEF Passed
    <2>3. (lo < n => Hash(lo) >= Target)'
        BY <1>1, <1>2, <1>7 DEF SearchInv, Hash, Target
    <2> QED BY <1>1, <1>3, <1>7, <2>1, <2>2, <2>3 DEF SearchInv
<1> QED BY <1>5, <1>6, <1>7 DEF Probe

\* The search keeps its invariant.
THEOREM SearchInvariant == Spec => []Inv
<1>1. Init => Inv
    BY InitInv
<1>2. Inv /\ [Next]_vars => Inv'
    <2> SUFFICES ASSUME Inv, [Next]_vars PROVE Inv'
        OBVIOUS
    <2>1. PICK n \in 0..MaxLines : SearchInv(n)
        BY DEF Inv
    <2>2. SearchInv(n)'
        <3>1. CASE Narrow
            BY <2>1, <3>1, NarrowInv
        <3>2. CASE Narrowed
            BY <2>1, <3>2, NarrowedInv
        <3>3. CASE Probe
            BY <2>1, <3>3, ProbeInv
        <3>4. CASE UNCHANGED vars
            BY <2>1, <3>4 DEF vars, SearchInv, Indexed, Bracketed, Passed, Hash, Target
        <3> QED BY <3>1, <3>2, <3>3, <3>4 DEF Next
    <2> QED BY <2>2 DEF Inv
<1> QED BY <1>1, <1>2, PTL DEF Spec

\* A name is found exactly when a record has it, whatever the hash function does.
THEOREM LookupIsCorrect == Spec => []LookupCorrect
<1>1. Inv => LookupCorrect
    <2> SUFFICES ASSUME Inv PROVE LookupCorrect
        OBVIOUS
    <2>1. PICK n \in 0..MaxLines : SearchInv(n)
        BY DEF Inv
    <2>0. n \in Nat /\ Indexed(n)
        BY <2>1, IndexConstantsOK DEF SearchInv
    <2>2. /\ n \in Nat /\ Indexed(n)
          /\ DOMAIN table = 0..(n - 1) /\ DOMAIN recs = 0..(n - 1)
        BY <2>0 DEF Indexed
    <2>3. phase = "found" => lo \in DOMAIN table /\ recs[table[lo]] = query
        BY <2>1, <2>2 DEF SearchInv
    <2>4. phase = "missing" => \A s \in Slots : recs[s] # query
        <3> SUFFICES ASSUME phase = "missing", NEW s \in 0..(n - 1), recs[s] = query
                     PROVE  FALSE
            BY <2>2 DEF Slots
        <3>1. Passed(n) /\ (lo \notin 0..(n - 1) \/ Hash(lo) # Target)
              /\ (lo < n => Hash(lo) >= Target)
            BY <2>1 DEF SearchInv
        <3>2. PICK i \in 0..(n - 1) : table[i] = s
            BY <2>2 DEF Indexed
        <3>3. Hash(i) = Target /\ Target \in Nat
            BY <2>2, <3>2, IndexConstantsOK DEF Hash, Target, Indexed
        <3>4. lo <= i
            BY <2>2, <3>1, <3>2 DEF Passed
        <3>5. lo \in 0..(n - 1)
            BY <2>2, <3>1, <3>4 DEF Passed
        <3>6. Hash(lo) <= Hash(i)
            BY <2>2, <3>4, <3>5 DEF Indexed
        <3>7. Hash(lo) \in Nat
            BY <2>2, <3>5, IndexConstantsOK DEF Indexed, Hash
        <3> QED BY <3>1, <3>3, <3>5, <3>6, <3>7
    <2> QED BY <2>3, <2>4 DEF LookupCorrect
<1> QED BY <1>1, SearchInvariant, PTL

\* Type correctness.
THEOREM TypeOKHolds == Spec => []TypeOK
<1>1. Inv => TypeOK
    BY DEF Inv, SearchInv, TypeOK, Indexed, Bracketed, Passed
<1> QED BY <1>1, SearchInvariant, PTL

-----------------------------------------------------------------------------
(***************************************************************************)
(* The scan of a body, of any length.                                        *)
(***************************************************************************)
Lines   == Seq(Names \cup {Opaque, Blank})
Smaller == OpToRel(<, Nat)

\* Between two line numbers or more there is a first one.
LEMMA FirstOf ==
    ASSUME NEW S, S \subseteq Nat, S # {}
    PROVE  \E m \in S : \A k \in S : m <= k
<1>1. IsWellFoundedOn(Smaller, Nat)
    BY NatLessThanWellFounded, Zenon DEF Smaller
<1>2. PICK m \in S : \A k \in S : <<k, m>> \notin Smaller
    BY <1>1, WFMin, Zenon
<1>3. ASSUME NEW k \in S PROVE m <= k
    <2>1. m \in Nat /\ k \in Nat
        OBVIOUS
    <2>2. k < m => <<k, m>> \in Smaller
        BY <2>1 DEF Smaller, OpToRel
    <2> QED BY <1>2, <2>1, <2>2
<1> QED BY <1>3, Zenon

\* And a last one, where they are bounded.
LEMMA LastOf ==
    ASSUME NEW n \in Nat, NEW S, S \subseteq 0..n, S # {}
    PROVE  \E m \in S : \A k \in S : k <= m
<1> DEFINE T == {n - k : k \in S}
<1>1. T \subseteq Nat /\ T # {}
    <2>1. \A k \in S : n - k \in Nat
        OBVIOUS
    <2> QED BY <2>1
<1>2. PICK t \in T : \A u \in T : t <= u
    <2> HIDE DEF T
    <2> QED BY <1>1, FirstOf, Zenon
<1>3. PICK m \in S : t = n - m
    OBVIOUS
<1>4. \A k \in S : n - m <= n - k
    BY <1>2, <1>3
<1>5. \A k \in S : k <= m
    BY <1>3, <1>4
<1> QED BY <1>5

\* The line expected before line i is the one behind the last record before i.
LEMMA ExpectedFollows ==
    ASSUME NEW lines \in Lines, NEW i \in 1..(Len(lines) + 1)
    PROVE  /\ Expected(lines, i) \in 1..i
           /\ Expected(lines, i) = 1 \/ Expected(lines, i) - 1 \in Matches(lines)
           /\ \A j \in Matches(lines) : j < i => j < Expected(lines, i)
<1> DEFINE before == {j \in Matches(lines) : j < i}
           last   == CHOOSE j \in before : \A k \in before : k <= j
<1>1. Len(lines) \in Nat /\ Matches(lines) \subseteq 1..Len(lines)
    BY DEF Matches, Lines
<1>2. before \subseteq 0..Len(lines)
    BY <1>1
<1>3. Expected(lines, i) = IF before = {} THEN 1 ELSE 1 + last
    BY DEF Expected
<1>4. CASE before = {}
    BY <1>1, <1>3, <1>4
<1>5. CASE before # {}
    <2>1. \E m \in before : \A k \in before : k <= m
        <3> HIDE DEF before
        <3> QED BY <1>1, <1>2, <1>5, LastOf, Zenon
    <2>2. last \in before /\ \A k \in before : k <= last
        <3> HIDE DEF before
        <3> QED BY <2>1, Zenon
    <2>3. Expected(lines, i) = 1 + last
        BY <1>3, <1>5
    <2>4. last \in 1..Len(lines) /\ last < i /\ last \in Matches(lines)
        <3> HIDE DEF last
        <3> QED BY <1>1, <2>2
    <2>5. \A j \in Matches(lines) : j < i => j <= last
        <3> HIDE DEF last
        <3> QED BY <2>2
    <2> HIDE DEF before, last
    <2> QED BY <1>1, <2>3, <2>4, <2>5
<1> QED BY <1>4, <1>5

\* Of every body the scan counts, gap by gap, the lines that the parser keeps: none
\* twice for two gaps, none missed behind the last record.  That a body has no name twice
\* is not needed for it (snapshot.py:268-305, parser.py:31-54).
THEOREM ScansAgree == \A lines \in Lines : ScanAgrees(lines)
<1> SUFFICES ASSUME NEW lines \in Lines
             PROVE  OpaqueLines(lines) = ParsedOpaque(lines)
    BY DEF ScanAgrees
<1> DEFINE ends == Matches(lines) \cup {Len(lines) + 1}
<1>1. Len(lines) \in Nat /\ DOMAIN lines = 1..Len(lines) /\ ends \subseteq 1..(Len(lines) + 1)
    BY DEF Matches, Lines
<1>2. OpaqueLines(lines) = UNION {NonEmpty(lines, Expected(lines, i), i) : i \in ends}
    BY DEF OpaqueLines
<1>3. ASSUME NEW i \in ends, NEW k \in NonEmpty(lines, Expected(lines, i), i)
      PROVE  k \in ParsedOpaque(lines)
    <2>1. i \in 1..(Len(lines) + 1) /\ Expected(lines, i) \in 1..i
        BY <1>1, ExpectedFollows
    <2>2. k \in Expected(lines, i)..(i - 1) /\ lines[k] # Blank
        BY DEF NonEmpty
    <2>3. k \in DOMAIN lines /\ k < i /\ ~(k < Expected(lines, i))
        BY <1>1, <2>1, <2>2
    <2>4. k \notin Matches(lines)
        BY <2>1, <2>3, ExpectedFollows
    <2> QED BY <2>2, <2>3, <2>4 DEF Matches, ParsedOpaque
<1>4. ASSUME NEW k \in ParsedOpaque(lines)
      PROVE  \E i \in ends : k \in NonEmpty(lines, Expected(lines, i), i)
    <2>1. k \in 1..Len(lines) /\ k \notin Matches(lines) /\ lines[k] # Blank
        BY <1>1 DEF ParsedOpaque, Matches
    <2> DEFINE later == {i \in ends : k < i}
    <2>2. later \subseteq Nat /\ later # {}
        <3>1. Len(lines) + 1 \in later
            BY <1>1, <2>1
        <3> QED BY <1>1, <3>1
    <2>3. PICK i \in later : \A j \in later : i <= j
        <3> HIDE DEF later
        <3> QED BY <2>2, FirstOf, Zenon
    <2>4. i \in 1..(Len(lines) + 1) /\ k < i /\ \A j \in Matches(lines) : k < j => i <= j
        BY <1>1, <2>3
    <2>5. /\ Expected(lines, i) \in 1..i
          /\ Expected(lines, i) = 1 \/ Expected(lines, i) - 1 \in Matches(lines)
        BY <2>4, ExpectedFollows
    <2>6. Expected(lines, i) - 1 \in Matches(lines) => Expected(lines, i) - 1 < k
        <3> SUFFICES ASSUME Expected(lines, i) - 1 \in Matches(lines)
                     PROVE  Expected(lines, i) - 1 < k
            OBVIOUS
        <3>1. Expected(lines, i) - 1 # k
            BY <2>1
        <3>2. k < Expected(lines, i) - 1 => i <= Expected(lines, i) - 1
            BY <2>4
        <3> QED BY <2>1, <2>4, <2>5, <3>1, <3>2
    <2>7. k \in Expected(lines, i)..(i - 1)
        BY <1>1, <2>1, <2>4, <2>5, <2>6
    <2>8. k \in NonEmpty(lines, Expected(lines, i), i)
        BY <2>1, <2>7 DEF NonEmpty
    <2> QED BY <2>3, <2>8
<1> HIDE DEF ends
<1>5. OpaqueLines(lines) \subseteq ParsedOpaque(lines)
    BY <1>2, <1>3
<1>6. ParsedOpaque(lines) \subseteq OpaqueLines(lines)
    BY <1>2, <1>4
<1> QED BY <1>5, <1>6

-----------------------------------------------------------------------------
(***************************************************************************)
(* Ranges and chunks of a typed value, of any size.                          *)
(***************************************************************************)
\* The padding accounts for the characters that the last bytes do not fill.
LEMMA SizeDecodes ==
    ASSUME NEW n \in Nat
    PROVE  DecodedSize(n) = n
BY DEF DecodedSize, EncodedLength, Padding

\* The part of a value that is asked for lies within the value.
LEMMA SliceWithin ==
    ASSUME NEW n \in Nat, NEW start \in 0..n, NEW length \in Nat \cup {NoLength}
    PROVE  /\ Slice(n, start, length).from = start
           /\ Slice(n, start, length).to \in start..n
BY DEF Slice, Least, NoLength

\* The first quartet that is decoded holds the first byte asked for.
LEMMA StartQuartet ==
    ASSUME NEW start \in Nat
    PROVE  /\ QuartetStart(start) \in Nat
           /\ (QuartetStart(start) \div 4) * 3 \in 0..start
           /\ 3 * QuartetStart(start) <= 4 * start
           /\ 4 * start <= 3 * QuartetStart(start) + 8
BY DEF QuartetStart

\* The last one holds the last byte, or ends the value.
LEMMA EndQuartet ==
    ASSUME NEW n \in Nat, NEW end \in 0..n
    PROVE  /\ Least(n, (QuartetEnd(n, end) \div 4) * 3) \in end..n
           /\ 3 * QuartetEnd(n, end) <= 4 * (end + 2)
BY DEF QuartetEnd, EncodedLength, Least

\* read_typed_range returns the bytes asked for and decodes at most two quartets more
\* than they fill.
THEOREM RangesAreExact ==
    \A n, start \in Nat : \A length \in Nat \cup {NoLength} : RangeExact(n, start, length)
<1> SUFFICES ASSUME NEW n \in Nat, NEW start \in Nat, NEW length \in Nat \cup {NoLength},
                    start <= n
             PROVE  LET want == Slice(n, start, length) IN
                    /\ TypedRange(n, start, length) = want
                    /\ QuartetEnd(n, want.to) - QuartetStart(start)
                          <= 4 * ((want.to - want.from) \div 3 + 2)
    BY DEF RangeExact
<1> DEFINE to == Slice(n, start, length).to
<1>1. to \in start..n /\ Slice(n, start, length) = [from |-> start, to |-> to]
    <2>1. start \in 0..n
        OBVIOUS
    <2>2. to \in start..n
        BY <2>1, SliceWithin
    <2> QED BY <2>1, <2>2, SliceWithin DEF Slice
<1>2. TypedRange(n, start, length) = [from |-> start, to |-> to]
    <2> DEFINE offset == (QuartetStart(start) \div 4) * 3
               end    == Least(n, (QuartetEnd(n, to) \div 4) * 3)
    <2>1. offset \in 0..start
        BY StartQuartet
    <2>2. end \in to..n
        BY <1>1, EndQuartet
    <2>3. TypedRange(n, start, length) =
             [from |-> Least(end, offset + (start - offset)),
              to   |-> Least(end, offset + (to - offset))]
        BY <1>1, SizeDecodes DEF TypedRange
    <2> HIDE DEF offset, end, to
    <2>4. Least(end, offset + (start - offset)) = start
        BY <1>1, <2>1, <2>2 DEF Least
    <2>5. Least(end, offset + (to - offset)) = to
        BY <1>1, <2>1, <2>2 DEF Least
    <2> QED BY <2>3, <2>4, <2>5
<1>3. QuartetEnd(n, to) - QuartetStart(start) <= 4 * ((to - start) \div 3 + 2)
    BY <1>1 DEF QuartetEnd, QuartetStart, EncodedLength, Least
<1> QED BY <1>1, <1>2, <1>3

-----------------------------------------------------------------------------
\* The number of chunks: the last begins within the value and reaches its end.
LEMMA ChunkCount ==
    ASSUME NEW n \in Nat, NEW size \in Nat \ {0}
    PROVE  LET r == (n + size - 1) \div size IN
           /\ r \in Nat /\ n <= r * size /\ r * size <= n + size - 1
           /\ n = 0 <=> r = 0
<1> DEFINE r == (n + size - 1) \div size
<1>1. PICK m \in Nat : m = n + size - 1
    OBVIOUS
<1>2. m \div size \in Nat /\ (m \div size) * size <= m /\ m < (m \div size + 1) * size
    OBVIOUS
<1>3. PICK q \in Nat : q = r /\ q * size <= n + size - 1 /\ n + size - 1 < (q + 1) * size
    BY <1>1, <1>2
<1>4. (q + 1) * size = q * size + size /\ q * size \in Nat
    OBVIOUS
<1>5. n <= q * size
    BY <1>3, <1>4
<1>6. q # 0 => size <= q * size
    OBVIOUS
<1>7. n = 0 <=> q = 0
    BY <1>3, <1>4, <1>5, <1>6
<1> HIDE DEF r
<1>8. r \in Nat /\ n <= r * size /\ r * size <= n + size - 1 /\ (n = 0 <=> r = 0)
    BY <1>3, <1>5, <1>7
<1> QED BY <1>8 DEF r

\* A chunk that is not the last ends a chunk before the end.
LEMMA ChunkBegins ==
    ASSUME NEW size \in Nat \ {0}, NEW k \in Nat \ {0}, NEW r \in Nat, k <= r
    PROVE  /\ (k - 1) * size \in Nat /\ k * size \in Nat /\ r * size \in Nat
           /\ k * size = (k - 1) * size + size
           /\ k = r => k * size = r * size
           /\ k < r => k * size + size <= r * size
<1>1. k * size \in Nat /\ r * size \in Nat /\ k * size = (k - 1) * size + size
    OBVIOUS
<1>2. k - 1 \in Nat /\ (k - 1) * size \in Nat
    OBVIOUS
<1>3. ASSUME k < r PROVE k * size + size <= r * size
    <2>1. PICK d \in Nat : r = k + 1 + d
        <3>1. r - k - 1 \in Nat /\ r = k + 1 + (r - k - 1)
            BY <1>3
        <3> QED BY <3>1
    <2>2. r * size = k * size + size + d * size /\ d * size \in Nat
        BY <2>1
    <2> QED BY <1>1, <2>2
<1> QED BY <1>1, <1>2, <1>3

\* Chunks that follow each other from the first byte to the last, all of the size asked
\* for but the last, none of them empty.
ChunksFollow(n, size) ==
    LET cs == Chunks(n, size) IN
    /\ cs = <<>> <=> n = 0
    /\ n # 0 => cs[1].from = 0 /\ cs[Len(cs)].to = n
    /\ \A k \in 1..Len(cs) :
          /\ cs[k].from < cs[k].to /\ cs[k].to <= cs[k].from + size
          /\ k < Len(cs) => cs[k].to = cs[k].from + size /\ cs[k + 1].from = cs[k].to

\* Whatever the size of the value and of the chunks, iter_typed_value yields every byte
\* once, in order (engine.py:360-363).
THEOREM ChunksAreExact == \A n \in Nat : \A size \in Nat \ {0} : ChunksFollow(n, size)
<1> SUFFICES ASSUME NEW n \in Nat, NEW size \in Nat \ {0} PROVE ChunksFollow(n, size)
    OBVIOUS
<1> DEFINE cs == Chunks(n, size)
<1>1. PICK r \in Nat : /\ r = (n + size - 1) \div size
                       /\ n <= r * size /\ r * size <= n + size - 1
                       /\ n = 0 <=> r = 0
    BY ChunkCount
<1>2. cs = [k \in 1..r |-> [from |-> (k - 1) * size, to |-> Least(n, k * size)]]
    BY <1>1 DEF Chunks
<1> HIDE DEF cs
<1>3. Len(cs) = r /\ (cs = <<>> <=> r = 0)
    <2>1. cs \in Seq([from : Int, to : Int]) /\ Len(cs) = r
        <3>1. \A k \in 1..r : (k - 1) * size \in Int /\ Least(n, k * size) \in Int
            BY DEF Least
        <3> QED BY <1>2, <3>1
    <2> QED BY <2>1
<1>4. ASSUME NEW k \in 1..r
      PROVE  /\ cs[k].from = (k - 1) * size
             /\ (k - 1) * size \in Nat
             /\ k < r => cs[k].to = (k - 1) * size + size /\ cs[k + 1].from = cs[k].to
             /\ k = r => /\ cs[k].to = n
                         /\ (k - 1) * size < n /\ n <= (k - 1) * size + size
    <2>1. /\ (k - 1) * size \in Nat /\ k * size \in Nat /\ r * size \in Nat
          /\ k * size = (k - 1) * size + size
          /\ k = r => k * size = r * size
          /\ k < r => k * size + size <= r * size
        BY ChunkBegins
    <2>2. cs[k].from = (k - 1) * size /\ cs[k].to = Least(n, k * size)
        BY <1>2
    <2>3. ASSUME k < r PROVE cs[k].to = k * size /\ cs[k + 1].from = k * size
        <3>1. k * size <= n
            BY <1>1, <2>1, <2>3
        <3>2. k + 1 \in 1..r /\ k + 1 - 1 = k
            BY <2>3
        <3>3. cs[k + 1].from = k * size
            BY <1>2, <3>2
        <3> QED BY <2>2, <3>1, <3>3 DEF Least
    <2>4. ASSUME k = r
          PROVE  cs[k].to = n /\ (k - 1) * size < n /\ n <= (k - 1) * size + size
        <3>1. n <= k * size /\ k * size <= n + size - 1
            BY <1>1, <2>4
        <3>2. cs[k].to = n
            <4>1. PICK x \in Nat : x = k * size
                BY <2>1
            <4> QED BY <2>1, <2>2, <3>1, <4>1 DEF Least
        <3> QED BY <2>1, <3>1, <3>2
    <2> QED BY <2>1, <2>2, <2>3, <2>4
<1>5. n # 0 => cs[1].from = 0 /\ cs[Len(cs)].to = n
    <2> SUFFICES ASSUME n # 0 PROVE cs[1].from = 0 /\ cs[r].to = n
        BY <1>3
    <2>1. 1 \in 1..r /\ r \in 1..r
        BY <1>1
    <2>2. cs[1].from = (1 - 1) * size /\ (1 - 1) * size = 0
        BY <1>4, <2>1
    <2> QED BY <1>4, <2>1, <2>2
<1>6. ASSUME NEW k \in 1..Len(cs)
      PROVE  /\ cs[k].from < cs[k].to /\ cs[k].to <= cs[k].from + size
             /\ k < Len(cs) => cs[k].to = cs[k].from + size /\ cs[k + 1].from = cs[k].to
    <2>1. k \in 1..r /\ (k < r \/ k = r)
        BY <1>3
    <2>2. PICK x \in Nat : x = (k - 1) * size
        BY <1>4, <2>1
    <2> QED BY <1>3, <1>4, <2>1, <2>2
<1> QED BY <1>1, <1>3, <1>5, <1>6 DEF ChunksFollow, cs

-----------------------------------------------------------------------------
(***************************************************************************)
(* Recursion up to a bound, and sequences that are flattened.                *)
(***************************************************************************)
\* What holds of 0, and of i when it holds of i - 1, holds up to the bound.
LEMMA CountUp ==
    ASSUME NEW n \in Nat, NEW S, 0 \in S, \A i \in 1..n : i - 1 \in S => i \in S
    PROVE  \A i \in 0..n : i \in S
<1> SUFFICES ASSUME (0..n) \ S # {} PROVE FALSE
    OBVIOUS
<1>1. PICK m \in (0..n) \ S : \A k \in (0..n) \ S : m <= k
    <2>1. (0..n) \ S \subseteq Nat
        OBVIOUS
    <2> QED BY <2>1, FirstOf, Zenon
<1>2. m \in 1..n /\ m - 1 \in 0..n /\ ~(m <= m - 1)
    BY <1>1
<1>3. m - 1 \in S
    BY <1>1, <1>2
<1> QED BY <1>1, <1>2, <1>3

\* f starts with base and takes each value from the one below.
Recurs(f, n, base, step) == f[0] = base /\ \A i \in 1..n : f[i] = step[<<i, f[i - 1]>>]

\* A recursion from the one below defines a function.
LEMMA RecursionExists ==
    ASSUME NEW n \in Nat, NEW T, NEW base \in T, NEW step \in [(1..n) \X T -> T]
    PROVE  \E f \in [0..n -> T] : Recurs(f, n, base, step)
<1> DEFINE Up(f, m) == f[0] = base /\ \A i \in 1..m : f[i] = step[<<i, f[i - 1]>>]
           S == {m \in 0..n : \E f \in [0..m -> T] : Up(f, m)}
<1>1. 0 \in S
    <2> DEFINE f == [i \in 0..0 |-> base]
    <2>1. f \in [0..0 -> T] /\ f[0] = base
        OBVIOUS
    <2>2. \A i \in 1..0 : f[i] = step[<<i, f[i - 1]>>]
        OBVIOUS
    <2>3. 0 \in 0..n
        OBVIOUS
    <2> HIDE DEF f
    <2> QED BY <2>1, <2>2, <2>3
<1>2. ASSUME NEW m \in 1..n, m - 1 \in S PROVE m \in S
    <2>1. PICK f \in [0..(m - 1) -> T] : Up(f, m - 1)
        BY <1>2
    <2> DEFINE g == [i \in 0..m |-> IF i = m THEN step[<<m, f[m - 1]>>] ELSE f[i]]
    <2>2. f[m - 1] \in T /\ <<m, f[m - 1]>> \in (1..n) \X T
        BY <1>2
    <2>3. step[<<m, f[m - 1]>>] \in T
        BY <2>2
    <2>4. g \in [0..m -> T] /\ g[0] = base
        BY <1>2, <2>1, <2>3
    <2>5. ASSUME NEW i \in 1..m PROVE g[i] = step[<<i, g[i - 1]>>]
        <3>1. i - 1 \in 0..(m - 1) /\ i - 1 \in 0..m /\ i - 1 # m
            BY <1>2
        <3>0. g[i - 1] = f[i - 1]
            BY <3>1
        <3>2. CASE i = m
            BY <3>0, <3>1, <3>2
        <3>3. CASE i # m
            <4>1. i \in 1..(m - 1) /\ g[i] = f[i]
                BY <3>3
            <4> QED BY <2>1, <3>0, <4>1
        <3> QED BY <3>2, <3>3
    <2>6. Up(g, m)
        BY <2>4, <2>5
    <2> HIDE DEF g, Up
    <2> QED BY <2>4, <2>6
<1>3. n \in S
    <2> HIDE DEF S
    <2>1. \A i \in 0..n : i \in S
        BY <1>1, <1>2, CountUp, Zenon
    <2> QED BY <2>1
<1> QED BY <1>3 DEF Recurs

\* flat gives the first sequences of s one behind the other.
Flattens(flat, s) == flat[0] = <<>> /\ \A i \in 1..Len(s) : flat[i] = flat[i - 1] \o s[i]

\* FlattenSeq is the last of any such partial results.
LEMMA FlattenIs ==
    ASSUME NEW E, NEW s \in Seq(Seq(E)), NEW flat, Flattens(flat, s)
    PROVE  /\ FlattenSeq(s) = flat[Len(s)]
           /\ \A i \in 0..Len(s) : flat[i] \in Seq(E)
<1> DEFINE n == Len(s)
           Rec(f) == [i \in 1..n |-> IF i = 1 THEN s[i] ELSE f[i - 1] \o s[i]]
           flatten == CHOOSE f : f = Rec(f)
<1>1. n \in Nat /\ \A i \in 1..n : s[i] \in Seq(E)
    OBVIOUS
<1>2. \A i \in 0..n : flat[i] \in Seq(E)
    <2> DEFINE S == {i \in 0..n : flat[i] \in Seq(E)}
    <2>1. 0 \in S
        <3>1. flat[0] = <<>> /\ <<>> \in Seq(E) /\ 0 \in 0..n
            BY <1>1 DEF Flattens
        <3> QED BY <3>1
    <2>2. ASSUME NEW i \in 1..n, i - 1 \in S PROVE i \in S
        <3>1. flat[i] = flat[i - 1] \o s[i]
            BY DEF Flattens
        <3>2. flat[i - 1] \in Seq(E) /\ s[i] \in Seq(E) /\ i \in 0..n
            BY <1>1, <2>2
        <3>3. flat[i - 1] \o s[i] \in Seq(E)
            <4>1. \A u, v \in Seq(E) : u \o v \in Seq(E)
                OBVIOUS
            <4> QED BY <3>2, <4>1, Zenon
        <3> QED BY <3>1, <3>2, <3>3
    <2>3. \A i \in 0..n : i \in S
        <3> HIDE DEF S
        <3> QED BY <1>1, <2>1, <2>2, CountUp, Zenon
    <2> QED BY <2>3
<1>3. ASSUME NEW f, f = Rec(f) PROVE \A i \in 1..n : f[i] = flat[i]
    <2> DEFINE S == {i \in 0..n : i = 0 \/ f[i] = flat[i]}
    <2>1. 0 \in S
        BY <1>1
    <2>2. ASSUME NEW i \in 1..n, i - 1 \in S PROVE i \in S
        <3>1. flat[i] = flat[i - 1] \o s[i] /\ s[i] \in Seq(E) /\ flat[0] = <<>>
            BY <1>1 DEF Flattens
        <3>2. CASE i = 1
            <4>1. f[i] = s[i] /\ i \in 0..n
                BY <1>3, <3>2
            <4>2. <<>> \o s[i] = s[i]
                BY <3>1
            <4>3. flat[i - 1] = <<>>
                BY <3>1, <3>2
            <4> QED BY <3>1, <4>1, <4>2, <4>3
        <3>3. CASE i # 1
            <4>1. f[i] = f[i - 1] \o s[i]
                BY <1>3, <3>3
            <4>2. f[i - 1] = flat[i - 1] /\ i \in 0..n
                BY <2>2, <3>3
            <4> QED BY <3>1, <4>1, <4>2
        <3> QED BY <3>2, <3>3
    <2>3. \A i \in 0..n : i \in S
        <3> HIDE DEF S
        <3> QED BY <1>1, <2>1, <2>2, CountUp, Zenon
    <2> QED BY <2>3
<1>4. \E f : f = Rec(f)
    <2> DEFINE f == [i \in 1..n |-> flat[i]]
    <2>1. ASSUME NEW i \in 1..n PROVE f[i] = IF i = 1 THEN s[i] ELSE f[i - 1] \o s[i]
        <3>1. flat[i] = flat[i - 1] \o s[i] /\ s[i] \in Seq(E) /\ flat[0] = <<>>
            BY <1>1 DEF Flattens
        <3>2. CASE i = 1
            <4>1. <<>> \o s[i] = s[i] /\ flat[i - 1] = <<>>
                BY <3>1, <3>2
            <4> QED BY <3>1, <3>2, <4>1
        <3>3. CASE i # 1
            <4>1. i - 1 \in 1..n
                BY <3>3
            <4> QED BY <3>1, <3>3, <4>1
        <3> QED BY <3>2, <3>3
    <2>2. f = Rec(f)
        BY <2>1
    <2> QED BY <2>2
<1>5. flatten = Rec(flatten)
    <2> HIDE DEF Rec
    <2> QED BY <1>4, Zenon
<1>6. FlattenSeq(s) = IF n = 0 THEN s ELSE flatten[n]
    BY DEF FlattenSeq
<1> HIDE DEF flatten, Rec
<1>7. CASE n = 0
    <2>1. s = <<>> /\ flat[n] = <<>>
        BY <1>7 DEF Flattens
    <2> QED BY <1>2, <1>6, <1>7, <2>1
<1>8. CASE n # 0
    BY <1>1, <1>2, <1>3, <1>5, <1>6, <1>8
<1> QED BY <1>7, <1>8

\* There always are such partial results.
LEMMA FlattensExists ==
    ASSUME NEW E, NEW s \in Seq(Seq(E))
    PROVE  \E flat \in [0..Len(s) -> Seq(E)] : Flattens(flat, s)
<1> DEFINE n == Len(s)
           step == [p \in (1..n) \X Seq(E) |-> p[2] \o s[p[1]]]
<1>1. n \in Nat /\ <<>> \in Seq(E)
    OBVIOUS
<1>2. step \in [(1..n) \X Seq(E) -> Seq(E)]
    <2>1. ASSUME NEW p \in (1..n) \X Seq(E) PROVE p[2] \o s[p[1]] \in Seq(E)
        <3>1. p[2] \in Seq(E) /\ p[1] \in 1..n
            OBVIOUS
        <3>2. s[p[1]] \in Seq(E)
            BY <3>1
        <3> QED BY <3>1, <3>2
    <2> QED BY <2>1
<1>3. \A i \in 1..n, t \in Seq(E) : step[<<i, t>>] = t \o s[i]
    OBVIOUS
<1> HIDE DEF step
<1>4. PICK f \in [0..n -> Seq(E)] : Recurs(f, n, <<>>, step)
    <2> DEFINE T == Seq(E)
               base == <<>>
    <2>1. n \in Nat /\ base \in T /\ step \in [(1..n) \X T -> T]
        BY <1>1, <1>2
    <2> HIDE DEF T, base, n
    <2>2. \E f \in [0..n -> T] : Recurs(f, n, base, step)
        BY <2>1, RecursionExists, Zenon
    <2> QED BY <2>2 DEF T, base
<1>5. \A i \in 1..n : f[i] = f[i - 1] \o s[i]
    <2> TAKE i \in 1..n
    <2>1. i - 1 \in 0..n
        OBVIOUS
    <2> QED BY <1>3, <1>4, <2>1 DEF Recurs
<1> QED BY <1>4, <1>5 DEF Flattens, Recurs

\* Flattening element by element.
LEMMA FlattenFacts ==
    ASSUME NEW E
    PROVE  /\ FlattenSeq(<<>>) = <<>>
           /\ \A s \in Seq(Seq(E)) : FlattenSeq(s) \in Seq(E)
           /\ \A s \in Seq(Seq(E)) : \A x \in Seq(E) :
                 FlattenSeq(Append(s, x)) = FlattenSeq(s) \o x
<1>1. FlattenSeq(<<>>) = <<>>
    BY DEF FlattenSeq
<1>2. ASSUME NEW s \in Seq(Seq(E)) PROVE FlattenSeq(s) \in Seq(E)
    <2>1. PICK f : Flattens(f, s)
        BY FlattensExists
    <2>2. Len(s) \in 0..Len(s)
        OBVIOUS
    <2> QED BY <2>1, <2>2, FlattenIs
<1>3. ASSUME NEW s \in Seq(Seq(E)), NEW x \in Seq(E)
      PROVE  FlattenSeq(Append(s, x)) = FlattenSeq(s) \o x
    <2> DEFINE n == Len(s)
               more == Append(s, x)
    <2>1. PICK f \in [0..n -> Seq(E)] : Flattens(f, s)
        BY FlattensExists
    <2> DEFINE g == [i \in 0..(n + 1) |-> IF i = n + 1 THEN f[n] \o x ELSE f[i]]
    <2>2. n \in Nat /\ more \in Seq(Seq(E)) /\ Len(more) = n + 1 /\ more[n + 1] = x
          /\ \A i \in 1..n : more[i] = s[i]
        OBVIOUS
    <2> HIDE DEF more
    <2>3. Flattens(g, more)
        <3>1. g[0] = <<>>
            BY <2>1, <2>2 DEF Flattens
        <3>2. ASSUME NEW i \in 1..(n + 1) PROVE g[i] = g[i - 1] \o more[i]
            <4>0. i - 1 \in 0..n /\ i - 1 \in 0..(n + 1) /\ i - 1 # n + 1
                BY <2>2
            <4>1. g[i - 1] = f[i - 1]
                BY <4>0, Zenon
            <4>2. CASE i = n + 1
                <5>1. g[i] = f[n] \o x /\ i - 1 = n
                    BY <2>2, <4>2
                <5> HIDE DEF g
                <5> QED BY <2>2, <4>1, <4>2, <5>1
            <4>3. CASE i # n + 1
                <5>1. i \in 1..n /\ g[i] = f[i]
                    BY <2>2, <4>3
                <5> QED BY <2>1, <2>2, <4>1, <5>1 DEF Flattens
            <4> QED BY <4>2, <4>3
        <3> HIDE DEF g
        <3> QED BY <2>2, <3>1, <3>2 DEF Flattens
    <2>4. FlattenSeq(more) = g[n + 1] /\ FlattenSeq(s) = f[n]
        <3> HIDE DEF g
        <3> QED BY <2>1, <2>2, <2>3, FlattenIs
    <2>5. g[n + 1] = f[n] \o x
        BY <2>2
    <2> QED BY <2>4, <2>5 DEF more
<1> QED BY <1>1, <1>2, <1>3

-----------------------------------------------------------------------------
(***************************************************************************)
(* What a run of the algorithms is given, and the properties of scans and     *)
(* ranges for it.                                                           *)
(***************************************************************************)
\* The input is that of a search, or one of Inputs, and is never changed.
Given == input \in Inputs \/ input = [kind |-> "lookup"]

\* Every state of a run has such an input.
LEMMA InputGiven == RunSpec => []Given
<1>1. RunInit => Given
    BY DEF RunInit, Given
<1>2. Given /\ [RunNext]_<<vars, input>> => Given'
    BY DEF Given, Inputs, RunNext
<1> QED BY <1>1, <1>2, PTL DEF RunSpec

\* What is no longer than a bound is a sequence.
LEMMA UpToSeq == ASSUME NEW S, NEW n \in Nat PROVE UpTo(S, n) \subseteq Seq(S)
BY DEF UpTo

\* The kind of an input says what it is made of.
LEMMA InputKinds ==
    ASSUME Given
    PROVE  /\ input.kind = "scan" => input.lines \in Lines
           /\ input.kind = "text" => input.first \in Seq(Chars) /\ input.second \in Seq(Chars)
           /\ input.kind = "bits" => input.bits \in Seq({0, 1})
           /\ input.kind = "range" => /\ input.size \in Nat /\ input.start \in Nat
                                      /\ input.length \in Nat \cup {NoLength}
           /\ input.kind = "plan" => input.replacements \in Seq(Replacements)
<1>1. /\ MaxLines \in Nat /\ MaxText \in Nat /\ MaxBits \in Nat
      /\ MaxBytes \in Nat /\ MaxReplacements \in Nat
    BY InputsOK, IndexConstantsOK
<1> DEFINE L == UpTo(Names \cup {Opaque, Blank}, MaxLines)
           C == UpTo(Chars, MaxText)
           B == UpTo({0, 1}, MaxBits)
           R == UpTo(Replacements, MaxReplacements)
<1>2. L \subseteq Lines /\ C \subseteq Seq(Chars) /\ B \subseteq Seq({0, 1})
      /\ R \subseteq Seq(Replacements)
    <2> HIDE DEF Lines
    <2>1. Lines = Seq(Names \cup {Opaque, Blank})
        BY DEF Lines
    <2> QED BY <1>1, <2>1, UpToSeq
<1>3. \/ input \in [kind : {"scan"}, lines : L]
      \/ input \in [kind : {"text"}, first : C, second : C]
      \/ input \in [kind : {"bits"}, bits : B]
      \/ input \in [kind : {"range"}, size : 0..MaxBytes, start : 0..MaxBytes,
                    length : NoLength..(MaxBytes + 1)]
      \/ input \in [kind : {"plan"}, replacements : R]
      \/ input = [kind |-> "lookup"]
    BY DEF Given, Inputs
<1>4. 0..MaxBytes \subseteq Nat /\ NoLength..(MaxBytes + 1) \subseteq Nat \cup {NoLength}
    BY <1>1 DEF NoLength
<1> HIDE DEF L, C, B, R
<1>5. CASE input \in [kind : {"scan"}, lines : L]
    BY <1>2, <1>5
<1>6. CASE input \in [kind : {"text"}, first : C, second : C]
    BY <1>2, <1>6
<1>7. CASE input \in [kind : {"bits"}, bits : B]
    BY <1>2, <1>7
<1>8. CASE input \in [kind : {"range"}, size : 0..MaxBytes, start : 0..MaxBytes,
                      length : NoLength..(MaxBytes + 1)]
    BY <1>4, <1>8
<1>9. CASE input \in [kind : {"plan"}, replacements : R]
    BY <1>2, <1>9
<1>10. CASE input = [kind |-> "lookup"]
    BY <1>10
<1> QED BY <1>3, <1>5, <1>6, <1>7, <1>8, <1>9, <1>10

\* Whatever body a run is given, the scan and the parser agree on its opaque lines.
THEOREM ScansAlwaysAgree == RunSpec => []ScanAgreesWithParser
<1>1. Given => ScanAgreesWithParser
    BY InputKinds, ScansAgree DEF ScanAgreesWithParser
<1> QED BY <1>1, InputGiven, PTL

\* The numbers up to n, one after the other.
Counted(n) == [i \in 1..n |-> i]

\* Numbers that continue where others stop.
LEMMA CountedOn ==
    ASSUME NEW m \in Nat, NEW n \in Nat, m <= n
    PROVE  Counted(n) = Counted(m) \o [i \in 1..(n - m) |-> m + i]
<1> DEFINE rest == [i \in 1..(n - m) |-> m + i]
<1>1. n - m \in Nat
    OBVIOUS
<1>2. Counted(m) \in Seq(Int) /\ Len(Counted(m)) = m
      /\ rest \in Seq(Int) /\ Len(rest) = n - m
      /\ Counted(n) \in Seq(Int) /\ Len(Counted(n)) = n
    BY <1>1 DEF Counted
<1>3. Counted(m) \o rest \in Seq(Int) /\ Len(Counted(m) \o rest) = n
    <2> HIDE DEF rest
    <2> QED BY <1>2
<1>6. \A i \in 1..n :
         (Counted(m) \o rest)[i] = IF i <= m THEN Counted(m)[i] ELSE rest[i - m]
    <2> HIDE DEF rest
    <2> QED BY <1>2, ConcatProperties
<1>4. ASSUME NEW i \in 1..n PROVE (Counted(m) \o rest)[i] = i
    <2>1. CASE i <= m
        <3>1. i \in 1..m /\ Counted(m)[i] = i
            BY <2>1 DEF Counted
        <3> HIDE DEF rest
        <3> QED BY <1>6, <2>1, <3>1
    <2>2. CASE m < i
        <3>1. i - m \in 1..(n - m) /\ m + (i - m) = i /\ ~(i <= m)
            BY <2>2
        <3>2. rest[i - m] = m + (i - m)
            BY <3>1
        <3>3. (Counted(m) \o rest)[i] = rest[i - m]
            <4> HIDE DEF rest
            <4> QED BY <1>6, <3>1
        <3> QED BY <3>1, <3>2, <3>3
    <2>3. i <= m \/ m < i
        OBVIOUS
    <2> QED BY <2>1, <2>2, <2>3, Zenon
<1>5. \A i \in 1..n : Counted(n)[i] = i
    BY DEF Counted
<1> DEFINE s == Counted(n)
           t == Counted(m) \o rest
<1>7. s \in Seq(Int) /\ t \in Seq(Int) /\ Len(s) = Len(t)
    BY <1>2, <1>3
<1>8. \A i \in 1..Len(s) : s[i] = t[i]
    BY <1>2, <1>4, <1>5
<1> HIDE DEF s, t
<1>9. s = t
    BY <1>7, <1>8, SeqEqual
<1> QED BY <1>9 DEF s, t

\* The chunks of a value cover it.
LEMMA ChunksDoCover ==
    ASSUME NEW n \in Nat, NEW size \in Nat \ {0}
    PROVE  ChunksCover(n, size)
<1> DEFINE cs   == Chunks(n, size)
           part == [k \in DOMAIN cs |-> [i \in 1..(cs[k].to - cs[k].from) |-> cs[k].from + i]]
<1>1. PICK r \in Nat : /\ r = (n + size - 1) \div size
                       /\ n <= r * size /\ r * size <= n + size - 1
                       /\ n = 0 <=> r = 0
    BY ChunkCount
<1> DEFINE to(k)  == Least(n, k * size)
           flat == [k \in 0..r |-> Counted(to(k))]
<1>2. ASSUME NEW k \in 1..r
      PROVE  /\ cs[k].from = (k - 1) * size /\ cs[k].to = to(k)
             /\ to(k - 1) = (k - 1) * size
             /\ to(k - 1) \in Nat /\ to(k) \in Nat /\ to(k - 1) <= to(k)
    <2>1. cs[k] = [from |-> (k - 1) * size, to |-> to(k)]
        BY <1>1 DEF Chunks
    <2>2. /\ (k - 1) * size \in Nat /\ k * size \in Nat
          /\ k * size = (k - 1) * size + size
          /\ k = r => k * size = r * size
          /\ k < r => k * size + size <= r * size
          /\ r * size \in Nat
        BY ChunkBegins
    <2>3. (k - 1) * size <= n
        BY <1>1, <2>2
    <2> HIDE DEF cs
    <2>4. PICK x \in Nat, y \in Nat : x = (k - 1) * size /\ y = k * size
        BY <2>2
    <2>5. Least(n, x) = x /\ Least(n, y) \in Nat /\ x <= Least(n, y)
        BY <2>2, <2>3, <2>4 DEF Least
    <2> QED BY <2>1, <2>4, <2>5
<1>3. DOMAIN cs = 1..r
    BY <1>1 DEF Chunks
<1> HIDE DEF cs, to
<1>4. part = [k \in 1..r |-> [i \in 1..(to(k) - to(k - 1)) |-> to(k - 1) + i]]
    BY <1>2, <1>3
<1> HIDE DEF part
<1>5. part \in Seq(Seq(Int)) /\ Len(part) = r
    <2>1. ASSUME NEW k \in 1..r PROVE [i \in 1..(to(k) - to(k - 1)) |-> to(k - 1) + i] \in Seq(Int)
        <3>1. to(k) - to(k - 1) \in Nat /\ to(k - 1) \in Nat
            BY <1>2
        <3> QED BY <3>1
    <2> QED BY <1>4, <2>1
<1>6. Flattens(flat, part)
    <2>1. flat[0] = <<>>
        <3>1. to(0) = 0
            BY DEF to, Least
        <3>2. Counted(0) = <<>>
            BY DEF Counted
        <3>3. flat[0] = Counted(to(0))
            BY <1>1
        <3> QED BY <3>1, <3>2, <3>3
    <2>2. ASSUME NEW k \in 1..r PROVE flat[k] = flat[k - 1] \o part[k]
        <3>1. flat[k] = Counted(to(k)) /\ flat[k - 1] = Counted(to(k - 1))
            <4>1. k \in 0..r /\ k - 1 \in 0..r
                OBVIOUS
            <4> QED BY <4>1, Zenon
        <3>2. part[k] = [i \in 1..(to(k) - to(k - 1)) |-> to(k - 1) + i]
            BY <1>4
        <3> HIDE DEF flat
        <3> QED BY <1>2, <3>1, <3>2, CountedOn
    <2> HIDE DEF flat
    <2> QED BY <1>5, <2>1, <2>2 DEF Flattens
<1>7. FlattenSeq(part) = flat[r]
    <2> HIDE DEF flat
    <2> QED BY <1>5, <1>6, FlattenIs
<1>8. flat[r] = Counted(n)
    <2>1. to(r) = n
        <3>1. PICK x \in Nat : x = r * size
            BY <1>1, ChunkBegins
        <3> QED BY <1>1, <3>1 DEF to, Least
    <2>2. r \in 0..r
        BY <1>1
    <2> QED BY <2>1, <2>2
<1> HIDE DEF flat
<1>9. FlattenSeq(part) = Counted(n)
    BY <1>7, <1>8
<1> QED BY <1>9 DEF ChunksCover, Counted, part, cs

\* Whatever range or chunk size of a value of any size a run is given, exactly the bytes
\* asked for are read (engine.py:328-363).
THEOREM RangesAlwaysExact == RunSpec => []RangesExact
<1>1. Given => RangesExact
    <2> SUFFICES ASSUME Given, input.kind = "range"
                 PROVE  /\ RangeExact(input.size, input.start, input.length)
                        /\ input.length >= 1 => ChunksCover(input.size, input.length)
        BY DEF RangesExact
    <2>1. input.size \in Nat /\ input.start \in Nat /\ input.length \in Nat \cup {NoLength}
        BY InputKinds
    <2>2. input.length >= 1 => input.length \in Nat \ {0}
        BY <2>1 DEF NoLength
    <2> QED BY <2>1, <2>2, RangesAreExact, ChunksDoCover
<1> QED BY <1>1, InputGiven, PTL

-----------------------------------------------------------------------------
(***************************************************************************)
(* The run-length code of core variables, of any list of booleans.            *)
(***************************************************************************)
Bit == {0, 1}
Run == [bit : Bit, count : Nat \ {0}]

\* The runs after one bit more.
NextRun(before, bit) ==
    IF before # <<>> /\ Last(before).bit = bit
    THEN ReplaceAt(before, Len(before), [Last(before) EXCEPT !.count = @ + 1])
    ELSE Append(before, [bit |-> bit, count |-> 1])

\* The bits that runs stand for.
Repeated(run) == [i \in 1..run.count |-> run.bit]
Expanded(runs) == FlattenSeq([k \in DOMAIN runs |-> Repeated(runs[k])])

\* No two runs could be one.
Maximal(runs) == \A k \in 2..Len(runs) : runs[k].bit # runs[k - 1].bit

\* What runs stand for, run by run.
LEMMA ExpandedFacts ==
    /\ Expanded(<<>>) = <<>>
    /\ \A runs \in Seq(Run) : Expanded(runs) \in Seq(Bit)
    /\ \A runs \in Seq(Run), run \in Run :
          /\ Repeated(run) \in Seq(Bit)
          /\ Expanded(Append(runs, run)) = Expanded(runs) \o Repeated(run)
<1>1. \A run \in Run : Repeated(run) \in Seq(Bit)
    BY DEF Run, Repeated
<1> DEFINE Parted(runs) == [k \in DOMAIN runs |-> Repeated(runs[k])]
<1>2. \A runs \in Seq(Run) : Parted(runs) \in Seq(Seq(Bit))
    <2> SUFFICES ASSUME NEW runs \in Seq(Run) PROVE Parted(runs) \in Seq(Seq(Bit))
        OBVIOUS
    <2>1. Len(runs) \in Nat /\ \A k \in 1..Len(runs) : runs[k] \in Run
        OBVIOUS
    <2>2. \A k \in 1..Len(runs) : Repeated(runs[k]) \in Seq(Bit)
        BY <1>1, <2>1
    <2> QED BY <2>1, <2>2
<1>3. Expanded(<<>>) = <<>>
    <2>1. Parted(<<>>) = <<>>
        OBVIOUS
    <2> QED BY <2>1, FlattenFacts DEF Expanded
<1>4. ASSUME NEW runs \in Seq(Run), NEW run \in Run
      PROVE  Parted(Append(runs, run)) = Append(Parted(runs), Repeated(run))
    <2> DEFINE n == Len(runs)
               more == Append(runs, run)
    <2>1. n \in Nat /\ more \in Seq(Run) /\ Len(more) = n + 1 /\ more[n + 1] = run
          /\ \A k \in 1..n : more[k] = runs[k]
        OBVIOUS
    <2> HIDE DEF more
    <2> DEFINE s == Parted(more)
               t == Append(Parted(runs), Repeated(run))
    <2>2. s \in Seq(Seq(Bit)) /\ Len(s) = n + 1
          /\ \A k \in 1..(n + 1) : s[k] = Repeated(more[k])
        <3>1. DOMAIN more = 1..(n + 1)
            BY <2>1
        <3>2. s = [k \in 1..(n + 1) |-> Repeated(more[k])]
            BY <3>1
        <3>3. s \in Seq(Seq(Bit))
            <4> HIDE DEF Parted
            <4> QED BY <1>2, <2>1
        <3> HIDE DEF s
        <3> QED BY <2>1, <3>2, <3>3
    <2> DEFINE u == Parted(runs)
    <2>3. u \in Seq(Seq(Bit)) /\ Len(u) = n /\ \A k \in 1..n : u[k] = Repeated(runs[k])
        BY <1>2
    <2>4. Repeated(run) \in Seq(Bit)
        BY <1>1
    <2> HIDE DEF u, s, Parted
    <2>5. /\ Append(u, Repeated(run)) \in Seq(Seq(Bit))
          /\ Len(Append(u, Repeated(run))) = n + 1
          /\ \A k \in 1..n : Append(u, Repeated(run))[k] = u[k]
          /\ Append(u, Repeated(run))[n + 1] = Repeated(run)
        BY <2>3, <2>4, AppendProperties
    <2>6. t = Append(u, Repeated(run))
        BY DEF u
    <2> HIDE DEF t
    <2>7. \A k \in 1..(n + 1) : s[k] = t[k]
        <3> TAKE k \in 1..(n + 1)
        <3>1. CASE k = n + 1
            BY <2>1, <2>2, <2>5, <2>6, <3>1
        <3>2. CASE k # n + 1
            <4>1. k \in 1..n
                BY <2>1, <3>2
            <4> QED BY <2>1, <2>2, <2>3, <2>5, <2>6, <4>1
        <3> QED BY <3>1, <3>2
    <2>8. s = t
        BY <2>2, <2>5, <2>6, <2>7, SeqEqual
    <2> QED BY <2>8 DEF s, t, more
<1>5. ASSUME NEW runs \in Seq(Run) PROVE Expanded(runs) \in Seq(Bit)
    <2>1. Parted(runs) \in Seq(Seq(Bit))
        BY <1>2
    <2> QED BY <2>1, FlattenFacts DEF Expanded
<1>6. ASSUME NEW runs \in Seq(Run), NEW run \in Run
      PROVE  Expanded(Append(runs, run)) = Expanded(runs) \o Repeated(run)
    <2>1. /\ Expanded(runs) = FlattenSeq(Parted(runs))
          /\ Expanded(Append(runs, run)) = FlattenSeq(Parted(Append(runs, run)))
        BY DEF Expanded
    <2>2. Parted(runs) \in Seq(Seq(Bit)) /\ Repeated(run) \in Seq(Bit)
        BY <1>1, <1>2
    <2> HIDE DEF Parted
    <2>3. FlattenSeq(Append(Parted(runs), Repeated(run))) = FlattenSeq(Parted(runs)) \o Repeated(run)
        BY <2>2, FlattenFacts
    <2> QED BY <1>4, <2>1, <2>3
<1> QED BY <1>1, <1>3, <1>5, <1>6

\* One bit more is one bit more of what they stand for, and they stay maximal.
LEMMA NextRunFacts ==
    ASSUME NEW before \in Seq(Run), NEW bit \in Bit
    PROVE  /\ NextRun(before, bit) \in Seq(Run)
           /\ Expanded(NextRun(before, bit)) = Append(Expanded(before), bit)
           /\ Maximal(before) => Maximal(NextRun(before, bit))
<1> DEFINE after == NextRun(before, bit)
<1>1. CASE ~(before # <<>> /\ Last(before).bit = bit)
    <2> DEFINE one == [bit |-> bit, count |-> 1]
    <2>1. one \in Run /\ Repeated(one) = <<bit>>
        BY DEF Run, Repeated
    <2>2. after = Append(before, one)
        BY <1>1 DEF NextRun
    <2> HIDE DEF one, after
    <2>3. after \in Seq(Run) /\ Expanded(after) = Expanded(before) \o <<bit>>
        <3>1. after \in Seq(Run)
            BY <2>1, <2>2, AppendProperties
        <3>2. Expanded(Append(before, one)) = Expanded(before) \o Repeated(one)
            BY <2>1, ExpandedFacts
        <3> QED BY <2>1, <2>2, <3>1, <3>2
    <2>4. Expanded(before) \in Seq(Bit)
        BY ExpandedFacts
    <2>5. Expanded(after) = Append(Expanded(before), bit)
        BY <2>3, <2>4
    <2>6. ASSUME Maximal(before) PROVE Maximal(after)
        <3>1. /\ Len(before) \in Nat /\ Len(after) = Len(before) + 1
              /\ \A k \in 1..Len(before) : after[k] = before[k]
              /\ after[Len(before) + 1] = one
            BY <2>1, <2>2, AppendProperties
        <3>2. ASSUME NEW k \in 2..Len(after) PROVE after[k].bit # after[k - 1].bit
            <4>1. CASE k = Len(after)
                <5>1. k - 1 = Len(before) /\ k - 1 \in 1..Len(before) /\ before # <<>>
                    BY <3>1, <4>1
                <5>2. Last(before) = before[k - 1] /\ after[k - 1] = before[k - 1]
                    BY <3>1, <5>1 DEF Last
                <5>3. after[k].bit = bit
                    BY <3>1, <4>1 DEF one
                <5> QED BY <1>1, <5>1, <5>2, <5>3
            <4>2. CASE k # Len(after)
                <5>1. k \in 2..Len(before) /\ k \in 1..Len(before) /\ k - 1 \in 1..Len(before)
                    BY <3>1, <4>2
                <5> QED BY <2>6, <3>1, <5>1 DEF Maximal
            <4> QED BY <4>1, <4>2
        <3> QED BY <3>2 DEF Maximal
    <2> QED BY <2>3, <2>5, <2>6 DEF after
<1>2. CASE before # <<>> /\ Last(before).bit = bit
    <2>1. PICK front \in Seq(Run), run \in Run : before = Append(front, run)
        BY <1>2, SequenceEmptyOrAppend
    <2> DEFINE n == Len(front)
               longer == [run EXCEPT !.count = @ + 1]
    <2>2. /\ n \in Nat /\ Len(before) = n + 1 /\ before[n + 1] = run
          /\ \A k \in 1..n : before[k] = front[k]
        BY <2>1, AppendProperties
    <2>3. Last(before) = run /\ run.bit = bit
        BY <1>2, <2>2 DEF Last
    <2>4. longer \in Run /\ longer = [bit |-> bit, count |-> run.count + 1]
        BY <2>3 DEF Run
    <2>5. after = [before EXCEPT ![n + 1] = longer]
        BY <1>2, <2>2, <2>3 DEF NextRun, ReplaceAt
    <2> HIDE DEF longer, after
    <2>6. /\ after \in Seq(Run) /\ Len(after) = n + 1 /\ after[n + 1] = longer
          /\ \A k \in 1..n : after[k] = front[k]
        <3>1. n + 1 \in 1..Len(before)
            BY <2>2
        <3>2. /\ after \in Seq(Run) /\ Len(after) = n + 1
              /\ \A k \in 1..(n + 1) : after[k] = IF k = n + 1 THEN longer ELSE before[k]
            BY <2>2, <2>4, <2>5, <3>1, ExceptSeq
        <3> QED BY <2>2, <3>1, <3>2
    <2>7. after = Append(front, longer)
        <3> DEFINE t == Append(front, longer)
        <3>1. /\ t \in Seq(Run) /\ Len(t) = n + 1 /\ t[n + 1] = longer
              /\ \A k \in 1..n : t[k] = front[k]
            BY <2>4, AppendProperties
        <3> HIDE DEF t
        <3>2. \A k \in 1..Len(after) : after[k] = t[k]
            <4> TAKE k \in 1..Len(after)
            <4>1. k \in 1..n \/ k = n + 1
                BY <2>2, <2>6
            <4> QED BY <2>6, <3>1, <4>1
        <3>3. after = t
            BY <2>6, <3>1, <3>2, SeqEqual
        <3> QED BY <3>3 DEF t
    <2>8. Repeated(longer) = Append(Repeated(run), bit)
        <3>1. run.count \in Nat /\ longer.count = run.count + 1 /\ longer.bit = bit
            BY <2>4 DEF Run
        <3> DEFINE c == run.count
        <3>2. Repeated(run) = [i \in 1..c |-> bit] /\ Repeated(longer) = [i \in 1..(c + 1) |-> bit]
            BY <2>3, <3>1 DEF Repeated
        <3> HIDE DEF c
        <3>3. c \in Nat
            BY <3>1 DEF c
        <3> DEFINE s == [i \in 1..(c + 1) |-> bit]
                   u == [i \in 1..c |-> bit]
                   t == Append(u, bit)
        <3>4. s \in Seq(Bit) /\ Len(s) = c + 1 /\ \A i \in 1..(c + 1) : s[i] = bit
            BY <3>3
        <3>5. u \in Seq(Bit) /\ Len(u) = c /\ \A i \in 1..c : u[i] = bit
            BY <3>3
        <3> HIDE DEF s, u
        <3>6. /\ t \in Seq(Bit) /\ Len(t) = c + 1 /\ t[c + 1] = bit
              /\ \A i \in 1..c : t[i] = u[i]
            BY <3>5, AppendProperties
        <3> HIDE DEF t
        <3>7. \A i \in 1..(c + 1) : s[i] = t[i]
            <4> TAKE i \in 1..(c + 1)
            <4>1. i \in 1..c \/ i = c + 1
                BY <3>3
            <4> QED BY <3>4, <3>5, <3>6, <4>1
        <3>8. s = t
            BY <3>4, <3>6, <3>7, SeqEqual
        <3> QED BY <3>2, <3>8 DEF s, t, u
    <2>9. Expanded(after) = Append(Expanded(before), bit)
        <3>1. /\ Expanded(front) \in Seq(Bit) /\ Repeated(run) \in Seq(Bit)
              /\ Expanded(before) = Expanded(front) \o Repeated(run)
              /\ Expanded(after) = Expanded(front) \o Append(Repeated(run), bit)
            BY <2>1, <2>4, <2>7, <2>8, ExpandedFacts
        <3>2. \A u, v \in Seq(Bit) : u \o Append(v, bit) = Append(u \o v, bit)
            <4> TAKE u, v \in Seq(Bit)
            <4>1. u \o v \in Seq(Bit) /\ <<bit>> \in Seq(Bit)
                OBVIOUS
            <4>2. Append(v, bit) = v \o <<bit>> /\ Append(u \o v, bit) = (u \o v) \o <<bit>>
                BY <4>1, AppendIsConcat
            <4>3. (u \o v) \o <<bit>> = u \o (v \o <<bit>>)
                BY <4>1, ConcatAssociative
            <4> QED BY <4>2, <4>3
        <3> QED BY <3>1, <3>2
    <2>10. ASSUME Maximal(before) PROVE Maximal(after)
        <3>1. ASSUME NEW k \in 2..Len(after) PROVE after[k].bit # after[k - 1].bit
            <4>1. k \in 1..(n + 1) /\ k - 1 \in 1..n /\ k \in 2..Len(before)
                BY <2>2, <2>6
            <4>2. after[k - 1] = before[k - 1]
                BY <2>2, <2>6, <4>1
            <4>3. after[k].bit = before[k].bit
                <5>1. CASE k = n + 1
                    BY <2>2, <2>3, <2>4, <2>6, <5>1
                <5>2. CASE k # n + 1
                    <6>1. k \in 1..n
                        BY <2>2, <4>1, <5>2
                    <6> QED BY <2>2, <2>6, <6>1
                <5> QED BY <5>1, <5>2
            <4> QED BY <2>10, <4>1, <4>2, <4>3 DEF Maximal
        <3> QED BY <3>1 DEF Maximal
    <2> QED BY <2>6, <2>9, <2>10 DEF after
<1> QED BY <1>1, <1>2

\* _delta_rle_encode takes up the differences one by one.
LEMMA RunsUnfold ==
    ASSUME NEW bits \in Seq(Bit)
    PROVE  /\ Delta(bits) \in Seq(Bit) /\ Len(Delta(bits)) = Len(bits)
           /\ \E runs \in [0..Len(bits) -> Seq(Run)] :
                 /\ Runs(bits) = runs[Len(bits)]
                 /\ runs[0] = <<>>
                 /\ \A i \in 1..Len(bits) : runs[i] = NextRun(runs[i - 1], Delta(bits)[i])
<1> DEFINE n == Len(bits)
           delta == Delta(bits)
<1>1. n \in Nat /\ delta \in Seq(Bit) /\ Len(delta) = n
    <2>1. \A i \in 1..n : (IF i = 1 THEN bits[1] ELSE Xor(bits[i], bits[i - 1])) \in Bit
        <3> TAKE i \in 1..n
        <3>1. CASE i = 1
            BY <3>1
        <3>2. CASE i # 1
            <4>1. bits[i] \in Bit /\ bits[i - 1] \in Bit
                BY <3>2
            <4> QED BY <3>2, <4>1 DEF Xor, Bit
        <3> QED BY <3>1, <3>2
    <2>2. delta = [i \in 1..n |-> IF i = 1 THEN bits[1] ELSE Xor(bits[i], bits[i - 1])]
        BY DEF Delta
    <2> HIDE DEF delta
    <2> QED BY <2>1, <2>2
<1> HIDE DEF delta
<1> DEFINE T == Seq(Run)
           step == [p \in (1..n) \X T |-> NextRun(p[2], delta[p[1]])]
<1>2. step \in [(1..n) \X T -> T] /\ <<>> \in T
    <2>1. ASSUME NEW p \in (1..n) \X T PROVE NextRun(p[2], delta[p[1]]) \in T
        <3>1. p[2] \in T /\ delta[p[1]] \in Bit
            BY <1>1
        <3> QED BY <3>1, NextRunFacts
    <2> QED BY <2>1
<1>3. \A i \in 1..n, t \in T : step[<<i, t>>] = NextRun(t, delta[i])
    OBVIOUS
<1> HIDE DEF step
<1>4. PICK f \in [0..n -> T] : Recurs(f, n, <<>>, step)
    <2> HIDE DEF T, n
    <2> QED BY <1>1, <1>2, RecursionExists
<1>5. f[0] = <<>> /\ \A i \in 1..n : f[i] = NextRun(f[i - 1], delta[i])
    <2>1. \A i \in 1..n : i - 1 \in 0..n /\ f[i - 1] \in T
        BY <1>1
    <2> HIDE DEF T
    <2> QED BY <1>3, <1>4, <2>1 DEF Recurs
<1> DEFINE Rec(g) == [i \in 0..n |-> IF i = 0 THEN <<>> ELSE NextRun(g[i - 1], delta[i])]
           runs == CHOOSE g : g = Rec(g)
<1>6. f = Rec(f)
    <2>1. \A i \in 0..n : f[i] = IF i = 0 THEN <<>> ELSE NextRun(f[i - 1], delta[i])
        BY <1>1, <1>5
    <2> QED BY <1>1, <2>1
<1>7. runs = Rec(runs)
    <2> HIDE DEF Rec
    <2> QED BY <1>6, Zenon
<1>8. Runs(bits) = runs[n]
    BY DEF Runs, NextRun, delta
<1> HIDE DEF runs
<1>9. \A i \in 0..n : runs[i] = f[i]
    <2> DEFINE S == {i \in 0..n : runs[i] = f[i]}
    <2>1. 0 \in S
        BY <1>1, <1>5, <1>7
    <2>2. ASSUME NEW i \in 1..n, i - 1 \in S PROVE i \in S
        <3>1. runs[i] = NextRun(runs[i - 1], delta[i]) /\ i \in 0..n
            BY <1>1, <1>7
        <3> QED BY <1>5, <2>2, <3>1
    <2>3. \A i \in 0..n : i \in S
        <3> HIDE DEF S
        <3> QED BY <1>1, <2>1, <2>2, CountUp, Zenon
    <2> QED BY <2>3
<1>10. Runs(bits) = f[n]
    <2>1. n \in 0..n
        BY <1>1
    <2> QED BY <1>8, <1>9, <2>1
<1> QED BY <1>1, <1>5, <1>10 DEF delta

\* The runs stand for the differences, and are maximal.
LEMMA RunsExpand ==
    ASSUME NEW bits \in Seq(Bit)
    PROVE  /\ Runs(bits) \in Seq(Run)
           /\ Expanded(Runs(bits)) = Delta(bits)
           /\ Maximal(Runs(bits))
<1> DEFINE n == Len(bits)
           delta == Delta(bits)
<1>1. n \in Nat /\ delta \in Seq(Bit) /\ Len(delta) = n
    BY RunsUnfold
<1>2. PICK runs \in [0..n -> Seq(Run)] :
         /\ Runs(bits) = runs[n]
         /\ runs[0] = <<>>
         /\ \A i \in 1..n : runs[i] = NextRun(runs[i - 1], delta[i])
    BY RunsUnfold
<1> HIDE DEF delta
<1> DEFINE S == {i \in 0..n : /\ Len(Expanded(runs[i])) = i
                              /\ \A j \in 1..i : Expanded(runs[i])[j] = delta[j]
                              /\ Maximal(runs[i])}
<1>3. 0 \in S
    <2>1. Expanded(runs[0]) = <<>>
        BY <1>2, ExpandedFacts
    <2>2. Maximal(runs[0])
        BY <1>2 DEF Maximal
    <2> QED BY <1>1, <2>1, <2>2
<1>4. ASSUME NEW i \in 1..n, i - 1 \in S PROVE i \in S
    <2>1. i - 1 \in 0..n /\ i \in 0..n /\ runs[i - 1] \in Seq(Run) /\ delta[i] \in Bit
        BY <1>1
    <2>2. /\ Len(Expanded(runs[i - 1])) = i - 1
          /\ \A j \in 1..(i - 1) : Expanded(runs[i - 1])[j] = delta[j]
          /\ Maximal(runs[i - 1])
        BY <1>4
    <2>3. /\ Expanded(runs[i]) = Append(Expanded(runs[i - 1]), delta[i])
          /\ Maximal(runs[i]) /\ Expanded(runs[i - 1]) \in Seq(Bit)
        BY <1>2, <2>1, <2>2, NextRunFacts, ExpandedFacts
    <2> DEFINE s == Expanded(runs[i - 1])
               t == Expanded(runs[i])
    <2> HIDE DEF s, t
    <2>4. /\ Len(t) = i /\ t[i] = delta[i]
          /\ \A j \in 1..(i - 1) : t[j] = s[j]
        <3>1. s \in Seq(Bit) /\ t = Append(s, delta[i]) /\ Len(s) = i - 1 /\ Len(s) + 1 = i
            BY <2>2, <2>3 DEF s, t
        <3>2. /\ Len(t) = Len(s) + 1 /\ t[Len(s) + 1] = delta[i]
              /\ \A j \in 1..Len(s) : t[j] = s[j]
            BY <2>1, <3>1, AppendProperties
        <3> QED BY <3>1, <3>2
    <2>5. \A j \in 1..i : t[j] = delta[j]
        <3> TAKE j \in 1..i
        <3>1. j = i \/ j \in 1..(i - 1)
            OBVIOUS
        <3> QED BY <2>2, <2>4, <3>1 DEF s
    <2> QED BY <2>1, <2>3, <2>4, <2>5 DEF t
<1>5. n \in S
    <2> HIDE DEF S
    <2>1. \A i \in 0..n : i \in S
        BY <1>1, <1>3, <1>4, CountUp, Zenon
    <2> QED BY <1>1, <2>1
<1>6. runs[n] \in Seq(Run)
    BY <1>1
<1>7. Expanded(runs[n]) = delta
    <2>1. Expanded(runs[n]) \in Seq(Bit)
        BY <1>6, ExpandedFacts
    <2>2. Len(Expanded(runs[n])) = n /\ \A j \in 1..n : Expanded(runs[n])[j] = delta[j]
        BY <1>5
    <2> DEFINE s == Expanded(runs[n])
    <2>3. s \in Seq(Bit) /\ Len(s) = Len(delta) /\ \A j \in 1..Len(s) : s[j] = delta[j]
        BY <1>1, <2>1, <2>2
    <2> HIDE DEF s
    <2>4. s = delta
        BY <1>1, <2>3, SeqEqual
    <2> QED BY <2>4 DEF s
<1> QED BY <1>2, <1>5, <1>6, <1>7 DEF delta

\* The differences, summed up, are the bits.
THEOREM CoreVariablesSurvive == \A bits \in Seq({0, 1}) : CoreRoundTrip(bits)
<1> SUFFICES ASSUME NEW bits \in Seq(Bit) PROVE CoreRoundTrip(bits)
    BY DEF Bit
<1> DEFINE n == Len(bits)
           delta == Delta(bits)
           Rec(f) == [i \in 1..n |-> IF i = 1 THEN delta[1] ELSE Xor(f[i - 1], delta[i])]
           sum == CHOOSE f : f = Rec(f)
<1>1. /\ Runs(bits) \in Seq(Run) /\ Expanded(Runs(bits)) = delta /\ Maximal(Runs(bits))
      /\ n \in Nat /\ Len(delta) = n
    BY RunsExpand, RunsUnfold
<1>2. Bits(Runs(bits)) = sum
    <2> DEFINE d == FlattenSeq([k \in DOMAIN Runs(bits) |->
                                  [i \in 1..Runs(bits)[k].count |-> Runs(bits)[k].bit]])
    <2>1. d = delta
        <3> HIDE DEF delta
        <3> QED BY <1>1 DEF Expanded, Repeated
    <2>2. Bits(Runs(bits)) =
             CHOOSE f : f = [i \in 1..Len(d) |-> IF i = 1 THEN d[1] ELSE Xor(f[i - 1], d[i])]
        BY DEF Bits
    <2> HIDE DEF d, delta
    <2> QED BY <1>1, <2>1, <2>2
<1>3. /\ delta = [i \in 1..n |-> IF i = 1 THEN bits[1] ELSE Xor(bits[i], bits[i - 1])]
      /\ \A i \in 1..n : bits[i] \in Bit
    BY DEF Delta
<1> HIDE DEF delta
<1>4. ASSUME NEW i \in 1..n
      PROVE  bits[i] = IF i = 1 THEN delta[1] ELSE Xor(bits[i - 1], delta[i])
    <2>1. CASE i = 1
        BY <1>3, <2>1
    <2>2. CASE i # 1
        <3>1. i - 1 \in 1..n
            BY <2>2
        <3>2. bits[i] \in Bit /\ bits[i - 1] \in Bit /\ delta[i] = Xor(bits[i], bits[i - 1])
            BY <1>3, <2>2, <3>1
        <3> QED BY <2>2, <3>2 DEF Xor, Bit
    <2> QED BY <2>1, <2>2
<1>5. bits = Rec(bits)
    <2>1. bits = [i \in 1..n |-> bits[i]]
        OBVIOUS
    <2> QED BY <1>4, <2>1
<1>6. sum = Rec(sum)
    <2> HIDE DEF Rec
    <2> QED BY <1>5, Zenon
<1> HIDE DEF sum
<1>7. \A i \in 1..n : sum[i] = bits[i]
    <2> DEFINE S == {i \in 0..n : i = 0 \/ sum[i] = bits[i]}
    <2>1. 0 \in S
        BY <1>1
    <2>2. ASSUME NEW i \in 1..n, i - 1 \in S PROVE i \in S
        <3>1. sum[i] = IF i = 1 THEN delta[1] ELSE Xor(sum[i - 1], delta[i])
            BY <1>6
        <3>2. i # 1 => sum[i - 1] = bits[i - 1]
            BY <2>2
        <3>3. sum[i] = bits[i] /\ i \in 0..n
            BY <1>4, <3>1, <3>2
        <3> QED BY <3>3
    <2>3. \A i \in 0..n : i \in S
        <3> HIDE DEF S
        <3> QED BY <1>1, <2>1, <2>2, CountUp, Zenon
    <2> QED BY <2>3
<1>8. sum = bits
    <2>1. sum = [i \in 1..n |-> sum[i]] /\ bits = [i \in 1..n |-> bits[i]]
        BY <1>6
    <2> QED BY <1>7, <2>1
<1> QED BY <1>1, <1>2, <1>8 DEF CoreRoundTrip, Maximal

-----------------------------------------------------------------------------
(***************************************************************************)
(* Text envelopes, of any text.                                             *)
(***************************************************************************)
Token == [kind : {"char", "b64", "open"}, of : Chars \cup {"@qp(", "@qv1("}]

\* The kinds of characters are different.
LEMMA CharsApart ==
    /\ Close # Colon /\ Newline # Close /\ Newline # Colon
    /\ {Plain, Comma, Newline, Close, Colon} = Chars /\ "malformed" \notin Chars
<1> DEFINE cs == <<Plain, Comma, Newline, Close, Colon>>
<1>1. \A i, j \in 1..5 : cs[i] = cs[j] => i = j
    BY CharsDiffer
<1>2. cs[3] = Newline /\ cs[4] = Close /\ cs[5] = Colon
    OBVIOUS
<1>3. Close # Colon /\ Newline # Close /\ Newline # Colon
    <2> HIDE DEF cs
    <2> QED BY <1>1, <1>2
<1> QED BY <1>3, CharsDiffer DEF Chars

\* What an envelope consists of: its opening, one token for every character, and the
\* only terminator behind the opening.
Enclosed(e, text, fits) ==
    /\ e \in Seq(Token) /\ Len(e) = Len(text) + 3
    /\ e[1] = IF fits THEN OpenQp ELSE OpenQv
    /\ \A i \in 1..Len(text) : /\ e[i + 1].of = text[i] /\ e[i + 1].kind \in {"char", "b64"}
                               /\ e[i + 1] # Ch(Newline)
    /\ e[Len(text) + 2] = Ch(Close) /\ e[Len(text) + 3] = Ch(Colon)
    /\ \A i \in 2..(Len(text) + 1) : ~(e[i] = Ch(Close) /\ e[i + 1] = Ch(Colon))

FitsText(text) == Fits([i \in DOMAIN text |-> Ch(text[i])])

\* encode_text gives such an envelope.
LEMMA EncodeEncloses ==
    ASSUME NEW text \in Seq(Chars)
    PROVE  Enclosed(Encode(text), text, FitsText(text))
<1> DEFINE n     == Len(text)
           chars == [i \in DOMAIN text |-> Ch(text[i])]
           b64s  == [i \in DOMAIN text |-> B64(text[i])]
           open  == IF FitsText(text) THEN OpenQp ELSE OpenQv
           mid   == IF FitsText(text) THEN chars ELSE b64s
           e     == Encode(text)
<1>1. n \in Nat /\ DOMAIN text = 1..n /\ \A i \in 1..n : text[i] \in Chars
    OBVIOUS
<1>2. chars \in Seq(Token) /\ Len(chars) = n /\ \A i \in 1..n : chars[i] = Ch(text[i])
    BY <1>1 DEF Ch, Token
<1>3. b64s \in Seq(Token) /\ Len(b64s) = n /\ \A i \in 1..n : b64s[i] = B64(text[i])
    BY <1>1 DEF B64, Token
<1>4. e = (<<open>> \o mid) \o Terminator
    BY DEF Encode, FitsText
<1>5. FitsText(text) <=> Fits(chars)
    BY DEF FitsText
<1> HIDE DEF e, chars, b64s
<1>6. mid \in Seq(Token) /\ Len(mid) = n
    BY <1>2, <1>3
<1>7. ASSUME NEW i \in 1..n
      PROVE  mid[i].of = text[i] /\ mid[i].kind \in {"char", "b64"} /\ mid[i] # Ch(Newline)
    <2>1. CASE FitsText(text)
        <3>1. mid[i] = Ch(text[i])
            BY <1>2, <2>1
        <3>2. ~Contains(chars, Ch(Newline)) /\ mid = chars
            BY <1>5, <2>1 DEF Fits
        <3>3. mid[i] # Ch(Newline)
            BY <1>2, <3>2 DEF Contains
        <3> HIDE DEF mid
        <3> QED BY <3>1, <3>3 DEF Ch
    <2>2. CASE ~FitsText(text)
        <3>1. mid[i] = B64(text[i])
            BY <1>3, <2>2
        <3> HIDE DEF mid
        <3> QED BY <3>1 DEF Ch, B64
    <2> QED BY <2>1, <2>2
<1>8. ASSUME NEW i \in 1..(n - 1)
      PROVE  ~(mid[i] = Ch(Close) /\ mid[i + 1] = Ch(Colon))
    <2>0. i \in 1..n /\ i + 1 \in 1..n /\ i < n
        BY <1>1
    <2>1. CASE FitsText(text)
        <3>1. mid = chars /\ ~EndsAt(chars, i)
            <4>1. i \in DOMAIN chars
                BY <1>2, <2>0
            <4> QED BY <1>5, <2>1, <4>1 DEF Fits
        <3> QED BY <1>2, <2>0, <3>1 DEF EndsAt
    <2>2. CASE ~FitsText(text)
        <3>1. mid[i] = B64(text[i])
            BY <1>3, <2>0, <2>2
        <3> HIDE DEF mid
        <3> QED BY <3>1 DEF Ch, B64
    <2> QED BY <2>1, <2>2
<1>9. open \in Token /\ Terminator \in Seq(Token) /\ Len(Terminator) = 2
      /\ Terminator[1] = Ch(Close) /\ Terminator[2] = Ch(Colon)
    BY DEF OpenQp, OpenQv, Token, Terminator, Ch, Chars
<1> DEFINE head == <<open>> \o mid
<1> HIDE DEF open, mid
<1>10. /\ head \in Seq(Token) /\ Len(head) = n + 1 /\ head[1] = open
       /\ \A i \in 1..n : head[i + 1] = mid[i]
    <2>1. <<open>> \in Seq(Token) /\ Len(<<open>>) = 1 /\ <<open>>[1] = open
        BY <1>9
    <2> DEFINE o == <<open>>
    <2> HIDE DEF o
    <2>2. /\ o \o mid \in Seq(Token) /\ Len(o \o mid) = 1 + n
          /\ \A i \in 1..(1 + n) : (o \o mid)[i] = IF i <= 1 THEN o[i] ELSE mid[i - 1]
        BY <1>6, <2>1, ConcatProperties DEF o
    <2>3. \A i \in 1..n : i + 1 \in 1..(1 + n) /\ ~(i + 1 <= 1) /\ i + 1 - 1 = i
        BY <1>1
    <2>4. 1 \in 1..(1 + n)
        BY <1>1
    <2> QED BY <1>1, <2>1, <2>2, <2>3, <2>4 DEF o
<1> HIDE DEF head
<1>11. /\ e \in Seq(Token) /\ Len(e) = n + 3
       /\ \A i \in 1..(n + 1) : e[i] = head[i]
       /\ e[n + 2] = Ch(Close) /\ e[n + 3] = Ch(Colon)
    <2>1. /\ e \in Seq(Token) /\ Len(e) = (n + 1) + 2
          /\ \A i \in 1..((n + 1) + 2) : e[i] = IF i <= n + 1 THEN head[i] ELSE Terminator[i - (n + 1)]
        <3> DEFINE t == Terminator
        <3>1. e = head \o t /\ t \in Seq(Token) /\ Len(t) = 2 /\ head \in Seq(Token)
              /\ Len(head) = n + 1
            BY <1>4, <1>9, <1>10 DEF head
        <3> HIDE DEF t
        <3>2. /\ head \o t \in Seq(Token) /\ Len(head \o t) = Len(head) + Len(t)
              /\ \A i \in 1..(Len(head) + Len(t)) :
                    (head \o t)[i] = IF i <= Len(head) THEN head[i] ELSE t[i - Len(head)]
            BY <3>1, ConcatProperties, Zenon
        <3> QED BY <3>1, <3>2 DEF t
    <2>2. n + 2 \in 1..((n + 1) + 2) /\ ~(n + 2 <= n + 1) /\ n + 2 - (n + 1) = 1
        BY <1>1
    <2>3. n + 3 \in 1..((n + 1) + 2) /\ ~(n + 3 <= n + 1) /\ n + 3 - (n + 1) = 2
        BY <1>1
    <2>4. \A i \in 1..(n + 1) : i \in 1..((n + 1) + 2) /\ i <= n + 1
        BY <1>1
    <2> QED BY <1>1, <1>9, <2>1, <2>2, <2>3, <2>4
<1>12. e[1] = open /\ \A i \in 1..n : e[i + 1] = mid[i]
    <2>1. 1 \in 1..(n + 1) /\ \A i \in 1..n : i + 1 \in 1..(n + 1)
        BY <1>1
    <2> QED BY <1>10, <1>11, <2>1
<1>13. ASSUME NEW i \in 2..(n + 1) PROVE ~(e[i] = Ch(Close) /\ e[i + 1] = Ch(Colon))
    <2>1. i - 1 \in 1..n /\ (i - 1) + 1 = i /\ e[i] = mid[i - 1]
        <3>1. i - 1 \in 1..n /\ (i - 1) + 1 = i
            BY <1>1
        <3> QED BY <1>12, <3>1
    <2>2. CASE i = n + 1
        <3>1. e[i + 1] = Ch(Close)
            BY <1>1, <1>11, <2>2
        <3> QED BY <3>1, CharsApart DEF Ch
    <2>3. CASE i # n + 1
        <3>1. i - 1 \in 1..(n - 1) /\ i \in 1..n
            BY <1>1, <2>3
        <3>2. e[i + 1] = mid[i]
            BY <1>12, <3>1
        <3> QED BY <1>8, <2>1, <3>1, <3>2
    <2> QED BY <2>2, <2>3
<1> QED BY <1>7, <1>11, <1>12, <1>13 DEF Enclosed, open, e

\* A text's envelope stays on one line.
LEMMA TextsStayOnLine == \A text \in Seq(Chars) : OneLine(text)
<1> SUFFICES ASSUME NEW text \in Seq(Chars), NEW i \in 1..Len(Encode(text))
             PROVE  Encode(text)[i] # Ch(Newline)
    BY DEF OneLine, Contains
<1> DEFINE e == Encode(text)
           n == Len(text)
<1>1. Enclosed(e, text, FitsText(text)) /\ n \in Nat
    BY EncodeEncloses
<1> HIDE DEF e
<1>2. i = 1 \/ (i - 1 \in 1..n /\ (i - 1) + 1 = i) \/ i = n + 2 \/ i = n + 3
    BY <1>1 DEF Enclosed, e
<1>3. e[i] # Ch(Newline)
    <2>1. CASE i = 1
        BY <1>1, <2>1 DEF Enclosed, OpenQp, OpenQv, Ch
    <2>2. CASE i - 1 \in 1..n /\ (i - 1) + 1 = i
        BY <1>1, <2>2 DEF Enclosed
    <2>3. CASE i = n + 2 \/ i = n + 3
        <3>1. e[i] = Ch(Close) \/ e[i] = Ch(Colon)
            BY <1>1, <2>3 DEF Enclosed
        <3> QED BY <3>1, CharsApart DEF Ch
    <2> QED BY <1>2, <2>1, <2>2, <2>3
<1> QED BY <1>3 DEF e

\* The parts after one character more.
NextParts(before, c) ==
    IF c = Comma THEN Append(before, <<>>)
    ELSE ReplaceAt(before, Len(before), Append(Last(before), c))

\* The parts of a text are texts.
LEMMA PartsAreTexts == \A text \in Seq(Chars) : Parts(text) \in Seq(Seq(Chars))
<1> SUFFICES ASSUME NEW text \in Seq(Chars) PROVE Parts(text) \in Seq(Seq(Chars))
    OBVIOUS
<1> DEFINE n == Len(text)
           T == Seq(Seq(Chars)) \ {<<>>}
           step == [p \in (1..n) \X T |-> NextParts(p[2], text[p[1]])]
<1>1. n \in Nat /\ <<<<>>>> \in T
    OBVIOUS
<1>2. ASSUME NEW before \in T, NEW c \in Chars PROVE NextParts(before, c) \in T
    <2>1. before \in Seq(Seq(Chars)) /\ before # <<>> /\ Len(before) \in 1..Len(before)
        OBVIOUS
    <2>2. CASE c = Comma
        <3>1. <<>> \in Seq(Chars)
            OBVIOUS
        <3> QED BY <2>1, <2>2, <3>1, AppendProperties DEF NextParts
    <2>3. CASE c # Comma
        <3>1. Last(before) \in Seq(Chars)
            BY <2>1 DEF Last
        <3>2. Append(Last(before), c) \in Seq(Chars)
            BY <3>1, AppendProperties
        <3>3. NextParts(before, c) = [before EXCEPT ![Len(before)] = Append(Last(before), c)]
            BY <2>3 DEF NextParts, ReplaceAt
        <3>4. NextParts(before, c) \in Seq(Seq(Chars)) /\ Len(NextParts(before, c)) = Len(before)
            BY <2>1, <3>2, <3>3, ExceptSeq
        <3>5. Len(before) # 0
            BY <2>1
        <3> QED BY <3>4, <3>5
    <2> QED BY <2>2, <2>3
<1>3. step \in [(1..n) \X T -> T]
    <2> HIDE DEF T
    <2>1. ASSUME NEW p \in (1..n) \X T PROVE NextParts(p[2], text[p[1]]) \in T
        BY <1>2
    <2> QED BY <2>1
<1> HIDE DEF T
<1>4. \A i \in 1..n, t \in T : step[<<i, t>>] = NextParts(t, text[i])
    OBVIOUS
<1> HIDE DEF step
<1>5. PICK f \in [0..n -> T] : Recurs(f, n, <<<<>>>>, step)
    <2> HIDE DEF n
    <2> QED BY <1>1, <1>3, RecursionExists
<1> DEFINE Rec(g) == [i \in 0..n |-> IF i = 0 THEN <<<<>>>> ELSE NextParts(g[i - 1], text[i])]
           parts == CHOOSE g : g = Rec(g)
<1>6. f = Rec(f)
    <2>1. \A i \in 1..n : i - 1 \in 0..n /\ f[i - 1] \in T
        BY <1>1
    <2>2. \A i \in 0..n : f[i] = IF i = 0 THEN <<<<>>>> ELSE NextParts(f[i - 1], text[i])
        <3> TAKE i \in 0..n
        <3>1. CASE i = 0
            BY <1>5, <3>1 DEF Recurs
        <3>2. CASE i # 0
            <4>1. i \in 1..n
                BY <1>1, <3>2
            <4>2. f[i] = step[<<i, f[i - 1]>>]
                BY <1>5, <4>1 DEF Recurs
            <4>3. f[i] = NextParts(f[i - 1], text[i])
                BY <1>4, <2>1, <4>1, <4>2
            <4> QED BY <3>2, <4>3
        <3> QED BY <3>1, <3>2
    <2> QED BY <1>1, <2>2
<1>7. parts = Rec(parts)
    <2> HIDE DEF Rec
    <2> QED BY <1>6, Zenon
<1>8. Parts(text) = parts[n]
    BY DEF Parts, NextParts
<1> HIDE DEF parts
<1> DEFINE S == {i \in 0..n : parts[i] \in T}
<1>9. 0 \in S
    BY <1>1, <1>7
<1>10. ASSUME NEW i \in 1..n, i - 1 \in S PROVE i \in S
    <2>1. parts[i] = NextParts(parts[i - 1], text[i]) /\ i \in 0..n /\ text[i] \in Chars
        BY <1>1, <1>7
    <2> QED BY <1>2, <1>10, <2>1
<1>11. \A i \in 0..n : i \in S
    <2> HIDE DEF S
    <2> QED BY <1>1, <1>9, <1>10, CountUp, Zenon
<1>12. parts[n] \in T
    BY <1>1, <1>11
<1> QED BY <1>8, <1>12 DEF T

\* Where an envelope begins within a file's tokens, its text is found and nothing else.
Ends(s, from)  == {i \in (from + 1)..Len(s) : EndsAt(s, i)}
First(ends)    == CHOOSE i \in ends : \A j \in ends : i <= j
Opens(token)   == token \in {OpenQp, OpenQv}

LEMMA EnvelopeAt ==
    ASSUME NEW s \in Seq(Token), NEW off \in Nat, NEW text \in Seq(Chars),
           off + Len(text) + 3 <= Len(s),
           \A i \in 1..(Len(text) + 3) : s[off + i] = Encode(text)[i]
    PROVE  /\ Opens(s[off + 1])
           /\ \A i \in 2..(Len(text) + 3) : ~Opens(s[off + i])
           /\ Ends(s, off + 1) # {}
           /\ First(Ends(s, off + 1)) = off + Len(text) + 2
           /\ Envelope(s, off + 1, off + Len(text) + 2) = Meaning(text)
<1> DEFINE n == Len(text)
           e == Encode(text)
           end == off + n + 2
<1>1. n \in Nat /\ Enclosed(e, text, FitsText(text)) /\ Len(s) \in Nat /\ \A i \in 1..n : text[i] \in Chars
    BY EncodeEncloses
<1>2. \A i \in 1..(n + 3) : s[off + i] = e[i]
    OBVIOUS
<1> HIDE DEF e
<1>3. s[off + 1] = IF FitsText(text) THEN OpenQp ELSE OpenQv
    <2>1. 1 \in 1..(n + 3)
        BY <1>1
    <2> QED BY <1>1, <1>2, <2>1 DEF Enclosed
<1>4. ASSUME NEW i \in 1..n
      PROVE  s[off + 1 + i].of = text[i] /\ s[off + 1 + i].kind \in {"char", "b64"}
    <2>1. i + 1 \in 1..(n + 3) /\ off + 1 + i = off + (i + 1)
        BY <1>1
    <2>2. s[off + 1 + i] = e[i + 1]
        BY <1>2, <2>1
    <2> QED BY <1>1, <2>2 DEF Enclosed
<1>5. s[off + n + 2] = Ch(Close) /\ s[off + n + 3] = Ch(Colon)
    <2>1. n + 2 \in 1..(n + 3) /\ off + n + 2 = off + (n + 2)
          /\ n + 3 \in 1..(n + 3) /\ off + n + 3 = off + (n + 3)
        BY <1>1
    <2>2. s[off + n + 2] = e[n + 2] /\ s[off + n + 3] = e[n + 3]
        BY <1>2, <2>1
    <2> QED BY <1>1, <2>2 DEF Enclosed
<1>6. ASSUME NEW i \in 2..(n + 3) PROVE ~Opens(s[off + i])
    <2>1. i - 1 \in 1..n \/ i = n + 2 \/ i = n + 3
        BY <1>1
    <2>2. CASE i - 1 \in 1..n
        <3>1. off + 1 + (i - 1) = off + i
            BY <1>1
        <3>2. s[off + i].kind \in {"char", "b64"}
            BY <1>4, <2>2, <3>1
        <3> QED BY <3>2 DEF Opens, OpenQp, OpenQv
    <2>3. CASE i = n + 2
        <3>1. s[off + i] = Ch(Close)
            BY <1>1, <1>5, <2>3
        <3> QED BY <3>1 DEF Opens, OpenQp, OpenQv, Ch
    <2>4. CASE i = n + 3
        <3>1. s[off + i] = Ch(Colon)
            BY <1>1, <1>5, <2>4
        <3> QED BY <3>1 DEF Opens, OpenQp, OpenQv, Ch
    <2> QED BY <2>1, <2>2, <2>3, <2>4
<1>7. end \in Ends(s, off + 1)
    <2>1. end \in (off + 1 + 1)..Len(s) /\ end < Len(s) /\ end + 1 = off + n + 3
        BY <1>1
    <2> QED BY <1>5, <2>1 DEF Ends, EndsAt
<1>8. ASSUME NEW i \in Ends(s, off + 1) PROVE end <= i
    <2>1. i \in (off + 2)..Len(s) /\ s[i] = Ch(Close) /\ s[i + 1] = Ch(Colon)
        BY DEF Ends, EndsAt
    <2> SUFFICES ASSUME i < end PROVE FALSE
        BY <1>1, <2>1
    <2>2. i - off \in 2..(n + 1) /\ i - off \in 1..(n + 3) /\ (i - off) + 1 \in 1..(n + 3)
          /\ off + (i - off) = i /\ off + ((i - off) + 1) = i + 1
        BY <1>1, <2>1
    <2>3. e[i - off] = Ch(Close) /\ e[(i - off) + 1] = Ch(Colon)
        BY <1>2, <2>1, <2>2
    <2> QED BY <1>1, <2>2, <2>3 DEF Enclosed
<1>9. First(Ends(s, off + 1)) = end
    <2> DEFINE ends == Ends(s, off + 1)
               to == CHOOSE i \in ends : \A j \in ends : i <= j
    <2>1. \A i \in ends : i \in Int
        BY DEF Ends
    <2> HIDE DEF ends
    <2>2. end \in ends /\ \A j \in ends : end <= j
        BY <1>7, <1>8 DEF ends
    <2>3. to \in ends /\ \A j \in ends : to <= j
        <3> HIDE DEF end
        <3> QED BY <2>2
    <2>4. to <= end /\ end <= to /\ to \in Int /\ end \in Int
        <3> HIDE DEF to, end
        <3> QED BY <2>1, <2>2, <2>3
    <2>5. to = end
        <3> HIDE DEF to, end
        <3> QED BY <2>4
    <2> QED BY <2>5 DEF First, ends
<1>10. Envelope(s, off + 1, end) = Meaning(text)
    <2> DEFINE inner == [i \in 1..(end - (off + 1) - 1) |-> s[off + 1 + i].of]
    <2>1. end - (off + 1) - 1 = n
        BY <1>1
    <2>2. inner = [i \in 1..n |-> s[off + 1 + i].of]
        BY <2>1
    <2>3. inner = text
        <3>1. \A i \in 1..n : s[off + 1 + i].of = text[i]
            BY <1>4
        <3>2. text = [i \in 1..n |-> text[i]]
            OBVIOUS
        <3> HIDE DEF inner
        <3> QED BY <2>2, <3>1, <3>2
    <2>4. Envelope(s, off + 1, end) = IF s[off + 1] = OpenQp THEN Parts(inner) ELSE <<inner>>
        BY DEF Envelope
    <2>5. Meaning(text) = IF FitsText(text) THEN Parts(text) ELSE <<text>>
        BY DEF Meaning, FitsText
    <2>6. (s[off + 1] = OpenQp) <=> FitsText(text)
        BY <1>3 DEF OpenQp, OpenQv
    <2> HIDE DEF inner
    <2> QED BY <2>3, <2>4, <2>5, <2>6
<1> QED BY <1>3, <1>6, <1>7, <1>9, <1>10 DEF Opens

\* Two envelopes one behind the other decode to what the texts mean, one after the other.
THEOREM JoinedTextsDecode == \A a, b \in Seq(Chars) : JoinedDecodes(a, b)
<1> SUFFICES ASSUME NEW a \in Seq(Chars), NEW b \in Seq(Chars)
             PROVE  JoinedDecodes(a, b)
    OBVIOUS
<1> DEFINE na == Len(a)
           nb == Len(b)
           ea == Encode(a)
           eb == Encode(b)
           s  == ea \o eb
           n  == Len(s)
           second == na + 4
           ma == Meaning(a)
           mb == Meaning(b)
<1>1. na \in Nat /\ nb \in Nat /\ Enclosed(ea, a, FitsText(a)) /\ Enclosed(eb, b, FitsText(b))
    BY EncodeEncloses
<1>2. /\ s \in Seq(Token) /\ n = na + nb + 6
      /\ \A i \in 1..(na + 3) : s[i] = ea[i]
      /\ \A i \in 1..(nb + 3) : s[na + 3 + i] = eb[i]
    <2> HIDE DEF ea, eb
    <2>1. ea \in Seq(Token) /\ Len(ea) = na + 3 /\ eb \in Seq(Token) /\ Len(eb) = nb + 3
        BY <1>1 DEF Enclosed
    <2>2. /\ s \in Seq(Token) /\ n = Len(ea) + Len(eb)
          /\ \A i \in 1..(Len(ea) + Len(eb)) :
                s[i] = IF i <= Len(ea) THEN ea[i] ELSE eb[i - Len(ea)]
        BY <2>1, ConcatProperties, Zenon
    <2> HIDE DEF s
    <2>3. \A i \in 1..(na + 3) : i \in 1..(Len(ea) + Len(eb)) /\ i <= Len(ea)
        BY <1>1, <2>1
    <2>4. \A i \in 1..(nb + 3) : /\ na + 3 + i \in 1..(Len(ea) + Len(eb))
                                 /\ ~(na + 3 + i <= Len(ea)) /\ na + 3 + i - Len(ea) = i
        BY <1>1, <2>1
    <2>5. s \in Seq(Token) /\ n = na + nb + 6
        BY <1>1, <2>1, <2>2
    <2>6. \A i \in 1..(na + 3) : s[i] = ea[i]
        BY <2>2, <2>3
    <2>7. \A i \in 1..(nb + 3) : s[na + 3 + i] = eb[i]
        <3> TAKE i \in 1..(nb + 3)
        <3> DEFINE j == na + 3 + i
        <3>1. j \in 1..(Len(ea) + Len(eb)) /\ ~(j <= Len(ea)) /\ j - Len(ea) = i
            BY <2>4
        <3> HIDE DEF j
        <3>2. s[j] = eb[i]
            BY <2>2, <3>1
        <3> QED BY <3>2 DEF j
    <2> QED BY <2>5, <2>6, <2>7
<1> HIDE DEF s
<1>3. /\ Opens(s[1]) /\ \A i \in 2..(na + 3) : ~Opens(s[i])
      /\ Ends(s, 1) # {} /\ First(Ends(s, 1)) = na + 2
      /\ Envelope(s, 1, na + 2) = ma
    <2>1. 0 + Len(a) + 3 <= Len(s) /\ \A i \in 1..(Len(a) + 3) : s[0 + i] = Encode(a)[i]
        BY <1>1, <1>2
    <2>2. s \in Seq(Token) /\ 0 \in Nat
        BY <1>2
    <2> HIDE DEF n, second, ea, eb
    <2>3. /\ Opens(s[0 + 1]) /\ \A i \in 2..(Len(a) + 3) : ~Opens(s[0 + i])
          /\ Ends(s, 0 + 1) # {} /\ First(Ends(s, 0 + 1)) = 0 + Len(a) + 2
          /\ Envelope(s, 0 + 1, 0 + Len(a) + 2) = Meaning(a)
        BY <2>1, <2>2, EnvelopeAt
    <2>4. 0 + 1 = 1 /\ 0 + Len(a) + 2 = na + 2 /\ \A i \in 2..(Len(a) + 3) : 0 + i = i
        BY <1>1
    <2> QED BY <2>3, <2>4
<1>4. /\ Opens(s[second]) /\ \A i \in 2..(nb + 3) : ~Opens(s[na + 3 + i])
      /\ Ends(s, second) # {} /\ First(Ends(s, second)) = na + nb + 5
      /\ Envelope(s, second, na + nb + 5) = mb
    <2> DEFINE off == na + 3
    <2>1. off + Len(b) + 3 <= Len(s) /\ \A i \in 1..(Len(b) + 3) : s[off + i] = Encode(b)[i]
        BY <1>1, <1>2
    <2>2. s \in Seq(Token) /\ off \in Nat
        BY <1>1, <1>2
    <2> HIDE DEF n, second, ea, eb, off
    <2>3. /\ Opens(s[off + 1]) /\ \A i \in 2..(Len(b) + 3) : ~Opens(s[off + i])
          /\ Ends(s, off + 1) # {} /\ First(Ends(s, off + 1)) = off + Len(b) + 2
          /\ Envelope(s, off + 1, off + Len(b) + 2) = Meaning(b)
        BY <2>1, <2>2, EnvelopeAt
    <2>4. off + 1 = second /\ off + Len(b) + 2 = na + nb + 5
        BY <1>1 DEF off, second
    <2> QED BY <2>3, <2>4 DEF off
<1>5. /\ ma \in Seq(Seq(Chars)) /\ mb \in Seq(Seq(Chars))
      /\ mb # Malformed /\ <<>> # Malformed
    <2>1. ma \in Seq(Seq(Chars)) /\ mb \in Seq(Seq(Chars))
        BY PartsAreTexts DEF Meaning
    <2>2. \A t \in Seq(Seq(Chars)) : t # Malformed
        <3> SUFFICES ASSUME Malformed \in Seq(Seq(Chars)) PROVE FALSE
            OBVIOUS
        <3>1. Malformed[1] \in Seq(Chars) /\ Malformed[1] = <<"malformed">>
            BY DEF Malformed
        <3>2. <<"malformed">>[1] \in Chars
            <4>1. Len(<<"malformed">>) = 1
                OBVIOUS
            <4> QED BY <3>1, <4>1, ElementOfSeq
        <3> QED BY <3>2, CharsApart
    <2>3. <<>> \in Seq(Seq(Chars))
        OBVIOUS
    <2> QED BY <2>1, <2>2, <2>3
<1> HIDE DEF ma, mb, ea, eb
\* One turn of the recursion of Decode.
<1> DEFINE Turn(f, from) ==
              IF from > n THEN <<>>
              ELSE IF ~Opens(s[from]) \/ Ends(s, from) = {} THEN Malformed
              ELSE IF f[First(Ends(s, from)) + 2] = Malformed THEN Malformed
              ELSE Envelope(s, from, First(Ends(s, from))) \o f[First(Ends(s, from)) + 2]
           Rec(f) == [from \in 1..(n + 1) |-> Turn(f, from)]
           values == CHOOSE f : f = Rec(f)
           f0 == [from \in 1..(n + 1) |-> IF from = n + 1 THEN <<>>
                                          ELSE IF from = second THEN mb
                                          ELSE IF from = 1 THEN ma \o mb ELSE Malformed]
<1>6. Decode(s) = values[1]
    BY DEF Decode, Opens, Ends, First
<1>7. \A f : Turn(f, n + 1) = <<>>
    BY <1>1, <1>2
<1>8. ASSUME NEW f, f[n + 1] = <<>> PROVE Turn(f, second) = mb
    <2>1. ~(second > n) /\ na + nb + 5 + 2 = n + 1
        BY <1>1, <1>2
    <2>2. f[First(Ends(s, second)) + 2] = <<>>
        BY <1>4, <1>8, <2>1
    <2>3. Turn(f, second) = mb \o <<>>
        <3> HIDE DEF second, n
        <3> QED BY <1>4, <1>5, <2>1, <2>2
    <2>4. mb \o <<>> = mb
        BY <1>5, ConcatEmptySeq
    <2> QED BY <2>3, <2>4
<1>9. ASSUME NEW f, f[second] = mb PROVE Turn(f, 1) = ma \o mb
    <2>1. ~(1 > n) /\ na + 2 + 2 = second
        BY <1>1, <1>2
    <2>2. f[First(Ends(s, 1)) + 2] = mb
        BY <1>3, <1>9, <2>1
    <2> HIDE DEF second, n
    <2> QED BY <1>3, <1>5, <2>1, <2>2
<1>10. ASSUME NEW f, NEW from \in 1..n, from # 1, from # second
       PROVE  Turn(f, from) = Malformed
    <2>1. ~Opens(s[from])
        <3>1. CASE from <= na + 3
            <4>1. from \in 2..(na + 3)
                BY <1>1, <1>10, <3>1
            <4> QED BY <1>3, <4>1
        <3>2. CASE ~(from <= na + 3)
            <4>1. from - (na + 3) \in 2..(nb + 3) /\ na + 3 + (from - (na + 3)) = from
                BY <1>1, <1>2, <1>10, <3>2
            <4> QED BY <1>4, <4>1
        <3> QED BY <3>1, <3>2
    <2>2. ~(from > n)
        BY <1>1, <1>2
    <2> QED BY <2>1, <2>2
<1>11. f0 = Rec(f0)
    <2>1. second \in 1..(n + 1) /\ 1 \in 1..(n + 1) /\ n + 1 \in 1..(n + 1)
          /\ second # n + 1 /\ second # 1 /\ 1 # n + 1
        BY <1>1, <1>2
    <2>2. f0[n + 1] = <<>> /\ f0[second] = mb /\ f0[1] = ma \o mb
        <3> HIDE DEF second, n
        <3> QED BY <2>1
    <2>3. ASSUME NEW from \in 1..(n + 1) PROVE f0[from] = Turn(f0, from)
        <3>1. from = n + 1 \/ from \in 1..n
            <4>1. n \in Nat
                BY <1>1, <1>2
            <4> HIDE DEF n
            <4> QED BY <4>1
        <3>2. from \in 1..n /\ from # 1 /\ from # second => f0[from] = Malformed
            <4>1. from \in 1..n => from # n + 1
                BY <1>1, <1>2
            <4> HIDE DEF n, second
            <4> QED BY <4>1
        <3> HIDE DEF f0, Turn, n, second
        <3> QED BY <1>7, <1>8, <1>9, <1>10, <2>2, <3>1, <3>2
    <2>4. f0 = [from \in 1..(n + 1) |-> f0[from]]
        OBVIOUS
    <2> HIDE DEF f0, Turn, n
    <2> QED BY <2>3, <2>4
<1>12. values = Rec(values)
    <2> HIDE DEF Rec
    <2> QED BY <1>11, Zenon
<1>13. values[1] = ma \o mb
    <2>1. second \in 1..(n + 1) /\ 1 \in 1..(n + 1) /\ n + 1 \in 1..(n + 1)
        BY <1>1, <1>2
    <2> HIDE DEF values, Turn, n, second
    <2>2. \A from \in 1..(n + 1) : values[from] = Turn(values, from)
        BY <1>12
    <2>3. values[n + 1] = <<>>
        BY <1>7, <2>1, <2>2
    <2>4. values[second] = mb
        BY <1>8, <2>1, <2>2, <2>3
    <2> QED BY <1>9, <2>1, <2>2, <2>4
<1> QED BY <1>6, <1>13 DEF JoinedDecodes, s, ea, eb, ma, mb

\* Every list of booleans and every pair of texts a run is given survives its payload
\* (codec.py:36-42, 65-94, 96-117).
THEOREM PayloadsAlwaysRoundTrip == RunSpec => []PayloadsRoundTrip
<1>1. Given => PayloadsRoundTrip
    <2> SUFFICES ASSUME Given PROVE PayloadsRoundTrip
        OBVIOUS
    <2>1. input.kind = "text" => JoinedDecodes(input.first, input.second) /\ OneLine(input.first)
        BY InputKinds, JoinedTextsDecode, TextsStayOnLine
    <2>2. input.kind = "bits" => CoreRoundTrip(input.bits)
        BY InputKinds, CoreVariablesSurvive
    <2> QED BY <2>1, <2>2 DEF PayloadsRoundTrip
<1> QED BY <1>1, InputGiven, PTL

-----------------------------------------------------------------------------
(***************************************************************************)
(* Plans: the replacements in order.                                        *)
(***************************************************************************)
\* What a replacement of a file is, whatever the bounds of a run.
Size == Len(Source)

\* The order of a stable sort by start.
Before(reps, a, b) ==
    reps[a].start < reps[b].start \/ (reps[a].start = reps[b].start /\ a < b)

\* p lists m of the replacements in that order.
Orders(reps, p, m) == \A i, j \in 1..m : i < j => Before(reps, p[i], p[j])

\* It is a strict total order.
LEMMA BeforeOrders ==
    ASSUME NEW reps \in Seq(Replacements)
    PROVE  LET n == Len(reps) IN
           /\ \A a, b \in 1..n : a = b \/ Before(reps, a, b) \/ Before(reps, b, a)
           /\ \A a, b \in 1..n : ~(Before(reps, a, b) /\ Before(reps, b, a))
           /\ \A a \in 1..n : ~Before(reps, a, a)
           /\ \A a, b, c \in 1..n :
                 Before(reps, a, b) /\ Before(reps, b, c) => Before(reps, a, c)
<1> DEFINE n == Len(reps)
<1>1. \A a \in 1..n : reps[a].start \in Int
    <2> TAKE a \in 1..n
    <2>1. reps[a] \in Replacements
        OBVIOUS
    <2> QED BY <2>1 DEF Replacements
<1>2. n \in Nat
    OBVIOUS
<1> HIDE DEF n
<1>3. /\ \A a, b \in 1..n : a = b \/ Before(reps, a, b) \/ Before(reps, b, a)
      /\ \A a, b \in 1..n : ~(Before(reps, a, b) /\ Before(reps, b, a))
      /\ \A a \in 1..n : ~Before(reps, a, a)
    BY <1>1, <1>2 DEF Before
<1>4. ASSUME NEW a \in 1..n, NEW b \in 1..n, NEW c \in 1..n,
             Before(reps, a, b), Before(reps, b, c)
      PROVE  Before(reps, a, c)
    <2>1. reps[a].start \in Int /\ reps[b].start \in Int /\ reps[c].start \in Int
        BY <1>1
    <2>2. a \in Int /\ b \in Int /\ c \in Int
        BY <1>2
    <2> QED BY <1>4, <2>1, <2>2 DEF Before
<1> QED BY <1>3, <1>4 DEF n

\* Every list of replacements can be put in order: each is inserted among those before it.
LEMMA OrderExists ==
    ASSUME NEW reps \in Seq(Replacements)
    PROVE  \E p \in [DOMAIN reps -> DOMAIN reps] : Orders(reps, p, Len(reps))
<1> DEFINE n == Len(reps)
           S == {m \in 0..n : \E p \in [1..m -> 1..m] : Orders(reps, p, m)}
<1>1. n \in Nat /\ DOMAIN reps = 1..n
    OBVIOUS
<1>2. 0 \in S
    <2> DEFINE p == [i \in 1..0 |-> i]
    <2>1. p \in [1..0 -> 1..0] /\ 0 \in 0..n
        BY <1>1
    <2>2. Orders(reps, p, 0)
        BY DEF Orders
    <2> QED BY <2>1, <2>2
<1>3. ASSUME NEW l \in 1..n, l - 1 \in S PROVE l \in S
    <2> DEFINE m == l - 1
    <2>1. m \in Nat /\ l = m + 1 /\ l \in 1..n /\ l \in 0..n /\ \A i \in 1..m : i \in 1..n /\ i \in 1..l
        BY <1>1
    <2>2. PICK p \in [1..m -> 1..m] : Orders(reps, p, m)
        BY <1>3
    <2>3. \A i \in 1..m : p[i] \in 1..m /\ p[i] \in 1..n /\ p[i] # l
        BY <2>1
    <2> HIDE DEF m, n
    <2> DEFINE K == {i \in 1..m : Before(reps, l, p[i])} \cup {l}
    <2>4. PICK k \in K : \A i \in K : k <= i
        <3>1. K \subseteq Nat /\ K # {}
            BY <2>1
        <3> HIDE DEF K
        <3> QED BY <3>1, FirstOf, Zenon
    <2>5. k \in 1..l /\ \A i \in 1..m : i < k => ~Before(reps, l, p[i])
        <3>1. k \in 1..l
            BY <2>1
        <3>2. \A i \in 1..m : i < k => i \notin K
            <4> HIDE DEF K
            <4> QED BY <2>1, <2>4, <3>1
        <3> QED BY <3>1, <3>2
    <2>6. k # l => k \in 1..m /\ Before(reps, l, p[k])
        OBVIOUS
    <2> HIDE DEF K
    <2> DEFINE q == [i \in 1..l |-> IF i < k THEN p[i] ELSE IF i = k THEN l ELSE p[i - 1]]
    <2>7. ASSUME NEW i \in 1..l
          PROVE  /\ i < k => i \in 1..m /\ q[i] = p[i]
                 /\ i = k => q[i] = l
                 /\ i > k => i - 1 \in 1..m /\ i - 1 >= k /\ q[i] = p[i - 1]
        BY <2>1, <2>5
    <2>8. q \in [1..l -> 1..l]
        <3>1. \A i \in 1..l : (IF i < k THEN p[i] ELSE IF i = k THEN l ELSE p[i - 1]) \in 1..l
            <4> TAKE i \in 1..l
            <4>1. i < k \/ i = k \/ i > k
                BY <2>1, <2>5
            <4>2. /\ i < k => i \in 1..m
                  /\ i > k => i - 1 \in 1..m
                BY <2>1, <2>5
            <4>3. l \in 1..l
                BY <2>1
            <4>4. CASE i < k
                BY <2>1, <2>3, <4>2, <4>4
            <4>5. CASE i = k
                BY <2>5, <4>3, <4>5
            <4>6. CASE i > k
                BY <2>1, <2>3, <2>5, <4>2, <4>6
            <4> QED BY <4>1, <4>4, <4>5, <4>6
        <3> QED BY <3>1
    <2> HIDE DEF q
    <2>9. ASSUME NEW i \in 1..l, NEW j \in 1..l, i < j PROVE Before(reps, q[i], q[j])
        <3>1. i \in Int /\ j \in Int /\ k \in Int
            BY <2>1, <2>5
        <3>2. CASE j < k
            <4>1. i \in 1..m /\ j \in 1..m /\ q[i] = p[i] /\ q[j] = p[j]
                BY <2>7, <2>9, <3>1, <3>2
            <4> QED BY <2>2, <2>9, <4>1 DEF Orders
        <3>3. CASE j = k
            <4>1. i < k /\ i \in 1..m /\ q[i] = p[i] /\ q[j] = l
                BY <2>7, <2>9, <3>1, <3>3
            <4>2. ~Before(reps, l, p[i]) /\ p[i] \in 1..n /\ p[i] # l
                BY <2>3, <2>5, <4>1
            <4> QED BY <2>1, <4>1, <4>2, BeforeOrders DEF n
        <3>4. CASE j > k /\ i < k
            <4>1. i \in 1..m /\ j - 1 \in 1..m /\ i < j - 1 /\ q[i] = p[i] /\ q[j] = p[j - 1]
                BY <2>7, <2>9, <3>1, <3>4
            <4> QED BY <2>2, <4>1 DEF Orders
        <3>5. CASE j > k /\ i = k
            <4>1. j - 1 \in 1..m /\ j - 1 >= k /\ q[i] = l /\ q[j] = p[j - 1] /\ k # l
                BY <2>1, <2>7, <2>9, <3>1, <3>5
            <4>2. k \in 1..m /\ Before(reps, l, p[k])
                BY <2>6, <4>1
            <4>3. CASE j - 1 = k
                BY <4>1, <4>2, <4>3
            <4>4. CASE j - 1 # k
                <5>1. k < j - 1
                    BY <3>1, <4>1, <4>4
                <5>2. Before(reps, p[k], p[j - 1])
                    BY <2>2, <4>1, <4>2, <5>1 DEF Orders
                <5>3. p[k] \in 1..n /\ p[j - 1] \in 1..n /\ l \in 1..n
                    BY <2>1, <2>3, <4>1, <4>2
                <5> QED BY <4>1, <4>2, <5>2, <5>3, BeforeOrders DEF n
            <4> QED BY <4>3, <4>4
        <3>6. CASE i > k
            <4>1. j > k
                BY <2>9, <3>1, <3>6
            <4>2. i - 1 \in 1..m /\ j - 1 \in 1..m /\ q[i] = p[i - 1] /\ q[j] = p[j - 1]
                BY <2>7, <3>6, <4>1
            <4>3. i - 1 < j - 1
                BY <2>9, <3>1
            <4> QED BY <2>2, <4>2, <4>3 DEF Orders
        <3> QED BY <2>9, <3>1, <3>2, <3>3, <3>4, <3>5, <3>6
    <2>10. Orders(reps, q, l)
        BY <2>9 DEF Orders
    <2> QED BY <2>1, <2>8, <2>10 DEF n
<1>4. n \in S
    <2> HIDE DEF S
    <2>1. \A i \in 0..n : i \in S
        BY <1>1, <1>2, <1>3, CountUp, Zenon
    <2> QED BY <1>1, <2>1
<1> QED BY <1>1, <1>4

\* p lists every replacement once, in order, and o is what it lists.
Listed(reps, o, p) ==
    /\ p \in [1..Len(reps) -> 1..Len(reps)]
    /\ Orders(reps, p, Len(reps))
    /\ \A k \in 1..Len(reps) : \E i \in 1..Len(reps) : p[i] = k
    /\ o \in Seq(Replacements) /\ Len(o) = Len(reps)
    /\ \A i \in 1..Len(reps) : o[i] = reps[p[i]]

\* So does Ordered.
LEMMA OrderedLists ==
    ASSUME NEW reps \in Seq(Replacements)
    PROVE  \E p : Listed(reps, Ordered(reps), p)
<1> DEFINE n == Len(reps)
           D == DOMAIN reps
           Sorts(p) == \A i, j \in DOMAIN p : i < j =>
               \/ reps[p[i]].start < reps[p[j]].start
               \/ reps[p[i]].start = reps[p[j]].start /\ p[i] < p[j]
           order == CHOOSE p \in [D -> D] : Sorts(p)
<1>1. n \in Nat /\ D = 1..n
    OBVIOUS
<1>2. \A p \in [D -> D] : Sorts(p) <=> Orders(reps, p, n)
    <2> TAKE p \in [D -> D]
    <2>1. DOMAIN p = 1..n
        BY <1>1
    <2> HIDE DEF D
    <2> QED BY <2>1 DEF Orders, Before
<1>3. \E p \in [D -> D] : Sorts(p)
    <2> HIDE DEF Sorts
    <2> QED BY <1>2, OrderExists
<1>4. order \in [D -> D] /\ Sorts(order)
    <2> HIDE DEF Sorts, D
    <2> QED BY <1>3, Zenon
<1>5. Ordered(reps) = [i \in D |-> reps[order[i]]]
    BY DEF Ordered
<1> HIDE DEF order, Sorts, D
<1>6. order \in [1..n -> 1..n] /\ Orders(reps, order, n)
    BY <1>1, <1>2, <1>4
<1>7. \A k \in 1..n : \E i \in 1..n : order[i] = k
    <2> DEFINE N == 1..n
    <2>1. \A a, b \in N : order[a] = order[b] => a = b
        <3> SUFFICES ASSUME NEW a \in 1..n, NEW b \in 1..n, order[a] = order[b], a # b
                     PROVE  FALSE
            OBVIOUS
        <3>1. order[a] \in 1..n /\ ~Before(reps, order[a], order[a])
            BY <1>6, BeforeOrders
        <3>2. a < b \/ b < a
            BY <1>1
        <3>3. Before(reps, order[a], order[b]) \/ Before(reps, order[b], order[a])
            BY <1>6, <3>2 DEF Orders
        <3> QED BY <3>1, <3>3
    <2>2. order \in Injection(N, N)
        BY <1>6, <2>1 DEF Injection, IsInjective
    <2>3. IsFiniteSet(N)
        BY <1>1, FS_Interval
    <2>4. order \in Surjection(N, N)
        BY <2>2, <2>3, FS_Injection
    <2> QED BY <2>4 DEF Surjection
<1>8. /\ Ordered(reps) \in Seq(Replacements) /\ Len(Ordered(reps)) = n
      /\ \A i \in 1..n : Ordered(reps)[i] = reps[order[i]]
    <2>1. Ordered(reps) = [i \in 1..n |-> reps[order[i]]]
        BY <1>1, <1>5
    <2>2. \A i \in 1..n : reps[order[i]] \in Replacements
        BY <1>6
    <2> QED BY <1>1, <2>1, <2>2
<1> QED BY <1>6, <1>7, <1>8 DEF Listed

-----------------------------------------------------------------------------
(***************************************************************************)
(* Plans: what is accepted, and what a plan writes.                          *)
(***************************************************************************)
\* The cursor moves on through the file.
LEMMA CursorMoves ==
    ASSUME NEW o \in Seq(Replacements), Valid(Size, o)
    PROVE  /\ Size \in Nat
           /\ \A i \in 0..Len(o) : Cursor(o, i) \in 0..Size
           /\ \A i \in 1..Len(o) : /\ o[i].start \in 0..Size /\ o[i].data \in Seq(Byte)
                                   /\ Cursor(o, i - 1) <= o[i].start /\ o[i].start <= Cursor(o, i)
                                   /\ Cursor(o, i) = o[i].end /\ i - 1 \in 0..Len(o)
<1>1. Size \in Nat /\ Len(o) \in Nat
    BY InputsOK DEF Size
<1>2. ASSUME NEW i \in 1..Len(o)
      PROVE  /\ o[i].start \in 0..Size /\ o[i].data \in Seq(Byte) /\ o[i].end \in 0..Size
             /\ Cursor(o, i - 1) <= o[i].start /\ o[i].start <= o[i].end
             /\ Cursor(o, i) = o[i].end
    <2>1. o[i] \in Replacements
        OBVIOUS
    <2>2. /\ Cursor(o, i - 1) <= o[i].start /\ o[i].start <= o[i].end /\ o[i].end <= Size
        BY DEF Valid
    <2>3. o[i].start \in 0..Size /\ o[i].data \in Seq(Byte) /\ o[i].end \in Nat
        BY <1>1, <2>1, InputsOK DEF Replacements, Size
    <2>4. i # 0
        BY <1>1
    <2> QED BY <1>1, <2>2, <2>3, <2>4 DEF Cursor
<1>3. \A i \in 0..Len(o) : Cursor(o, i) \in 0..Size
    <2> TAKE i \in 0..Len(o)
    <2>1. CASE i = 0
        BY <1>1, <2>1 DEF Cursor
    <2>2. CASE i # 0
        <3>1. i \in 1..Len(o)
            BY <1>1, <2>2
        <3> QED BY <1>2, <3>1
    <2> QED BY <2>1, <2>2
<1>4. \A i \in 1..Len(o) : i - 1 \in 0..Len(o)
    BY <1>1
<1> QED BY <1>1, <1>2, <1>3, <1>4

\* Replacements whose bytes are apart are accepted, in whatever order they come.
LEMMA SeparateAccepted ==
    ASSUME NEW reps \in Seq(Replacements), Separate(Size, reps)
    PROVE  ~Refused(Size, reps)
<1> DEFINE o == Ordered(reps)
           n == Len(reps)
<1>1. PICK p : Listed(reps, o, p)
    BY OrderedLists
<1> HIDE DEF o
<1>2. n \in Nat /\ Len(o) = n /\ DOMAIN o = 1..n
    BY <1>1 DEF Listed
<1>3. ASSUME NEW k \in 1..n
      PROVE  /\ reps[k].start \in Nat /\ reps[k].end \in Nat
             /\ reps[k].start < reps[k].end /\ reps[k].end <= Size
    <2>1. reps[k] \in Replacements
        OBVIOUS
    <2> QED BY <2>1 DEF Replacements, Separate
<1>4. \A i \in 1..n : p[i] \in 1..n /\ o[i] = reps[p[i]]
    BY <1>1 DEF Listed
<1>5. ASSUME NEW i \in 1..n PROVE Cursor(o, i - 1) <= o[i].start
    <2>1. CASE i = 1
        BY <1>3, <1>4, <2>1 DEF Cursor
    <2>2. CASE i # 1
        <3> DEFINE a == p[i - 1]
                   b == p[i]
        <3>1. i - 1 \in 1..n /\ i - 1 < i /\ i - 1 # 0
            BY <1>2, <2>2
        <3>2. a \in 1..n /\ b \in 1..n /\ o[i - 1] = reps[a] /\ o[i] = reps[b]
            BY <1>4, <3>1
        <3>3. Before(reps, a, b)
            BY <1>1, <3>1 DEF Listed, Orders
        <3> HIDE DEF a, b
        <3>4. a # b
            BY <3>2, <3>3, BeforeOrders
        <3>5. Apart(reps[a], reps[b])
            BY <3>2, <3>4 DEF Separate
        <3>6. reps[a].start <= reps[b].start
            BY <1>3, <3>2, <3>3 DEF Before
        <3>7. reps[a].end <= reps[b].start
            BY <1>3, <3>2, <3>5, <3>6 DEF Apart
        <3> QED BY <3>1, <3>2, <3>7 DEF Cursor
    <2> QED BY <2>1, <2>2
<1>6. ASSUME NEW i \in 1..n PROVE o[i].start <= o[i].end /\ o[i].end <= Size
    BY <1>3, <1>4
<1>7. Valid(Size, o)
    BY <1>2, <1>5, <1>6 DEF Valid
<1> QED BY <1>7 DEF Refused, o

\* Function by function, element by element.
Mapped(f, s) == [k \in DOMAIN s |-> f[s[k]]]

LEMMA MapAppend ==
    ASSUME NEW S, NEW T, NEW f \in [S -> T], NEW s \in Seq(S)
    PROVE  /\ Mapped(f, s) \in Seq(T) /\ Len(Mapped(f, s)) = Len(s)
           /\ \A x \in S : Mapped(f, Append(s, x)) = Append(Mapped(f, s), f[x])
<1> DEFINE n == Len(s)
           u == Mapped(f, s)
<1>1. n \in Nat /\ \A k \in 1..n : s[k] \in S
    OBVIOUS
<1>2. u \in Seq(T) /\ Len(u) = n /\ \A k \in 1..n : u[k] = f[s[k]]
    <2>1. u = [k \in 1..n |-> f[s[k]]]
        BY DEF Mapped
    <2>2. \A k \in 1..n : f[s[k]] \in T
        BY <1>1
    <2> HIDE DEF u
    <2> QED BY <1>1, <2>1, <2>2
<1>3. ASSUME NEW x \in S PROVE Mapped(f, Append(s, x)) = Append(u, f[x])
    <2> DEFINE more == Append(s, x)
               t == Mapped(f, more)
               v == Append(u, f[x])
    <2>1. /\ more \in Seq(S) /\ Len(more) = n + 1 /\ more[n + 1] = x
          /\ \A k \in 1..n : more[k] = s[k]
        BY AppendProperties
    <2> HIDE DEF more
    <2>2. t \in Seq(T) /\ Len(t) = n + 1 /\ \A k \in 1..(n + 1) : t[k] = f[more[k]]
        <3>1. t = [k \in 1..(n + 1) |-> f[more[k]]]
            BY <2>1 DEF Mapped
        <3>2. \A k \in 1..(n + 1) : more[k] \in S
            BY <2>1
        <3>3. \A k \in 1..(n + 1) : f[more[k]] \in T
            BY <3>2
        <3> HIDE DEF t
        <3> QED BY <1>1, <3>1, <3>3
    <2> HIDE DEF t, u
    <2>3. /\ v \in Seq(T) /\ Len(v) = n + 1 /\ v[n + 1] = f[x]
          /\ \A k \in 1..n : v[k] = u[k]
        <3>1. f[x] \in T
            OBVIOUS
        <3> QED BY <1>2, <3>1, AppendProperties
    <2> HIDE DEF v
    <2>4. \A k \in 1..Len(t) : t[k] = v[k]
        <3> TAKE k \in 1..Len(t)
        <3>1. k \in 1..n \/ k = n + 1
            BY <1>1, <2>2
        <3> QED BY <1>1, <1>2, <2>1, <2>2, <2>3, <3>1
    <2>5. t = v
        BY <2>2, <2>3, <2>4, SeqEqual
    <2> QED BY <2>5 DEF t, v, more
<1> QED BY <1>2, <1>3

\* The operations of plans, and what one writes.
Op     == {x \in [from : 0..Size, to : 0..Size, data : Seq(Byte)] : x.from <= x.to}
Cut(x) == SubSeq(Source, x.from + 1, x.to) \o x.data

LEMMA CutFacts ==
    ASSUME NEW x \in Op
    PROVE  Cut(x) \in Seq(Byte) /\ Len(Cut(x)) = (x.to - x.from) + Len(x.data)
<1> DEFINE part == SubSeq(Source, x.from + 1, x.to)
<1>1. /\ x.from \in Nat /\ x.to \in Nat /\ x.from <= x.to /\ x.to <= Len(Source)
      /\ x.data \in Seq(Byte) /\ Source \in Seq(Byte) /\ Len(Source) \in Nat
    BY InputsOK DEF Op, Size
<1>2. \A i \in (x.from + 1)..x.to : Source[i] \in Byte
    BY <1>1
<1>3. part \in Seq(Byte) /\ Len(part) = x.to - x.from
    <2>1. /\ part \in Seq(Byte)
          /\ Len(part) = IF x.from + 1 <= x.to THEN x.to - (x.from + 1) + 1 ELSE 0
        BY <1>1, <1>2, SubSeqProperties
    <2> HIDE DEF part
    <2> QED BY <1>1, <2>1
<1> HIDE DEF part
<1>4. Cut(x) = part \o x.data
    BY DEF Cut, part
<1> DEFINE d == x.data
<1>5. d \in Seq(Byte) /\ Len(part) = x.to - x.from /\ Cut(x) = part \o d
    BY <1>1, <1>3, <1>4
<1> HIDE DEF d
<1>6. part \o d \in Seq(Byte) /\ Len(part \o d) = Len(part) + Len(d)
    BY <1>3, <1>5, ConcatProperties
<1> QED BY <1>5, <1>6 DEF d

\* A plan writes what its operations write, one after the other.
LEMMA WrittenFacts ==
    /\ Written(Source, <<>>) = <<>>
    /\ \A plan \in Seq(Op) : Written(Source, plan) \in Seq(Byte)
    /\ \A plan \in Seq(Op), x \in Op :
          Written(Source, Append(plan, x)) = Written(Source, plan) \o Cut(x)
<1> DEFINE f == [x \in Op |-> Cut(x)]
<1>1. f \in [Op -> Seq(Byte)] /\ \A x \in Op : f[x] = Cut(x) /\ Cut(x) \in Seq(Byte)
    BY CutFacts
<1> HIDE DEF f
<1>2. ASSUME NEW plan \in Seq(Op) PROVE Written(Source, plan) = FlattenSeq(Mapped(f, plan))
    <2>1. \A k \in DOMAIN plan : f[plan[k]] = Cut(plan[k])
        BY <1>1
    <2>2. Mapped(f, plan) = [k \in DOMAIN plan |-> Cut(plan[k])]
        BY <2>1 DEF Mapped
    <2> QED BY <2>2 DEF Written, Cut
<1>3. Written(Source, <<>>) = <<>>
    <2>1. <<>> \in Seq(Op) /\ Mapped(f, <<>>) = <<>>
        BY DEF Mapped
    <2> QED BY <1>2, <2>1, FlattenFacts
<1>4. ASSUME NEW plan \in Seq(Op) PROVE Written(Source, plan) \in Seq(Byte)
    <2>1. Mapped(f, plan) \in Seq(Seq(Byte))
        BY <1>1, MapAppend
    <2> QED BY <1>2, <2>1, FlattenFacts
<1>5. ASSUME NEW plan \in Seq(Op), NEW x \in Op
      PROVE  Written(Source, Append(plan, x)) = Written(Source, plan) \o Cut(x)
    <2>1. Mapped(f, plan) \in Seq(Seq(Byte))
          /\ Mapped(f, Append(plan, x)) = Append(Mapped(f, plan), f[x])
        <3> DEFINE T == Seq(Byte)
        <3>1. f \in [Op -> T]
            BY <1>1
        <3> HIDE DEF T
        <3>2. Mapped(f, plan) \in Seq(T)
              /\ \A y \in Op : Mapped(f, Append(plan, y)) = Append(Mapped(f, plan), f[y])
            BY <3>1, MapAppend
        <3> QED BY <3>2 DEF T
    <2>2. Append(plan, x) \in Seq(Op)
        OBVIOUS
    <2>3. f[x] = Cut(x) /\ Cut(x) \in Seq(Byte)
        BY <1>1
    <2>4. FlattenSeq(Append(Mapped(f, plan), Cut(x))) = FlattenSeq(Mapped(f, plan)) \o Cut(x)
        BY <2>1, <2>3, FlattenFacts
    <2> QED BY <1>2, <2>1, <2>2, <2>3, <2>4
<1> QED BY <1>3, <1>4, <1>5

\* A plan writes as many bytes as destination_size says.
LEMMA SizeAnnounced ==
    ASSUME NEW plan \in Seq(Op)
    PROVE  DestinationSize(plan) = Len(Written(Source, plan))
<1> DEFINE n == Len(plan)
           cuts == [k \in DOMAIN plan |-> Cut(plan[k])]
           Rec(f) == [k \in 0..n |-> IF k = 0 THEN 0
                         ELSE f[k - 1] + (plan[k].to - plan[k].from) + Len(plan[k].data)]
           size == CHOOSE f : f = Rec(f)
<1>1. n \in Nat /\ DOMAIN plan = 1..n /\ \A k \in 1..n : plan[k] \in Op
    OBVIOUS
<1>2. cuts \in Seq(Seq(Byte)) /\ Len(cuts) = n /\ \A k \in 1..n : cuts[k] = Cut(plan[k])
    <2>1. cuts = [k \in 1..n |-> Cut(plan[k])]
        BY <1>1
    <2>2. \A k \in 1..n : Cut(plan[k]) \in Seq(Byte)
        BY <1>1, CutFacts
    <2> HIDE DEF cuts
    <2> QED BY <1>1, <2>1, <2>2
<1>3. Written(Source, plan) = FlattenSeq(cuts)
    BY DEF Written, Cut
<1> HIDE DEF cuts
<1>4. PICK flat \in [0..n -> Seq(Byte)] : Flattens(flat, cuts)
    BY <1>2, FlattensExists
<1>5. FlattenSeq(cuts) = flat[n]
    BY <1>2, <1>4, FlattenIs
<1> DEFINE f0 == [k \in 0..n |-> Len(flat[k])]
<1>6. ASSUME NEW k \in 1..n
      PROVE  /\ Len(flat[k]) = Len(flat[k - 1]) + (plan[k].to - plan[k].from) + Len(plan[k].data)
    <2>1. flat[k] = flat[k - 1] \o Cut(plan[k]) /\ flat[k - 1] \in Seq(Byte)
        <3>1. k - 1 \in 0..n
            BY <1>1
        <3> QED BY <1>2, <1>4, <3>1 DEF Flattens
    <2>2. Cut(plan[k]) \in Seq(Byte)
          /\ Len(Cut(plan[k])) = (plan[k].to - plan[k].from) + Len(plan[k].data)
        BY <1>1, CutFacts
    <2>3. Len(flat[k]) = Len(flat[k - 1]) + Len(Cut(plan[k]))
        BY <2>1, <2>2, ConcatProperties
    <2>4. plan[k].to \in Int /\ plan[k].from \in Int /\ Len(plan[k].data) \in Nat
          /\ Len(flat[k - 1]) \in Nat
        BY <1>1, <2>1 DEF Op
    <2> QED BY <2>2, <2>3, <2>4
<1>7. Len(flat[0]) = 0
    BY <1>4 DEF Flattens
<1>8. f0 = Rec(f0)
    <2>1. ASSUME NEW k \in 0..n
          PROVE  f0[k] = IF k = 0 THEN 0
                         ELSE f0[k - 1] + (plan[k].to - plan[k].from) + Len(plan[k].data)
        <3>1. CASE k = 0
            BY <1>7, <3>1
        <3>2. CASE k # 0
            <4>1. k \in 1..n /\ k - 1 \in 0..n
                BY <1>1, <3>2
            <4>2. f0[k] = Len(flat[k]) /\ f0[k - 1] = Len(flat[k - 1])
                BY <4>1
            <4> QED BY <1>6, <3>2, <4>1, <4>2
        <3> QED BY <3>1, <3>2
    <2>2. f0 = [k \in 0..n |-> f0[k]]
        OBVIOUS
    <2> HIDE DEF f0
    <2> QED BY <2>1, <2>2
<1>9. size = Rec(size)
    <2> HIDE DEF Rec, f0
    <2> QED BY <1>8, Zenon
<1>10. DestinationSize(plan) = size[n]
    BY DEF DestinationSize
<1> HIDE DEF size
<1> DEFINE S == {k \in 0..n : size[k] = Len(flat[k])}
<1>11. 0 \in S
    BY <1>1, <1>7, <1>9
<1>12. ASSUME NEW k \in 1..n, k - 1 \in S PROVE k \in S
    <2>1. size[k] = size[k - 1] + (plan[k].to - plan[k].from) + Len(plan[k].data)
          /\ k \in 0..n
        <3>1. k \in 0..n /\ k # 0
            BY <1>1
        <3>2. size[k] = IF k = 0 THEN 0
                        ELSE size[k - 1] + (plan[k].to - plan[k].from) + Len(plan[k].data)
            BY <1>9, <3>1
        <3> QED BY <3>1, <3>2
    <2> QED BY <1>6, <1>12, <2>1
<1>13. \A k \in 0..n : k \in S
    <2> HIDE DEF S
    <2> QED BY <1>1, <1>11, <1>12, CountUp, Zenon
<1>14. size[n] = Len(flat[n])
    BY <1>1, <1>13
<1> QED BY <1>3, <1>5, <1>10, <1>14

\* The spans of a plan are in order and end by c.
InOrder(plan, c) ==
    \A i \in DOMAIN plan : plan[i].from < plan[i].to =>
        /\ plan[i].to <= c
        /\ \A j \in DOMAIN plan : j < i /\ plan[j].from < plan[j].to => plan[j].to <= plan[i].from

\* One operation more.
LEMMA OneMore ==
    ASSUME NEW plan \in Seq(Op), NEW x \in Op, NEW c \in Nat, NEW d \in Nat,
           InOrder(plan, c), c <= d, x.from < x.to => c <= x.from /\ x.to <= d
    PROVE  /\ Append(plan, x) \in Seq(Op)
           /\ Written(Source, Append(plan, x)) = Written(Source, plan) \o Cut(x)
           /\ InOrder(Append(plan, x), d)
<1> DEFINE n == Len(plan)
           more == Append(plan, x)
<1>1. /\ n \in Nat /\ more \in Seq(Op) /\ DOMAIN more = 1..(n + 1) /\ more[n + 1] = x
      /\ DOMAIN plan = 1..n /\ \A k \in 1..n : more[k] = plan[k]
    OBVIOUS
<1>2. \A k \in 1..(n + 1) : k \in 1..n \/ k = n + 1
    BY <1>1
<1>3. \A k \in 1..n : plan[k].to \in Int /\ plan[k].from \in Int
    <2> TAKE k \in 1..n
    <2>1. plan[k] \in Op
        OBVIOUS
    <2> QED BY <2>1 DEF Op
<1>4. x.from \in Int /\ x.to \in Int
    BY DEF Op
<1> HIDE DEF more, n
<1>5. ASSUME NEW i \in 1..(n + 1), more[i].from < more[i].to
      PROVE  /\ more[i].to <= d
             /\ \A j \in 1..(n + 1) :
                   j < i /\ more[j].from < more[j].to => more[j].to <= more[i].from
    <2>1. CASE i \in 1..n
        <3>1. plan[i].from < plan[i].to /\ more[i] = plan[i]
            BY <1>1, <1>5, <2>1
        <3>2. plan[i].to <= c
            BY <1>1, <2>1, <3>1 DEF InOrder
        <3>3. more[i].to <= d
            BY <1>3, <2>1, <3>1, <3>2
        <3>4. ASSUME NEW j \in 1..(n + 1), j < i, more[j].from < more[j].to
              PROVE  more[j].to <= more[i].from
            <4>1. j \in 1..n
                BY <1>1, <2>1, <3>4
            <4> QED BY <1>1, <2>1, <3>1, <3>4, <4>1 DEF InOrder
        <3> QED BY <3>3, <3>4
    <2>2. CASE i = n + 1
        <3>1. more[i] = x /\ c <= x.from /\ x.to <= d
            BY <1>1, <1>5, <2>2
        <3>2. ASSUME NEW j \in 1..(n + 1), j < i, more[j].from < more[j].to
              PROVE  more[j].to <= more[i].from
            <4>1. j \in 1..n
                BY <1>1, <2>2, <3>2
            <4>2. plan[j].to <= c /\ more[j] = plan[j]
                BY <1>1, <3>2, <4>1 DEF InOrder
            <4> QED BY <1>3, <1>4, <3>1, <4>1, <4>2
        <3> QED BY <3>1, <3>2
    <2> QED BY <1>2, <2>1, <2>2
<1>6. InOrder(more, d)
    BY <1>1, <1>5 DEF InOrder
<1> QED BY <1>1, <1>6, WrittenFacts DEF more

\* A span that is kept, empty or not.
LEMMA AddSpan ==
    ASSUME NEW plan \in Seq(Op), NEW c \in 0..Size, NEW to \in 0..Size, c <= to, InOrder(plan, c)
    PROVE  /\ plan \o Span(c, to) \in Seq(Op)
           /\ Span(c, to) \in Seq(Op)
           /\ SubSeq(Source, c + 1, to) \in Seq(Byte)
           /\ Written(Source, plan \o Span(c, to)) =
                 Written(Source, plan) \o SubSeq(Source, c + 1, to)
           /\ InOrder(plan \o Span(c, to), to)
<1> DEFINE part == SubSeq(Source, c + 1, to)
<1>1. Size \in Nat /\ Size = Len(Source) /\ Source \in Seq(Byte) /\ Written(Source, plan) \in Seq(Byte)
    BY InputsOK, WrittenFacts DEF Size
<1>2. part \in Seq(Byte) /\ (~(c < to) => part = <<>>)
    <2>1. \A i \in (c + 1)..to : Source[i] \in Byte
        BY <1>1
    <2>2. c + 1 \in Int /\ to \in Int
        BY <1>1
    <2>3. part \in Seq(Byte)
        BY <2>1, <2>2, SubSeqProperties
    <2>4. ~(c < to) => to < c + 1
        BY <1>1
    <2> QED BY <2>2, <2>3, <2>4, SubSeqEmpty
<1> HIDE DEF part
<1>3. CASE c < to
    <2> DEFINE x == [from |-> c, to |-> to, data |-> <<>>]
    <2>1. x \in Op
        <3>1. <<>> \in Seq(Byte)
            OBVIOUS
        <3> QED BY <1>1, <3>1 DEF Op
    <2>2. x.from = c /\ x.to = to /\ x.data = <<>>
        OBVIOUS
    <2>3. Span(c, to) = <<x>>
        BY <1>3 DEF Span
    <2> HIDE DEF x
    <2>4. plan \o Span(c, to) = Append(plan, x) /\ Span(c, to) \in Seq(Op)
        BY <2>1, <2>3, AppendIsConcat
    <2>5. Cut(x) = part
        <3>1. part \o <<>> = part
            BY <1>2, ConcatEmptySeq
        <3> QED BY <2>2, <3>1 DEF Cut, part
    <2>6. c \in Nat /\ to \in Nat /\ (x.from < x.to => c <= x.from /\ x.to <= to)
        BY <1>1, <2>2
    <2>7. /\ Append(plan, x) \in Seq(Op)
          /\ Written(Source, Append(plan, x)) = Written(Source, plan) \o Cut(x)
          /\ InOrder(Append(plan, x), to)
        BY <2>1, <2>6, OneMore
    <2> QED BY <1>2, <2>4, <2>5, <2>7 DEF part
<1>4. CASE ~(c < to)
    <2>1. Span(c, to) = <<>> /\ part = <<>> /\ to = c
        <3>1. to = c
            BY <1>1, <1>4
        <3> QED BY <1>2, <1>4, <3>1 DEF Span
    <2>2. plan \o <<>> = plan /\ Written(Source, plan) \o <<>> = Written(Source, plan)
        BY <1>1, ConcatEmptySeq
    <2>3. <<>> \in Seq(Op)
        OBVIOUS
    <2> QED BY <1>2, <2>1, <2>2, <2>3 DEF part
<1> QED BY <1>3, <1>4

\* Data that is put in, if any.
LEMMA AddData ==
    ASSUME NEW plan \in Seq(Op), NEW d \in Seq(Byte), NEW c \in Nat, InOrder(plan, c)
    PROVE  /\ plan \o Data(d) \in Seq(Op)
           /\ Data(d) \in Seq(Op)
           /\ Written(Source, plan \o Data(d)) = Written(Source, plan) \o d
           /\ InOrder(plan \o Data(d), c)
<1>1. Size \in Nat /\ Source \in Seq(Byte) /\ Written(Source, plan) \in Seq(Byte)
    BY InputsOK, WrittenFacts DEF Size
<1>2. CASE d # <<>>
    <2> DEFINE x == [from |-> 0, to |-> 0, data |-> d]
    <2>1. x \in Op
        BY <1>1 DEF Op
    <2>2. x.from = 0 /\ x.to = 0 /\ x.data = d
        OBVIOUS
    <2>3. Data(d) = <<x>>
        BY <1>2 DEF Data
    <2> HIDE DEF x
    <2>4. plan \o Data(d) = Append(plan, x) /\ Data(d) \in Seq(Op)
        BY <2>1, <2>3, AppendIsConcat
    <2>5. Cut(x) = d
        <3>1. SubSeq(Source, 0 + 1, 0) = <<>>
            <4>1. 0 + 1 \in Int /\ 0 \in Int /\ 0 < 0 + 1
                OBVIOUS
            <4> QED BY <4>1, SubSeqEmpty
        <3>2. <<>> \o d = d
            BY ConcatEmptySeq
        <3> QED BY <2>2, <3>1, <3>2 DEF Cut
    <2>6. c <= c /\ ~(x.from < x.to)
        BY <2>2
    <2>7. /\ Append(plan, x) \in Seq(Op)
          /\ Written(Source, Append(plan, x)) = Written(Source, plan) \o Cut(x)
          /\ InOrder(Append(plan, x), c)
        BY <2>1, <2>6, OneMore
    <2> QED BY <2>4, <2>5, <2>7
<1>3. CASE d = <<>>
    <2>1. Data(d) = <<>>
        BY <1>3 DEF Data
    <2>2. plan \o <<>> = plan /\ Written(Source, plan) \o <<>> = Written(Source, plan)
        BY <1>1, ConcatEmptySeq
    <2>3. <<>> \in Seq(Op)
        OBVIOUS
    <2> QED BY <1>3, <2>1, <2>2, <2>3
<1> QED BY <1>2, <1>3

\* What is written up to, and for, the i-th replacement, and the part of a plan for it.
Piece(o, i) == SubSeq(Source, Cursor(o, i - 1) + 1, o[i].start) \o o[i].data
Steps(o, i) == Span(Cursor(o, i - 1), o[i].start) \o Data(o[i].data)

\* Of accepted replacements, the plan writes what the assembly gives, in one pass over
\* the file.
LEMMA PlanWrites ==
    ASSUME NEW reps \in Seq(Replacements), ~Refused(Size, reps)
    PROVE  LET plan == Plan(Size, reps) IN
           /\ plan \in Seq(Op)
           /\ Written(Source, plan) = Assembled(Source, reps)
           /\ WellFormed(Size, plan)
<1> DEFINE o == Ordered(reps)
           n == Len(o)
           pieces == [i \in 1..n |-> Piece(o, i)]
           steps == [i \in 1..n |-> Steps(o, i)]
           plan == Plan(Size, reps)
<1>1. o \in Seq(Replacements) /\ Valid(Size, o)
    BY OrderedLists DEF Refused, Listed
<1>2. n \in Nat /\ DOMAIN o = 1..n
    BY <1>1
<1>3. plan = FlattenSeq(steps) \o TailSpan(Size, o)
    BY <1>2 DEF Plan, Steps
<1>4. Assembled(Source, reps) = FlattenSeq(pieces) \o SubSeq(Source, Cursor(o, n) + 1, Size)
    BY <1>2 DEF Assembled, Piece, Size
<1> HIDE DEF o, plan
<1>5. ASSUME NEW i \in 1..n
      PROVE  /\ Span(Cursor(o, i - 1), o[i].start) \in Seq(Op) /\ Data(o[i].data) \in Seq(Op)
             /\ SubSeq(Source, Cursor(o, i - 1) + 1, o[i].start) \in Seq(Byte)
             /\ o[i].data \in Seq(Byte)
             /\ Piece(o, i) \in Seq(Byte) /\ Steps(o, i) \in Seq(Op)
    <2> DEFINE none == <<>>
    <2>1. none \in Seq(Op) /\ InOrder(none, Cursor(o, i - 1)) /\ InOrder(none, 0)
        BY DEF InOrder
    <2>2. /\ Cursor(o, i - 1) \in 0..Size /\ o[i].start \in 0..Size
          /\ Cursor(o, i - 1) <= o[i].start /\ o[i].data \in Seq(Byte)
        BY <1>1, CursorMoves
    <2> HIDE DEF none
    <2>3. Span(Cursor(o, i - 1), o[i].start) \in Seq(Op)
          /\ SubSeq(Source, Cursor(o, i - 1) + 1, o[i].start) \in Seq(Byte)
        BY <2>1, <2>2, AddSpan
    <2>4. Data(o[i].data) \in Seq(Op)
        BY <2>1, <2>2, AddData
    <2> QED BY <2>2, <2>3, <2>4, ConcatProperties DEF Piece, Steps
<1>6. pieces \in Seq(Seq(Byte)) /\ Len(pieces) = n /\ steps \in Seq(Seq(Op)) /\ Len(steps) = n
    BY <1>2, <1>5
<1>7. PICK A \in [0..n -> Seq(Byte)] : Flattens(A, pieces)
    BY <1>6, FlattensExists
<1>8. PICK P \in [0..n -> Seq(Op)] : Flattens(P, steps)
    BY <1>6, FlattensExists
<1>9. FlattenSeq(pieces) = A[n] /\ FlattenSeq(steps) = P[n]
    <2> HIDE DEF pieces, steps
    <2> QED BY <1>6, <1>7, <1>8, FlattenIs
<1>10. ASSUME NEW i \in 1..n
       PROVE  A[i] = A[i - 1] \o Piece(o, i) /\ P[i] = P[i - 1] \o Steps(o, i)
    <2>1. pieces[i] = Piece(o, i) /\ steps[i] = Steps(o, i)
        OBVIOUS
    <2> HIDE DEF pieces, steps
    <2> QED BY <1>6, <1>7, <1>8, <2>1 DEF Flattens
<1>11. A[0] = <<>> /\ P[0] = <<>>
    BY <1>7, <1>8 DEF Flattens
<1> DEFINE S == {i \in 0..n : /\ Written(Source, P[i]) = A[i]
                              /\ InOrder(P[i], Cursor(o, i))}
<1>12. 0 \in S
    BY <1>2, <1>11, WrittenFacts DEF InOrder
<1>13. ASSUME NEW i \in 1..n, i - 1 \in S PROVE i \in S
    <2> DEFINE c == Cursor(o, i - 1)
               start == o[i].start
               end == Cursor(o, i)
               span == Span(c, start)
               data == o[i].data
               part == SubSeq(Source, c + 1, start)
    <2>1. /\ c \in 0..Size /\ start \in 0..Size /\ end \in 0..Size /\ c <= start /\ start <= end
          /\ i - 1 \in 0..n /\ i \in 0..n /\ Size \in Nat
        <3>1. i \in 0..n
            BY <1>2
        <3> QED BY <1>1, <3>1, CursorMoves
    <2>2. P[i - 1] \in Seq(Op) /\ A[i - 1] \in Seq(Byte)
          /\ Written(Source, P[i - 1]) = A[i - 1] /\ InOrder(P[i - 1], c)
        BY <1>13, <2>1
    <2>3. span \in Seq(Op) /\ Data(data) \in Seq(Op) /\ part \in Seq(Byte) /\ data \in Seq(Byte)
        BY <1>5
    <2>4. P[i] = (P[i - 1] \o span) \o Data(data) /\ A[i] = (A[i - 1] \o part) \o data
        <3>1. P[i] = P[i - 1] \o (span \o Data(data)) /\ A[i] = A[i - 1] \o (part \o data)
            BY <1>10 DEF Steps, Piece
        <3>2. (P[i - 1] \o span) \o Data(data) = P[i - 1] \o (span \o Data(data))
            <4>1. \A u, v, w \in Seq(Op) : (u \o v) \o w = u \o (v \o w)
                BY ConcatAssociative
            <4> HIDE DEF span, data
            <4> QED BY <2>2, <2>3, <4>1, Zenon
        <3>3. (A[i - 1] \o part) \o data = A[i - 1] \o (part \o data)
            <4>1. \A u, v, w \in Seq(Byte) : (u \o v) \o w = u \o (v \o w)
                BY ConcatAssociative
            <4> HIDE DEF part, data
            <4> QED BY <2>2, <2>3, <4>1, Zenon
        <3> HIDE DEF span, part, data
        <3> QED BY <3>1, <3>2, <3>3
    <2> HIDE DEF data
    <2>5. /\ P[i - 1] \o span \in Seq(Op)
          /\ Written(Source, P[i - 1] \o span) = A[i - 1] \o part
          /\ InOrder(P[i - 1] \o span, start)
        <3> DEFINE before == P[i - 1]
        <3>1. before \in Seq(Op) /\ InOrder(before, c) /\ Written(Source, before) = A[i - 1]
            BY <2>2
        <3> HIDE DEF c, start, before
        <3>2. /\ before \o Span(c, start) \in Seq(Op)
              /\ Written(Source, before \o Span(c, start)) =
                    Written(Source, before) \o SubSeq(Source, c + 1, start)
              /\ InOrder(before \o Span(c, start), start)
            BY <2>1, <3>1, AddSpan, Zenon
        <3> QED BY <3>1, <3>2, Zenon DEF before
    <2> HIDE DEF c, start, span, part, end
    <2>6. /\ Written(Source, P[i]) = A[i] /\ InOrder(P[i], start)
        <3>1. start \in Nat
            BY <2>1
        <3> QED BY <2>3, <2>4, <2>5, <3>1, AddData
    <2>7. InOrder(P[i], end)
        <3>1. \A k \in DOMAIN P[i] : P[i][k].to \in Int
            <4>1. P[i] \in Seq(Op)
                BY <2>1
            <4>2. \A k \in DOMAIN P[i] : P[i][k] \in Op
                BY <4>1
            <4> QED BY <4>2 DEF Op
        <3> QED BY <2>1, <2>6, <3>1 DEF InOrder
    <2> QED BY <2>1, <2>6, <2>7 DEF end
<1>14. \A i \in 0..n : i \in S
    <2> HIDE DEF S
    <2> QED BY <1>2, <1>12, <1>13, CountUp, Zenon
<1> DEFINE last == Cursor(o, n)
<1>15. Written(Source, P[n]) = A[n] /\ InOrder(P[n], last) /\ P[n] \in Seq(Op)
       /\ last \in 0..Size /\ Size \in 0..Size /\ last <= Size
    <2>1. n \in 0..n
        BY <1>2
    <2>2. last \in 0..Size /\ Size \in Nat
        BY <1>1, <2>1, CursorMoves
    <2> QED BY <1>14, <2>1, <2>2
<1> HIDE DEF last
<1>16. plan = P[n] \o Span(last, Size)
    BY <1>3, <1>9 DEF TailSpan, last
<1>17. plan \in Seq(Op) /\ InOrder(plan, Size)
       /\ Written(Source, plan) = A[n] \o SubSeq(Source, last + 1, Size)
    <2> DEFINE before == P[n]
    <2>1. before \in Seq(Op) /\ InOrder(before, last) /\ Written(Source, before) = A[n]
          /\ plan = before \o Span(last, Size)
        BY <1>15, <1>16
    <2> HIDE DEF before
    <2>2. /\ before \o Span(last, Size) \in Seq(Op)
          /\ Written(Source, before \o Span(last, Size)) =
                Written(Source, before) \o SubSeq(Source, last + 1, Size)
          /\ InOrder(before \o Span(last, Size), Size)
        BY <1>15, <2>1, AddSpan, Zenon
    <2> QED BY <2>1, <2>2
<1>18. Written(Source, plan) = Assembled(Source, reps)
    BY <1>4, <1>9, <1>17 DEF last
<1>19. WellFormed(Size, plan)
    BY <1>17 DEF WellFormed, InOrder
<1> QED BY <1>17, <1>18, <1>19 DEF plan

-----------------------------------------------------------------------------
(***************************************************************************)
(* Plans: what is written is the edited file.                                *)
(***************************************************************************)
\* Concatenation is associative.
LEMMA Regroup == ASSUME NEW E PROVE \A u, v, w \in Seq(E) : (u \o v) \o w = u \o (v \o w)
BY ConcatAssociative

\* Empty sequences add nothing to a flattened one.
Quiet(s, a, b) == \A k \in (a + 1)..b : s[k] = <<>>

LEMMA FlatGap ==
    ASSUME NEW E, NEW s \in Seq(Seq(E)), NEW flat \in [0..Len(s) -> Seq(E)], Flattens(flat, s),
           NEW a \in 0..Len(s), NEW b \in 0..Len(s), a <= b, Quiet(s, a, b)
    PROVE  flat[b] = flat[a]
<1> DEFINE n == Len(s)
           S == {i \in 0..n : a <= i /\ i <= b => flat[i] = flat[a]}
<1>1. n \in Nat /\ a \in Nat /\ b \in Nat /\ a <= b /\ b <= n
    OBVIOUS
<1> HIDE DEF n
<1>2. 0 \in S
    BY <1>1
<1>3. ASSUME NEW i \in 1..n, i - 1 \in S PROVE i \in S
    <2>1. i - 1 \in 0..n /\ i \in 0..n
        BY <1>1
    <2> SUFFICES ASSUME a <= i, i <= b PROVE flat[i] = flat[a]
        BY <2>1
    <2>2. CASE i = a
        BY <2>2
    <2>3. CASE i # a
        <3>1. a <= i - 1 /\ i - 1 <= b /\ i \in (a + 1)..b
            BY <1>1, <2>3
        <3>2. flat[i] = flat[i - 1] \o s[i]
            BY DEF Flattens, n
        <3>3. s[i] = <<>> /\ flat[i - 1] = flat[a]
            BY <1>3, <3>1 DEF Quiet
        <3>4. flat[i - 1] \in Seq(E)
            BY <2>1 DEF n
        <3>5. flat[i - 1] \o <<>> = flat[i - 1]
            BY <3>4, ConcatEmptySeq
        <3> QED BY <3>2, <3>3, <3>5
    <2> QED BY <2>2, <2>3
<1>4. \A i \in 0..n : i \in S
    <2> HIDE DEF S
    <2> QED BY <1>1, <1>2, <1>3, CountUp, Zenon
<1>5. b \in 0..n
    BY <1>1
<1> QED BY <1>1, <1>4, <1>5

\* What replacements put in front of byte x, in the order in which they are listed.
Inserted(rs, x) == [k \in 1..Len(rs) |-> IF rs[k].start = x THEN rs[k].data ELSE <<>>]

LEMMA InsertedTyped ==
    ASSUME NEW rs \in Seq(Replacements), NEW x
    PROVE  Inserted(rs, x) \in Seq(Seq(Byte)) /\ Len(Inserted(rs, x)) = Len(rs)
<1>1. Len(rs) \in Nat
    OBVIOUS
<1>2. \A k \in 1..Len(rs) : (IF rs[k].start = x THEN rs[k].data ELSE <<>>) \in Seq(Byte)
    <2> TAKE k \in 1..Len(rs)
    <2>1. rs[k] \in Replacements /\ <<>> \in Seq(Byte)
        OBVIOUS
    <2>2. rs[k].data \in Seq(Byte)
        BY <2>1, InputsOK DEF Replacements
    <2> QED BY <2>1, <2>2
<1> QED BY <1>1, <1>2 DEF Inserted

\* The sort is stable: in front of every byte the same is put in the same order.
LEMMA SameInsertions ==
    ASSUME NEW reps \in Seq(Replacements), NEW o, NEW p, Listed(reps, o, p), NEW x
    PROVE  FlattenSeq(Inserted(reps, x)) = FlattenSeq(Inserted(o, x))
<1> DEFINE n == Len(reps)
           r == Inserted(reps, x)
           q == Inserted(o, x)
           At(i) == o[i].start = x
<1>1. n \in Nat /\ o \in Seq(Replacements) /\ Len(o) = n
      /\ \A i \in 1..n : p[i] \in 1..n /\ o[i] = reps[p[i]]
    BY DEF Listed
<1>2. r \in Seq(Seq(Byte)) /\ Len(r) = n /\ q \in Seq(Seq(Byte)) /\ Len(q) = n
    BY <1>1, InsertedTyped
<1>3. \A k \in 1..n : /\ r[k] = IF reps[k].start = x THEN reps[k].data ELSE <<>>
                      /\ q[k] = IF At(k) THEN o[k].data ELSE <<>>
    BY <1>1 DEF Inserted
<1> HIDE DEF r, q
<1>4. PICK R \in [0..n -> Seq(Byte)] : Flattens(R, r)
    BY <1>2, FlattensExists
<1>5. PICK Q \in [0..n -> Seq(Byte)] : Flattens(Q, q)
    BY <1>2, FlattensExists
<1>6. FlattenSeq(r) = R[n] /\ FlattenSeq(q) = Q[n]
    BY <1>2, <1>4, <1>5, FlattenIs
<1>7. ASSUME NEW i \in 1..n, NEW j \in 1..n, At(i), At(j) PROVE j < i <=> p[j] < p[i]
    <2>1. reps[p[i]].start = x /\ reps[p[j]].start = x
        BY <1>1, <1>7
    <2>2. p[i] \in 1..n /\ p[j] \in 1..n
        BY <1>1
    <2>3. ASSUME j < i PROVE p[j] < p[i]
        <3>1. Before(reps, p[j], p[i])
            BY <2>3 DEF Listed, Orders
        <3>2. reps[p[i]] \in Replacements /\ reps[p[j]] \in Replacements
            BY <2>2
        <3>3. reps[p[i]].start \in Int
            BY <3>2 DEF Replacements
        <3> QED BY <2>1, <3>1, <3>3 DEF Before
    <2>4. ASSUME i < j PROVE p[i] < p[j]
        <3>1. Before(reps, p[i], p[j])
            BY <2>4 DEF Listed, Orders
        <3>2. reps[p[i]] \in Replacements
            BY <2>2
        <3>3. reps[p[i]].start \in Int
            BY <3>2 DEF Replacements
        <3> QED BY <2>1, <3>1, <3>3 DEF Before
    <2> QED BY <1>1, <2>2, <2>3, <2>4
\* Up to boundaries with the same insertions before them, both give the same.
<1>8. ASSUME NEW i \in 1..(n + 1), NEW b \in 1..(n + 1),
             \A j \in 1..n : At(j) => (j < i <=> p[j] < b),
             \A j \in 1..n : At(j) /\ j < i => Q[j] = R[p[j]]
      PROVE  Q[i - 1] = R[b - 1]
    <2> DEFINE K == {j \in 1..n : At(j) /\ j < i} \cup {0}
    <2>1. PICK z \in K : \A j \in K : j <= z
        <3>1. K \subseteq 0..n /\ K # {}
            BY <1>1
        <3> HIDE DEF K
        <3> QED BY <1>1, <3>1, LastOf, Zenon
    <2>2. \A j \in 1..n : At(j) /\ j < i => j <= z
        BY <2>1
    <2>3. z = 0 \/ (z \in 1..n /\ At(z) /\ z < i)
        BY <2>1
    <2> HIDE DEF K
    <2> DEFINE pz == IF z = 0 THEN 0 ELSE p[z]
    <2>4. z \in 0..n /\ i - 1 \in z..n /\ pz \in 0..n /\ b - 1 \in pz..n
        <3>1. CASE z = 0
            BY <1>1, <3>1
        <3>2. CASE z # 0
            <4>1. p[z] < b /\ p[z] \in 1..n /\ z \in 1..n /\ z < i
                BY <1>1, <1>8, <2>3, <3>2
            <4> QED BY <1>1, <3>2, <4>1
        <3> QED BY <3>1, <3>2
    <2>5. Q[i - 1] = Q[z]
        <3>1. \A k \in (z + 1)..(i - 1) : q[k] = <<>>
            <4> TAKE k \in (z + 1)..(i - 1)
            <4>1. k \in 1..n /\ k < i /\ ~(k <= z)
                BY <1>1, <2>4
            <4> HIDE DEF At
            <4> QED BY <1>3, <2>2, <4>1
        <3> DEFINE y == i - 1
        <3>2. /\ q \in Seq(Seq(Byte)) /\ Q \in [0..Len(q) -> Seq(Byte)] /\ Flattens(Q, q)
              /\ z \in 0..Len(q) /\ y \in 0..Len(q) /\ z <= y
            BY <1>1, <1>2, <1>5, <2>4
        <3>4. Quiet(q, z, y)
            BY <3>1 DEF Quiet
        <3> HIDE DEF y
        <3>3. Q[y] = Q[z]
            BY <3>2, <3>4, FlatGap
        <3> QED BY <3>3 DEF y
    <2>6. R[b - 1] = R[pz]
        <3>1. \A k \in (pz + 1)..(b - 1) : r[k] = <<>>
            <4> TAKE k \in (pz + 1)..(b - 1)
            <4>1. k \in 1..n /\ k < b /\ pz < k
                BY <1>1, <2>4
            <4>2. PICK j \in 1..n : p[j] = k
                BY <4>1 DEF Listed
            <4>3. reps[k] = o[j]
                BY <1>1, <4>2
            <4>4. ~At(j)
                <5> SUFFICES ASSUME At(j) PROVE FALSE
                    OBVIOUS
                <5>1. j < i
                    BY <1>8, <4>1, <4>2
                <5>2. j <= z /\ z # 0 /\ z \in 1..n /\ At(z)
                    BY <1>1, <2>2, <2>3, <5>1
                <5>3. pz = p[z] /\ p[z] < p[j]
                    BY <4>1, <4>2, <5>2
                <5>4. z < j
                    BY <1>7, <5>2, <5>3
                <5> QED BY <2>4, <5>2, <5>4
            <4> QED BY <1>3, <4>1, <4>3, <4>4
        <3> HIDE DEF pz
        <3> DEFINE y == b - 1
        <3>2. /\ r \in Seq(Seq(Byte)) /\ R \in [0..Len(r) -> Seq(Byte)] /\ Flattens(R, r)
              /\ pz \in 0..Len(r) /\ y \in 0..Len(r) /\ pz <= y
            BY <1>1, <1>2, <1>4, <2>4
        <3>4. Quiet(r, pz, y)
            BY <3>1 DEF Quiet
        <3> HIDE DEF y
        <3>3. R[y] = R[pz]
            BY <3>2, <3>4, FlatGap
        <3> QED BY <3>3 DEF y
    <2>7. Q[z] = R[pz]
        <3>1. CASE z = 0
            BY <1>4, <1>5, <3>1 DEF Flattens
        <3>2. CASE z # 0
            BY <1>8, <2>3, <3>2
        <3> QED BY <3>1, <3>2
    <2> QED BY <2>5, <2>6, <2>7
<1> DEFINE S == {i \in 0..n : \A j \in 1..n : j <= i /\ At(j) => Q[j] = R[p[j]]}
<1>9. 0 \in S
    BY <1>1
<1>10. ASSUME NEW i \in 1..n, i - 1 \in S PROVE i \in S
    <2>1. i \in 0..n /\ \A j \in 1..n : j < i /\ At(j) => Q[j] = R[p[j]]
        BY <1>1, <1>10
    <2>2. ASSUME At(i) PROVE Q[i] = R[p[i]]
        <3>1. p[i] \in 1..n /\ reps[p[i]] = o[i]
            BY <1>1
        <3>2. i \in 1..(n + 1) /\ p[i] \in 1..(n + 1)
            BY <1>1, <3>1
        <3>3. \A j \in 1..n : At(j) => (j < i <=> p[j] < p[i])
            BY <1>7, <2>2
        <3> HIDE DEF At
        <3>4. Q[i - 1] = R[p[i] - 1]
            BY <1>8, <2>1, <3>2, <3>3
        <3>5. Q[i] = Q[i - 1] \o q[i]
            BY <1>2, <1>5 DEF Flattens
        <3>6. R[p[i]] = R[p[i] - 1] \o r[p[i]]
            BY <1>2, <1>4, <3>1 DEF Flattens
        <3>7. q[i] = o[i].data /\ r[p[i]] = o[i].data
            BY <1>3, <2>2, <3>1 DEF At
        <3> QED BY <3>4, <3>5, <3>6, <3>7
    <2>3. ASSUME NEW j \in 1..n, j <= i, At(j) PROVE Q[j] = R[p[j]]
        <3>1. j < i \/ j = i
            BY <1>1, <2>3
        <3> QED BY <2>1, <2>2, <2>3, <3>1
    <2> HIDE DEF At
    <2> QED BY <2>1, <2>3
<1>11. \A i \in 0..n : i \in S
    <2> HIDE DEF S
    <2> QED BY <1>1, <1>9, <1>10, CountUp, Zenon
<1>12. Q[n] = R[n]
    <2>1. n \in 0..n /\ n + 1 \in 1..(n + 1) /\ (n + 1) - 1 = n
        BY <1>1
    <2>2. \A j \in 1..n : At(j) => Q[j] = R[p[j]]
        BY <1>1, <1>11, <2>1
    <2>3. \A j \in 1..n : At(j) => (j < n + 1 <=> p[j] < n + 1)
        BY <1>1
    <2> HIDE DEF At
    <2>4. Q[(n + 1) - 1] = R[(n + 1) - 1]
        BY <1>8, <2>1, <2>2, <2>3
    <2> QED BY <2>1, <2>4
<1> QED BY <1>6, <1>12 DEF r, q

\* Parts of the file.
LEMMA SourcePart ==
    ASSUME NEW a \in Nat, NEW b \in 0..Size
    PROVE  /\ SubSeq(Source, a + 1, b) \in Seq(Byte)
           /\ b <= a => SubSeq(Source, a + 1, b) = <<>>
           /\ a <= b /\ b < Size =>
                 SubSeq(Source, a + 1, b + 1) = SubSeq(Source, a + 1, b) \o <<Source[b + 1]>>
<1>1. Size \in Nat /\ Size = Len(Source) /\ Source \in Seq(Byte)
    BY InputsOK DEF Size
<1>2. SubSeq(Source, a + 1, b) \in Seq(Byte)
    <2>1. \A i \in (a + 1)..b : Source[i] \in Byte
        BY <1>1
    <2>2. a + 1 \in Int /\ b \in Int
        BY <1>1
    <2> QED BY <2>1, <2>2, SubSeqProperties
<1>3. ASSUME b <= a PROVE SubSeq(Source, a + 1, b) = <<>>
    <2>1. a + 1 \in Int /\ b \in Int /\ b < a + 1
        BY <1>1, <1>3
    <2> QED BY <2>1, SubSeqEmpty
<1>4. ASSUME a <= b, b < Size
      PROVE  SubSeq(Source, a + 1, b + 1) = SubSeq(Source, a + 1, b) \o <<Source[b + 1]>>
    <2>1. a + 1 \in 1..Len(Source) /\ b + 1 \in (a + 1)..Len(Source) /\ (b + 1) - 1 = b
        BY <1>1, <1>4
    <2>2. SubSeq(Source, a + 1, b + 1) = SubSeq(Source, a + 1, (b + 1) - 1) \o <<Source[b + 1]>>
        BY <1>1, <2>1, SubSeqRecursiveSecond
    <2> QED BY <2>1, <2>2
<1> QED BY <1>2, <1>3, <1>4

\* Of the assembly: its pieces, and what it has written once i replacements are done and
\* the file is kept up to byte x.
Pieces(o)         == [i \in 1..Len(o) |-> Piece(o, i)]
Reached(A, o, x, i) == A[i] \o SubSeq(Source, Cursor(o, i) + 1, x)

\* The first m replacements are those that start before byte x.
SplitAt(o, x, m) == /\ \A i \in 1..m : o[i].start < x
                    /\ \A i \in (m + 1)..Len(o) : o[i].start >= x

Assembles(A, o) ==
    /\ o \in Seq(Replacements) /\ Valid(Size, o)
    /\ A \in [0..Len(o) -> Seq(Byte)] /\ Flattens(A, Pieces(o))

LEMMA PiecesTyped ==
    ASSUME NEW o \in Seq(Replacements), Valid(Size, o)
    PROVE  /\ Pieces(o) \in Seq(Seq(Byte)) /\ Len(Pieces(o)) = Len(o)
           /\ \A i \in 1..Len(o) : Pieces(o)[i] = Piece(o, i)
<1>1. Len(o) \in Nat
    OBVIOUS
<1>2. ASSUME NEW i \in 1..Len(o) PROVE Piece(o, i) \in Seq(Byte)
    <2> DEFINE c == Cursor(o, i - 1)
               part == SubSeq(Source, c + 1, o[i].start)
               data == o[i].data
    <2>1. c \in Nat /\ o[i].start \in 0..Size /\ data \in Seq(Byte)
        BY CursorMoves
    <2> HIDE DEF c
    <2>2. part \in Seq(Byte)
        BY <2>1, SourcePart
    <2> HIDE DEF part, data
    <2>3. part \o data \in Seq(Byte)
        BY <2>1, <2>2, ConcatProperties
    <2> QED BY <2>3 DEF Piece, part, data, c
<1> QED BY <1>1, <1>2 DEF Pieces

\* Everywhere there is such a split.
LEMMA SplitExists ==
    ASSUME NEW o \in Seq(Replacements), Valid(Size, o), NEW x \in Nat
    PROVE  \E m \in 0..Len(o) : SplitAt(o, x, m)
<1> DEFINE n == Len(o)
           K == {i \in 1..n : o[i].start < x} \cup {0}
<1>1. n \in Nat
    OBVIOUS
<1>2. \A i \in 1..n : /\ o[i].start \in Int /\ i - 1 \in 0..n
                      /\ Cursor(o, i - 1) <= o[i].start /\ o[i].start <= Cursor(o, i)
    BY CursorMoves
<1>3. \A i \in 0..n : Cursor(o, i) \in Int
    BY CursorMoves
<1> HIDE DEF n
<1>4. PICK m \in K : \A i \in K : i <= m
    <2>1. K \subseteq 0..n /\ K # {}
        BY <1>1
    <2> HIDE DEF K
    <2> QED BY <1>1, <2>1, LastOf, Zenon
<1>5. m \in 0..n /\ \A i \in (m + 1)..n : ~(o[i].start < x)
    <2>1. m \in 0..n
        BY <1>1
    <2>2. ASSUME NEW i \in (m + 1)..n, o[i].start < x PROVE FALSE
        <3>1. i \in K /\ ~(i <= m)
            BY <1>1, <2>1, <2>2
        <3> HIDE DEF K
        <3> QED BY <1>4, <3>1
    <2> QED BY <2>1, <2>2
<1>6. m # 0 => o[m].start < x
    OBVIOUS
<1> HIDE DEF K
<1> DEFINE S == {i \in 0..n : i < m => o[m - i].start < x}
<1>7. m # 0 => \A i \in 1..m : o[i].start < x
    <2> SUFFICES ASSUME m # 0 PROVE \A i \in 1..m : o[i].start < x
        OBVIOUS
    <2>1. 0 \in S
        BY <1>1, <1>5, <1>6
    <2>2. ASSUME NEW i \in 1..n, i - 1 \in S PROVE i \in S
        <3> SUFFICES ASSUME i < m PROVE o[m - i].start < x
            BY <1>1
        <3> DEFINE j == m - i
        <3>1. j \in 1..n /\ j + 1 \in 1..n /\ m - (i - 1) = j + 1 /\ i - 1 < m /\ (j + 1) - 1 = j
              /\ j \in 0..n
            BY <1>1, <1>5
        <3>2. o[j + 1].start < x
            BY <2>2, <3>1
        <3> HIDE DEF j
        <3>3. o[j].start <= Cursor(o, j) /\ o[j].start \in Int /\ Cursor(o, j) \in Int
            BY <1>2, <1>3, <3>1
        <3>5. Cursor(o, j) <= o[j + 1].start /\ o[j + 1].start \in Int
            <4> DEFINE k == j + 1
            <4>1. k \in 1..n /\ k - 1 = j
                BY <3>1
            <4> HIDE DEF k
            <4>2. Cursor(o, k - 1) <= o[k].start /\ o[k].start \in Int
                BY <1>2, <4>1
            <4> QED BY <4>1, <4>2 DEF k
        <3>4. o[j].start < x
            BY <3>2, <3>3, <3>5
        <3> QED BY <3>4 DEF j
    <2>3. \A i \in 0..n : i \in S
        <3> HIDE DEF S
        <3> QED BY <1>1, <2>1, <2>2, CountUp, Zenon
    <2>4. ASSUME NEW i \in 1..m PROVE o[i].start < x
        <3>1. m - i \in 0..n /\ m - i < m /\ m - (m - i) = i
            BY <1>1, <1>5
        <3>2. m - i \in S
            <4> HIDE DEF S
            <4> QED BY <2>3, <3>1
        <3> QED BY <3>1, <3>2
    <2> QED BY <2>4
<1>8. \A i \in 1..m : o[i].start < x
    BY <1>5, <1>7
<1>9. SplitAt(o, x, m)
    BY <1>2, <1>5, <1>8 DEF SplitAt, n
<1> QED BY <1>5, <1>9 DEF n

\* Regroup for bytes.
LEMMA RegroupBytes == \A u, v, w \in Seq(Byte) : (u \o v) \o w = u \o (v \o w)
BY Regroup

\* Putting in what belongs in front of byte x.
LEMMA InsertStep ==
    ASSUME NEW o, NEW A, Assembles(A, o), NEW x \in 0..Size,
           NEW m \in 0..Len(o), NEW l \in 0..Len(o), SplitAt(o, x, m), SplitAt(o, x + 1, l)
    PROVE  Reached(A, o, x, l) = Reached(A, o, x, m) \o FlattenSeq(Inserted(o, x))
<1> DEFINE n == Len(o)
           q == Inserted(o, x)
<1>1. o \in Seq(Replacements) /\ Valid(Size, o) /\ n \in Nat /\ Size \in Nat
      /\ A \in [0..n -> Seq(Byte)] /\ Flattens(A, Pieces(o)) /\ x \in Nat
    BY InputsOK DEF Assembles, Size
<1>1a. x \in Int
    BY <1>1
<1>2. \A i \in 1..n : /\ o[i].start \in 0..Size /\ o[i].data \in Seq(Byte)
                      /\ o[i].start <= Cursor(o, i) /\ i - 1 \in 0..n
    BY <1>1, CursorMoves
<1>3. \A i \in 0..n : Cursor(o, i) \in Nat /\ Cursor(o, i) \in 0..Size
    BY <1>1, CursorMoves
<1>4. q \in Seq(Seq(Byte)) /\ Len(q) = n
      /\ \A k \in 1..n : q[k] = IF o[k].start = x THEN o[k].data ELSE <<>>
    BY <1>1, InsertedTyped DEF Inserted
<1> HIDE DEF q, n
<1>5. PICK Q \in [0..n -> Seq(Byte)] : Flattens(Q, q)
    BY <1>4, FlattensExists
<1>6. FlattenSeq(q) = Q[n] /\ Q[0] = <<>>
    <2>1. FlattenSeq(q) = Q[n]
        BY <1>4, <1>5, FlattenIs
    <2> QED BY <1>5, <2>1 DEF Flattens
<1>7. /\ m \in 0..n /\ l \in 0..n
      /\ \A i \in 1..m : o[i].start < x
      /\ \A i \in (m + 1)..n : o[i].start >= x
    BY DEF SplitAt, n
<1>8. \A i \in 1..l : o[i].start < x + 1
    BY DEF SplitAt
<1>8a. \A i \in (l + 1)..n : o[i].start >= x + 1
    BY DEF SplitAt, n
<1>9. m <= l
    <2> SUFFICES ASSUME l < m PROVE FALSE
        BY <1>1, <1>7
    <2>1. m \in 1..m /\ m \in (l + 1)..n /\ m \in 1..n
        BY <1>1, <1>7
    <2>2. o[m].start \in Int /\ o[m].start < x /\ o[m].start >= x + 1
        BY <1>2, <1>7, <1>8a, <2>1
    <2> QED BY <1>1, <2>2
<1>10. Q[m] = <<>> /\ Q[n] = Q[l]
    <2>1. Quiet(q, 0, m)
        <3> SUFFICES ASSUME NEW k \in (0 + 1)..m PROVE q[k] = <<>>
            BY DEF Quiet
        <3>1. k \in 1..m /\ k \in 1..n
            BY <1>1, <1>7
        <3>2. o[k].start < x /\ o[k].start \in Int
            BY <1>2, <1>7, <3>1
        <3>3. o[k].start # x
            BY <1>1, <3>2
        <3> QED BY <1>4, <3>1, <3>3
    <2>2. Quiet(q, l, n)
        <3> SUFFICES ASSUME NEW k \in (l + 1)..n PROVE q[k] = <<>>
            BY DEF Quiet
        <3>1. k \in (l + 1)..n /\ k \in 1..n
            BY <1>1, <1>7
        <3>2. o[k].start >= x + 1 /\ o[k].start \in Int
            BY <1>2, <1>8a, <3>1
        <3>3. o[k].start # x
            BY <1>1a, <3>2
        <3> QED BY <1>4, <3>1, <3>3
    <2>3. /\ 0 \in 0..Len(q) /\ m \in 0..Len(q) /\ l \in 0..Len(q) /\ n \in 0..Len(q)
          /\ 0 <= m /\ l <= n /\ Q \in [0..Len(q) -> Seq(Byte)]
          /\ q \in Seq(Seq(Byte)) /\ Flattens(Q, q)
        BY <1>1, <1>4, <1>5, <1>7
    <2>4. Q[m] = Q[0]
        BY <2>1, <2>3, FlatGap
    <2>5. Q[n] = Q[l]
        BY <2>2, <2>3, FlatGap
    <2> QED BY <1>6, <2>4, <2>5
<1> DEFINE Re(i) == Reached(A, o, x, i)
<1>11. \A i \in 0..n : Re(i) \in Seq(Byte)
    <2> TAKE i \in 0..n
    <2>1. SubSeq(Source, Cursor(o, i) + 1, x) \in Seq(Byte) /\ A[i] \in Seq(Byte)
        BY <1>1, <1>3, SourcePart
    <2> QED BY <2>1, ConcatProperties DEF Reached
<1>12. ASSUME NEW i \in 1..n, o[i].start = x
       PROVE  Re(i) = Re(i - 1) \o o[i].data
    <2> DEFINE c == Cursor(o, i - 1)
               part == SubSeq(Source, c + 1, x)
               data == o[i].data
               before == A[i - 1]
    <2>1. i - 1 \in 0..n /\ i \in 0..n /\ c \in Nat /\ before \in Seq(Byte) /\ data \in Seq(Byte)
          /\ A[i] \in Seq(Byte)
        <3>1. i - 1 \in 0..n /\ i \in 0..n
            BY <1>1
        <3> QED BY <1>1, <1>2, <1>3, <3>1
    <2>2. A[i] = before \o Piece(o, i)
        BY <1>1, PiecesTyped DEF Flattens, n
    <2>3. Piece(o, i) = part \o data
        BY <1>12 DEF Piece
    <2>4. part \in Seq(Byte)
        <3> HIDE DEF c
        <3> QED BY <2>1, SourcePart
    <2>5. Re(i) = A[i]
        <3>1. x <= Cursor(o, i)
            BY <1>2, <1>12
        <3>2. SubSeq(Source, Cursor(o, i) + 1, x) = <<>>
            BY <1>3, <2>1, <3>1, SourcePart
        <3> QED BY <2>1, <3>2, ConcatEmptySeq DEF Reached
    <2>6. Re(i - 1) = before \o part
        BY DEF Reached
    <2> HIDE DEF before, part, data, c
    <2>7. (before \o part) \o data = before \o (part \o data)
        <3> QED BY <2>1, <2>4, RegroupBytes, Zenon
    <2>8. Re(i) = (before \o part) \o data
        BY <2>2, <2>3, <2>5, <2>7
    <2> QED BY <2>6, <2>8 DEF data
<1> HIDE DEF Re
<1> DEFINE S == {i \in 0..n : m <= i /\ i <= l => Re(i) = Re(m) \o Q[i]}
<1>13. ASSUME NEW i \in 0..n, i = m PROVE Re(i) = Re(m) \o Q[i]
    <2>1. Re(m) \in Seq(Byte) /\ Q[i] = <<>>
        BY <1>7, <1>10, <1>11, <1>13
    <2> QED BY <1>13, <2>1, ConcatEmptySeq
<1>14. 0 \in S
    <2>1. 0 \in 0..n /\ (m <= 0 => 0 = m)
        BY <1>1, <1>7
    <2> QED BY <1>13, <2>1
<1>15. ASSUME NEW i \in 1..n, i - 1 \in S PROVE i \in S
    <2>1. i \in 0..n /\ i - 1 \in 0..n
        BY <1>1
    <2> SUFFICES ASSUME m <= i, i <= l PROVE Re(i) = Re(m) \o Q[i]
        BY <2>1
    <2>2. CASE i = m
        BY <1>13, <2>1, <2>2
    <2>3. CASE i # m
        <3>1. m <= i - 1 /\ i - 1 <= l /\ i \in (m + 1)..n /\ i \in 1..l
            BY <1>1, <1>7, <2>3
        <3>2. o[i].start = x
            <4>1. o[i].start \in Int
                BY <1>2
            <4>2. o[i].start >= x
                BY <1>7, <3>1
            <4>3. o[i].start < x + 1
                BY <1>8, <3>1
            <4> QED BY <1>1a, <4>1, <4>2, <4>3
        <3>3. Re(i) = Re(i - 1) \o o[i].data /\ Q[i] = Q[i - 1] \o o[i].data
            <4>1. Q[i] = Q[i - 1] \o q[i]
                BY <1>4, <1>5 DEF Flattens
            <4> QED BY <1>4, <1>12, <3>2, <4>1
        <3>4. Re(i - 1) = Re(m) \o Q[i - 1]
            BY <1>15, <3>1
        <3>5. Re(m) \in Seq(Byte) /\ Q[i - 1] \in Seq(Byte) /\ o[i].data \in Seq(Byte)
            BY <1>2, <1>5, <1>7, <1>11, <2>1
        <3>6. (Re(m) \o Q[i - 1]) \o o[i].data = Re(m) \o (Q[i - 1] \o o[i].data)
            <4> QED BY <3>5, RegroupBytes, Zenon
        <3> QED BY <3>3, <3>4, <3>6
    <2> QED BY <2>2, <2>3
<1>16. \A i \in 0..n : i \in S
    <2> HIDE DEF S
    <2> QED BY <1>1, <1>14, <1>15, CountUp, Zenon
<1>17. Re(l) = Re(m) \o Q[l]
    <2>1. l \in S /\ l <= l
        <3> HIDE DEF S
        <3> QED BY <1>1, <1>7, <1>16
    <2> QED BY <1>9, <2>1
<1> QED BY <1>6, <1>10, <1>17 DEF Re, q

\* The cursor never goes back.
LEMMA CursorGrows ==
    ASSUME NEW o \in Seq(Replacements), Valid(Size, o), NEW i \in 0..Len(o)
    PROVE  \A j \in 0..Len(o) : i <= j => Cursor(o, i) <= Cursor(o, j)
<1> DEFINE n == Len(o)
           S == {j \in 0..n : i <= j => Cursor(o, i) <= Cursor(o, j)}
<1>1. n \in Nat /\ i \in 0..n
    OBVIOUS
<1>2. \A j \in 0..n : Cursor(o, j) \in Int
    BY CursorMoves
<1>3. \A j \in 1..n : /\ j - 1 \in 0..n /\ o[j].start \in Int
                      /\ Cursor(o, j - 1) <= o[j].start /\ o[j].start <= Cursor(o, j)
    BY CursorMoves
<1> HIDE DEF n
<1>4. 0 \in S
    <2>1. 0 \in 0..n /\ (i <= 0 => i = 0)
        BY <1>1
    <2>2. Cursor(o, 0) \in Int
        BY <1>2, <2>1
    <2> QED BY <2>1, <2>2
<1>5. ASSUME NEW j \in 1..n, j - 1 \in S PROVE j \in S
    <2>1. j \in 0..n /\ (i <= j => i = j \/ i <= j - 1)
        BY <1>1
    <2>2. Cursor(o, i) \in Int /\ Cursor(o, j) \in Int /\ Cursor(o, j - 1) \in Int
          /\ o[j].start \in Int
        BY <1>1, <1>2, <1>3, <2>1
    <2>3. Cursor(o, j - 1) <= Cursor(o, j)
        BY <1>3, <2>2
    <2>4. i <= j - 1 => Cursor(o, i) <= Cursor(o, j - 1)
        BY <1>5
    <2> QED BY <2>1, <2>2, <2>3, <2>4
<1>6. \A j \in 0..n : j \in S
    <2> HIDE DEF S
    <2> QED BY <1>1, <1>4, <1>5, CountUp, Zenon
<1> QED BY <1>6 DEF n

\* No replacement covers byte x.
Kept(reps, x) == \A k \in 1..Len(reps) : ~(reps[k].start <= x /\ x < reps[k].end)

\* The assembly is beyond a byte that one covers, and only then.
LEMMA KeptUnread ==
    ASSUME NEW reps \in Seq(Replacements), NEW o, NEW p, Listed(reps, o, p), Valid(Size, o),
           NEW x \in Nat, NEW l \in 0..Len(o), SplitAt(o, x + 1, l)
    PROVE  Kept(reps, x) <=> Cursor(o, l) <= x
<1> DEFINE n == Len(o)
<1>1. o \in Seq(Replacements) /\ n = Len(reps) /\ n \in Nat /\ l \in 0..n
    BY DEF Listed
<1>2. \A i \in 1..n : p[i] \in 1..n /\ o[i] = reps[p[i]]
    BY <1>1 DEF Listed
<1>3. \A k \in 1..n : \E i \in 1..n : p[i] = k
    BY <1>1 DEF Listed
<1>4. \A i \in 0..n : Cursor(o, i) \in Int
    BY <1>1, CursorMoves
<1>5. \A i \in 1..n : Cursor(o, i) = o[i].end /\ o[i].start \in Int
    BY <1>1, CursorMoves
<1>6. /\ \A i \in 1..l : o[i].start < x + 1
      /\ \A i \in (l + 1)..n : o[i].start >= x + 1
    BY DEF SplitAt
<1>7. \A i \in 0..n : i <= l => Cursor(o, i) <= Cursor(o, l)
    BY <1>1, CursorGrows
<1> HIDE DEF n
<1>8. ASSUME Kept(reps, x), Cursor(o, l) > x PROVE FALSE
    <2>1. l # 0
        BY <1>8 DEF Cursor
    <2>2. l \in 1..n /\ l \in 1..l
        BY <1>1, <2>1
    <2>3. o[l].start < x + 1 /\ o[l].start \in Int /\ Cursor(o, l) = o[l].end
        BY <1>5, <1>6, <2>2
    <2>4. o[l].start <= x /\ x < o[l].end
        BY <1>8, <2>3
    <2>5. p[l] \in 1..Len(reps) /\ o[l] = reps[p[l]]
        BY <1>1, <1>2, <2>2
    <2> QED BY <1>8, <2>4, <2>5 DEF Kept
<1>9. ASSUME Cursor(o, l) <= x, NEW k \in 1..Len(reps), reps[k].start <= x, x < reps[k].end
      PROVE  FALSE
    <2>1. PICK i \in 1..n : p[i] = k
        BY <1>1, <1>3
    <2>2. o[i].start <= x /\ x < o[i].end /\ o[i].end = Cursor(o, i) /\ o[i].start \in Int
        BY <1>2, <1>5, <1>9, <2>1
    <2>3. i <= l
        <3>1. ~(o[i].start >= x + 1)
            BY <2>2
        <3>2. i \notin (l + 1)..n
            BY <1>6, <3>1
        <3> QED BY <1>1, <3>2
    <2>4. i \in 0..n
        BY <1>1
    <2>5. Cursor(o, i) <= Cursor(o, l) /\ Cursor(o, i) \in Int /\ Cursor(o, l) \in Int
        BY <1>1, <1>4, <1>7, <2>3, <2>4
    <2> QED BY <1>9, <2>2, <2>5
<1>10. Cursor(o, l) \in Int
    BY <1>1, <1>4
<1> QED BY <1>8, <1>9, <1>10 DEF Kept

\* Going on by one byte.
LEMMA KeptStep ==
    ASSUME NEW reps \in Seq(Replacements), NEW o, NEW p, Listed(reps, o, p),
           NEW A, Assembles(A, o), NEW x \in 0..Size, x < Size,
           NEW l \in 0..Len(o), SplitAt(o, x + 1, l)
    PROVE  Reached(A, o, x + 1, l) =
               Reached(A, o, x, l) \o (IF Kept(reps, x) THEN <<Source[x + 1]>> ELSE <<>>)
<1> DEFINE c == Cursor(o, l)
           before == A[l]
           part == SubSeq(Source, c + 1, x)
           next == SubSeq(Source, c + 1, x + 1)
<1>1. /\ o \in Seq(Replacements) /\ Valid(Size, o)
      /\ before \in Seq(Byte) /\ Size \in Nat /\ x \in Nat /\ x + 1 \in 0..Size
    BY InputsOK DEF Assembles, Size
<1>2. c \in Nat /\ (Kept(reps, x) <=> c <= x)
    BY <1>1, CursorMoves, KeptUnread
<1>3. Reached(A, o, x, l) = before \o part /\ Reached(A, o, x + 1, l) = before \o next
    BY DEF Reached
<1> HIDE DEF c, before
<1>4. part \in Seq(Byte) /\ next \in Seq(Byte)
    BY <1>1, <1>2, SourcePart
<1>5. CASE c <= x
    <2>1. next = part \o <<Source[x + 1]>>
        BY <1>1, <1>2, <1>5, SourcePart
    <2>2. <<Source[x + 1]>> \in Seq(Byte)
        <3>1. Source[x + 1] \in Byte
            BY <1>1, InputsOK DEF Size
        <3> QED BY <3>1
    <2> DEFINE one == <<Source[x + 1]>>
    <2> HIDE DEF part, next, one
    <2>3. (before \o part) \o one = before \o (part \o one)
        BY <1>1, <1>4, <2>2, RegroupBytes, Zenon DEF one
    <2> QED BY <1>2, <1>3, <1>5, <2>1, <2>3 DEF one
<1>6. CASE x < c
    <2>1. part = <<>> /\ next = <<>>
        <3>1. x <= c /\ x + 1 <= c
            BY <1>1, <1>2, <1>6
        <3> QED BY <1>1, <1>2, <3>1, SourcePart
    <2>2. before \o <<>> = before
        BY <1>1, ConcatEmptySeq
    <2>3. ~Kept(reps, x)
        BY <1>1, <1>2, <1>6
    <2> QED BY <1>3, <2>1, <2>2, <2>3
<1> QED BY <1>1, <1>2, <1>5, <1>6

\* The parts of the edited file, byte by byte.
KeptByte(reps, x) == IF x < Size /\ Kept(reps, x) THEN <<Source[x + 1]>> ELSE <<>>
Edits(reps) ==
    [i \in 1..(Size + 1) |-> FlattenSeq(Inserted(reps, i - 1)) \o KeptByte(reps, i - 1)]

LEMMA EditsTyped ==
    ASSUME NEW reps \in Seq(Replacements)
    PROVE  /\ Edits(reps) \in Seq(Seq(Byte)) /\ Len(Edits(reps)) = Size + 1
           /\ \A x \in 0..Size : /\ FlattenSeq(Inserted(reps, x)) \in Seq(Byte)
                                 /\ KeptByte(reps, x) \in Seq(Byte)
           /\ Edited(Source, reps) = FlattenSeq(Edits(reps))
<1>1. Size \in Nat /\ Size = Len(Source) /\ Source \in Seq(Byte)
    BY InputsOK DEF Size
<1>2. ASSUME NEW x \in 0..Size
      PROVE  /\ FlattenSeq(Inserted(reps, x)) \in Seq(Byte)
             /\ KeptByte(reps, x) \in Seq(Byte)
    <2>1. Inserted(reps, x) \in Seq(Seq(Byte))
        BY InsertedTyped
    <2>2. FlattenSeq(Inserted(reps, x)) \in Seq(Byte)
        BY <2>1, FlattenFacts
    <2>3. CASE x < Size /\ Kept(reps, x)
        <3>1. x + 1 \in 1..Len(Source)
            BY <1>1, <2>3
        <3>2. Source[x + 1] \in Byte
            BY <1>1, <3>1
        <3> QED BY <2>2, <2>3, <3>2 DEF KeptByte
    <2>4. CASE ~(x < Size /\ Kept(reps, x))
        BY <2>2, <2>4 DEF KeptByte
    <2> QED BY <2>3, <2>4
<1>3. ASSUME NEW i \in 1..(Size + 1)
      PROVE  FlattenSeq(Inserted(reps, i - 1)) \o KeptByte(reps, i - 1) \in Seq(Byte)
    <2> DEFINE u == FlattenSeq(Inserted(reps, i - 1))
               v == KeptByte(reps, i - 1)
    <2>1. i - 1 \in 0..Size
        BY <1>1
    <2>2. u \in Seq(Byte) /\ v \in Seq(Byte)
        BY <1>2, <2>1
    <2> HIDE DEF u, v
    <2>3. u \o v \in Seq(Byte)
        BY <2>2, ConcatProperties
    <2> QED BY <2>3 DEF u, v
<1>4. Edits(reps) \in Seq(Seq(Byte)) /\ Len(Edits(reps)) = Size + 1
    <2> DEFINE m == Size + 1
               e(i) == FlattenSeq(Inserted(reps, i - 1)) \o KeptByte(reps, i - 1)
    <2>1. m \in Nat
        BY <1>1
    <2>2. Edits(reps) = [i \in 1..m |-> e(i)] /\ \A i \in 1..m : e(i) \in Seq(Byte)
        BY <1>3 DEF Edits
    <2> HIDE DEF m, e
    <2>3. Edits(reps) \in Seq(Seq(Byte)) /\ Len(Edits(reps)) = m
        BY <2>1, <2>2
    <2> QED BY <2>3 DEF m
<1>5. Edited(Source, reps) = FlattenSeq(Edits(reps))
    <2> DEFINE data(i) == FlattenSeq([k \in DOMAIN reps |->
                              IF reps[k].start = i THEN reps[k].data ELSE <<>>])
               kept(i) == i < Len(Source) /\ \A k \in DOMAIN reps :
                              ~(reps[k].start <= i /\ i < reps[k].end)
    <2>1. Edited(Source, reps) =
              FlattenSeq([i \in 1..(Len(Source) + 1) |->
                  data(i - 1) \o (IF kept(i - 1) THEN <<Source[i]>> ELSE <<>>)])
        BY DEF Edited
    <2>2. DOMAIN reps = 1..Len(reps)
        OBVIOUS
    <2>3. \A i : data(i) = FlattenSeq(Inserted(reps, i))
        BY <2>2 DEF Inserted
    <2>4. \A i : kept(i) <=> i < Size /\ Kept(reps, i)
        BY <1>1, <2>2 DEF Kept
    <2> HIDE DEF data, kept
    <2>5. ASSUME NEW i \in 1..(Size + 1)
          PROVE  (IF kept(i - 1) THEN <<Source[i]>> ELSE <<>>) = KeptByte(reps, i - 1)
        <3>1. (i - 1) + 1 = i
            BY <1>1
        <3> QED BY <2>4, <3>1 DEF KeptByte
    <2>6. [i \in 1..(Len(Source) + 1) |->
              data(i - 1) \o (IF kept(i - 1) THEN <<Source[i]>> ELSE <<>>)] = Edits(reps)
        BY <1>1, <2>3, <2>5 DEF Edits
    <2> QED BY <2>1, <2>6
<1> QED BY <1>2, <1>4, <1>5

\* What is written for accepted replacements is the edited file: at every byte the two
\* have written the same.
LEMMA EditsAgree ==
    ASSUME NEW reps \in Seq(Replacements), ~Refused(Size, reps)
    PROVE  Edited(Source, reps) = Assembled(Source, reps)
<1> DEFINE o == Ordered(reps)
           n == Len(o)
           ins(x) == FlattenSeq(Inserted(reps, x))
           kept(x) == KeptByte(reps, x)
<1>1. Valid(Size, o) /\ Size \in Nat
    BY InputsOK DEF Refused, Size
<1>2. PICK p : Listed(reps, o, p)
    BY OrderedLists
<1>3. o \in Seq(Replacements) /\ n \in Nat /\ DOMAIN o = 1..n
    BY <1>2 DEF Listed
<1>4. Assembled(Source, reps) =
          FlattenSeq(Pieces(o)) \o SubSeq(Source, Cursor(o, n) + 1, Size)
    BY <1>3 DEF Assembled, Pieces, Piece, Size
<1> HIDE DEF o
<1>5. PICK A \in [0..n -> Seq(Byte)] : Flattens(A, Pieces(o))
    BY <1>1, <1>3, PiecesTyped, FlattensExists
<1>6. FlattenSeq(Pieces(o)) = A[n]
    BY <1>1, <1>3, <1>5, PiecesTyped, FlattenIs
<1>7. Assembles(A, o)
    BY <1>1, <1>3, <1>5 DEF Assembles
<1> HIDE DEF n
<1>8. Edits(reps) \in Seq(Seq(Byte)) /\ Len(Edits(reps)) = Size + 1
    BY EditsTyped
<1>9. PICK F \in [0..(Size + 1) -> Seq(Byte)] : Flattens(F, Edits(reps))
    BY <1>8, FlattensExists
<1>10. Edited(Source, reps) = F[Size + 1]
    <2>1. FlattenSeq(Edits(reps)) = F[Size + 1]
        BY <1>8, <1>9, FlattenIs
    <2> QED BY <2>1, EditsTyped
<1>11. \A x \in 0..Size : ins(x) \in Seq(Byte) /\ kept(x) \in Seq(Byte)
    BY EditsTyped
<1>12. ASSUME NEW x \in 0..Size PROVE F[x + 1] = (F[x] \o ins(x)) \o kept(x)
    <2>1. x + 1 \in 1..(Size + 1) /\ (x + 1) - 1 = x /\ x \in 0..(Size + 1)
        BY <1>1
    <2>2. Edits(reps)[x + 1] = ins(x) \o kept(x)
        BY <2>1 DEF Edits
    <2>3. F[x + 1] = F[x] \o Edits(reps)[x + 1]
        BY <1>8, <1>9, <2>1 DEF Flattens
    <2>4. F[x] \in Seq(Byte) /\ ins(x) \in Seq(Byte) /\ kept(x) \in Seq(Byte)
        BY <1>11, <2>1
    <2> HIDE DEF ins, kept
    <2>5. (F[x] \o ins(x)) \o kept(x) = F[x] \o (ins(x) \o kept(x))
        BY <2>4, RegroupBytes, Zenon
    <2> QED BY <2>2, <2>3, <2>5
<1> DEFINE Same(x, m) == m \in 0..n /\ SplitAt(o, x, m) /\ F[x] = Reached(A, o, x, m)
           S == {x \in 0..Size : \E m : Same(x, m)}
\* Up to and including what is put in front of byte x.
<1>13. ASSUME NEW x \in 0..Size, x \in S
       PROVE  \E l \in 0..n : /\ SplitAt(o, x + 1, l)
                              /\ F[x] \o ins(x) = Reached(A, o, x, l)
    <2>1. PICK m \in 0..n : SplitAt(o, x, m) /\ F[x] = Reached(A, o, x, m)
        BY <1>13
    <2>2. PICK l \in 0..n : SplitAt(o, x + 1, l)
        <3>1. x + 1 \in Nat
            BY <1>1
        <3> QED BY <1>1, <1>3, <3>1, SplitExists DEF n
    <2>3. Reached(A, o, x, l) = Reached(A, o, x, m) \o FlattenSeq(Inserted(o, x))
        BY <1>7, <2>1, <2>2, InsertStep DEF n
    <2>4. ins(x) = FlattenSeq(Inserted(o, x))
        BY <1>2, SameInsertions
    <2> QED BY <2>1, <2>2, <2>3, <2>4
<1>14. 0 \in S
    <2>1. SplitAt(o, 0, 0)
        <3>1. \A i \in 1..n : o[i].start >= 0
            BY <1>1, <1>3, CursorMoves DEF n
        <3> QED BY <1>3, <3>1 DEF SplitAt, n
    <2>2. F[0] = <<>> /\ A[0] = <<>>
        BY <1>5, <1>9 DEF Flattens
    <2>3. Cursor(o, 0) = 0
        BY DEF Cursor
    <2>4. SubSeq(Source, 0 + 1, 0) = <<>>
        BY <1>1, SourcePart
    <2>5. Reached(A, o, 0, 0) = <<>>
        <3>1. <<>> \o <<>> = <<>>
            BY ConcatEmptySeq
        <3> QED BY <2>2, <2>3, <2>4, <3>1 DEF Reached
    <2>6. 0 \in 0..Size /\ 0 \in 0..n
        BY <1>1, <1>3 DEF n
    <2> QED BY <2>1, <2>2, <2>5, <2>6
<1>15. ASSUME NEW x \in 1..Size, x - 1 \in S PROVE x \in S
    <2> DEFINE y == x - 1
    <2>1. y \in 0..Size /\ y < Size /\ y + 1 = x /\ x \in 0..Size
        BY <1>1
    <2>2. PICK l \in 0..n : SplitAt(o, y + 1, l) /\ F[y] \o ins(y) = Reached(A, o, y, l)
        <3> HIDE DEF S, ins
        <3> QED BY <1>13, <1>15, <2>1
    <2>3. F[y + 1] = (F[y] \o ins(y)) \o kept(y)
        BY <1>12, <2>1
    <2> HIDE DEF y, ins
    <2>4. kept(y) = IF Kept(reps, y) THEN <<Source[y + 1]>> ELSE <<>>
        BY <2>1 DEF KeptByte
    <2>5. Reached(A, o, y + 1, l) =
              Reached(A, o, y, l) \o (IF Kept(reps, y) THEN <<Source[y + 1]>> ELSE <<>>)
        BY <1>2, <1>7, <2>1, <2>2, KeptStep DEF n
    <2> HIDE DEF kept
    <2>6. F[y + 1] = Reached(A, o, y + 1, l)
        BY <2>2, <2>3, <2>4, <2>5
    <2> QED BY <2>1, <2>2, <2>6
<1>16. Size \in S /\ Size \in 0..Size
    <2>1. \A x \in 0..Size : x \in S
        <3> HIDE DEF S
        <3> QED BY <1>1, <1>14, <1>15, CountUp, Zenon
    <2> QED BY <1>1, <2>1
<1>17. PICK l \in 0..n : SplitAt(o, Size + 1, l) /\ F[Size] \o ins(Size) = Reached(A, o, Size, l)
    <2> HIDE DEF S, ins
    <2> QED BY <1>13, <1>16
<1>18. l = n
    <2> SUFFICES ASSUME l # n PROVE FALSE
        OBVIOUS
    <2>1. n \in 1..n /\ n \in (l + 1)..n
        BY <1>3, <1>17
    <2>2. o[n].start >= Size + 1
        BY <1>17, <2>1 DEF SplitAt, n
    <2>3. o[n].start \in 0..Size
        BY <1>1, <1>3, <2>1, CursorMoves DEF n
    <2> QED BY <1>1, <2>2, <2>3
<1>19. F[Size + 1] = F[Size] \o ins(Size)
    <2>1. kept(Size) = <<>>
        <3>1. ~(Size < Size)
            BY <1>1
        <3> QED BY <3>1 DEF KeptByte
    <2>2. F[Size + 1] = (F[Size] \o ins(Size)) \o kept(Size)
        BY <1>12, <1>16
    <2>3. F[Size] \o ins(Size) \in Seq(Byte)
        <3>1. F[Size] \in Seq(Byte) /\ ins(Size) \in Seq(Byte)
            BY <1>1, <1>11, <1>16
        <3> HIDE DEF ins
        <3> QED BY <3>1, ConcatProperties
    <2> HIDE DEF ins, kept
    <2> QED BY <2>1, <2>2, <2>3, ConcatEmptySeq
<1>20. Reached(A, o, Size, n) = Assembled(Source, reps)
    BY <1>4, <1>6 DEF Reached, n
<1> HIDE DEF ins
<1> QED BY <1>10, <1>17, <1>18, <1>19, <1>20

\* Every list of replacements is refused, or its plan writes exactly the edited file, of
\* the size announced, in one pass over the source; none is refused whose bytes are apart
\* (transaction.py:51-104, parser.py:216-234, maintenance.py:50-56).
THEOREM PlansAlwaysEdit == RunSpec => []PlansEdit
<1>1. ASSUME NEW reps \in Seq(Replacements) PROVE PlanEdits(Source, reps)
    <2> DEFINE plan == Plan(Size, reps)
    <2>1. Separate(Size, reps) => ~Refused(Size, reps)
        BY SeparateAccepted
    <2>2. ASSUME ~Refused(Size, reps)
          PROVE  /\ Written(Source, plan) = Edited(Source, reps)
                 /\ DestinationSize(plan) = Len(Edited(Source, reps))
                 /\ WellFormed(Size, plan)
                 /\ Assembled(Source, reps) = Written(Source, plan)
        <3>1. /\ plan \in Seq(Op) /\ WellFormed(Size, plan)
              /\ Written(Source, plan) = Assembled(Source, reps)
            BY <2>2, PlanWrites
        <3>2. Edited(Source, reps) = Assembled(Source, reps)
            BY <2>2, EditsAgree
        <3> HIDE DEF plan
        <3>3. DestinationSize(plan) = Len(Written(Source, plan))
            BY <3>1, SizeAnnounced
        <3> QED BY <3>1, <3>2, <3>3
    <2> QED BY <2>1, <2>2 DEF PlanEdits, Size
<1>2. Given => PlansEdit
    BY <1>1, InputKinds DEF PlansEdit
<1> QED BY <1>2, InputGiven, PTL
=============================================================================
