----------------------- MODULE SnapshotCache_proofs -----------------------
(***************************************************************************)
(* Proofs about the read cache (module SnapshotCache), for any processes,      *)
(* threads, calls and limits.                                                 *)
(***************************************************************************)
EXTENDS SnapshotCache, SequenceTheorems, WellFoundedInduction, TLAPS

-----------------------------------------------------------------------------
(***************************************************************************)
(* Induction.  A set of numbers has a least one, so a set that holds 0 and     *)
(* every successor holds them all.                                           *)
(***************************************************************************)
Below == OpToRel(<, Nat)

\* A set of numbers that is not empty has a least member.
LEMMA LeastNumber ==
  ASSUME NEW S, S \subseteq Nat, S # {}
  PROVE  \E m \in S : \A k \in S : m <= k
<1>1. IsWellFoundedOn(Below, Nat)
  BY NatLessThanWellFounded, Zenon DEF Below
<1>2. PICK m \in S : \A k \in S : <<k, m>> \notin Below
  BY <1>1, WFMin, Zenon
<1>3. ASSUME NEW k \in S PROVE m <= k
  <2>1. m \in Nat /\ k \in Nat
    OBVIOUS
  <2>2. k < m => <<k, m>> \in Below
    BY <2>1 DEF Below, OpToRel
  <2>3. QED
    BY <1>2, <2>1, <2>2
<1>4. QED
  BY <1>3, Zenon

\* Induction over the numbers.
LEMMA Induction ==
  ASSUME NEW S, 0 \in S, \A n \in Nat : n \in S => n + 1 \in S
  PROVE  Nat \subseteq S
<1>1. SUFFICES ASSUME Nat \ S # {} PROVE FALSE
  OBVIOUS
<1>2. PICK m \in Nat \ S : \A k \in Nat \ S : m <= k
  <2>1. Nat \ S \subseteq Nat
    OBVIOUS
  <2>2. QED
    BY <1>1, <2>1, LeastNumber, Zenon
<1>3. m # 0
  OBVIOUS
<1>4. m - 1 \in Nat /\ ~(m <= m - 1) /\ (m - 1) + 1 = m
  BY <1>3
<1>5. m - 1 \in S
  BY <1>2, <1>4
<1>6. (m - 1) + 1 \in S
  BY <1>4, <1>5
<1>7. QED
  BY <1>4, <1>6

-----------------------------------------------------------------------------
(***************************************************************************)
(* The weight of a sequence of entries.                                      *)
(***************************************************************************)
\* sum accumulates the weights of the first entries, as the recursion of Sums does.
Adds(sum, n, entries) ==
    /\ sum \in [0..n -> Nat] /\ sum[0] = 0
    /\ \A i \in 1..n : sum[i] = sum[i - 1] + entries[i].weight

\* The recursion of Sums defines a function: there is one that accumulates.
LEMMA SumExists ==
  ASSUME NEW entries, NEW len \in Nat, \A i \in 1..len : entries[i].weight \in Nat
  PROVE  \E sum : Adds(sum, len, entries)
<1> DEFINE S == {n \in Nat : n <= len => \E sum : Adds(sum, n, entries)}
<1>1. 0 \in S
  <2>1. Adds([i \in 0..0 |-> 0], 0, entries)
    BY DEF Adds
  <2>2. QED
    BY <2>1
<1>2. ASSUME NEW n \in Nat, n \in S PROVE n + 1 \in S
  <2>1. CASE ~(n + 1 <= len)
    BY <2>1
  <2>2. CASE n + 1 <= len
    <3>1. PICK sum : Adds(sum, n, entries)
      BY <1>2, <2>2
    <3>2. entries[n + 1].weight \in Nat
      BY <2>2
    <3> DEFINE more == [i \in 0..(n + 1) |->
                          IF i = n + 1 THEN sum[n] + entries[n + 1].weight ELSE sum[i]]
    <3>3. sum[n] \in Nat
      BY <3>1 DEF Adds
    <3>4. more \in [0..(n + 1) -> Nat] /\ more[0] = 0
      BY <3>1, <3>2, <3>3 DEF Adds
    <3>5. ASSUME NEW i \in 1..(n + 1) PROVE more[i] = more[i - 1] + entries[i].weight
      <4>1. CASE i = n + 1
        BY <4>1
      <4>2. CASE i # n + 1
        <5>1. i \in 1..n /\ i - 1 \in 0..n /\ i - 1 # n + 1 /\ i \in 0..(n + 1)
              /\ i - 1 \in 0..(n + 1)
          BY <4>2
        <5>2. more[i] = sum[i] /\ more[i - 1] = sum[i - 1]
          BY <4>2, <5>1
        <5>3. sum[i] = sum[i - 1] + entries[i].weight
          BY <3>1, <5>1 DEF Adds
        <5>4. QED
          BY <5>2, <5>3
      <4>3. QED
        BY <4>1, <4>2
    <3>6. Adds(more, n + 1, entries)
      BY <3>4, <3>5, Zenon DEF Adds
    <3>7. QED
      BY <3>6
  <2>3. QED
    BY <2>1, <2>2
<1>3. Nat \subseteq S
  <2> HIDE DEF S
  <2>1. QED
    BY <1>1, <1>2, Induction, Zenon
<1>4. len \in S
  BY <1>3
<1>5. QED
  BY <1>4

\* Two functions that accumulate the same weights are the same.
LEMMA SumUnique ==
  ASSUME NEW entries, NEW len \in Nat, NEW f, NEW g,
         Adds(f, len, entries), Adds(g, len, entries)
  PROVE  \A n \in 0..len : f[n] = g[n]
<1> DEFINE S == {n \in Nat : n <= len => f[n] = g[n]}
<1>1. 0 \in S
  BY DEF Adds
<1>2. ASSUME NEW n \in Nat, n \in S PROVE n + 1 \in S
  <2>1. CASE ~(n + 1 <= len)
    BY <2>1
  <2>2. CASE n + 1 <= len
    <3>1. n + 1 \in 1..len /\ (n + 1) - 1 = n /\ n <= len
      BY <2>2
    <3>2. f[n + 1] = f[n] + entries[n + 1].weight /\ g[n + 1] = g[n] + entries[n + 1].weight
      BY <3>1 DEF Adds
    <3>3. QED
      BY <1>2, <3>1, <3>2
  <2>3. QED
    BY <2>1, <2>2
<1>3. Nat \subseteq S
  <2> HIDE DEF S
  <2>1. QED
    BY <1>1, <1>2, Induction, Zenon
<1>4. QED
  BY <1>3

\* Sums accumulates.
LEMMA SumsAdd ==
  ASSUME NEW E, \A e \in E : e.weight \in Nat, NEW entries \in Seq(E)
  PROVE  Adds(Sums(entries), Len(entries), entries)
<1> DEFINE len == Len(entries)
<1> DEFINE Rec(f) == [n \in 0..len |-> IF n = 0 THEN 0 ELSE f[n - 1] + entries[n].weight]
<1>1. len \in Nat /\ \A i \in 1..len : entries[i].weight \in Nat
  <2>1. len \in Nat /\ \A i \in 1..len : entries[i] \in E
    OBVIOUS
  <2>2. QED
    BY <2>1
<1>2. PICK sum : Adds(sum, len, entries)
  BY <1>1, SumExists, Zenon
<1>3. sum = Rec(sum)
  BY <1>1, <1>2 DEF Adds
<1>4. Sums(entries) = CHOOSE f : f = Rec(f)
  BY Zenon DEF Sums
<1>5. Sums(entries) = Rec(Sums(entries))
  <2> HIDE DEF Rec
  <2>1. QED
    BY <1>3, <1>4, Zenon
<1>6. \A n \in 0..len : Sums(entries)[n] = sum[n]
  <2> DEFINE f == Sums(entries)
  <2> DEFINE S == {n \in Nat : n <= len => f[n] = sum[n]}
  <2>0. f = Rec(f)
    BY <1>5
  <2>1. f[0] = 0 /\ \A n \in 1..len : f[n] = f[n - 1] + entries[n].weight
    <3> HIDE DEF f
    <3>1. QED
      BY <1>1, <2>0
  <2> HIDE DEF f
  <2>2. 0 \in S
    BY <1>2, <2>1 DEF Adds
  <2>3. ASSUME NEW n \in Nat, n \in S PROVE n + 1 \in S
    <3>1. CASE ~(n + 1 <= len)
      BY <3>1
    <3>2. CASE n + 1 <= len
      <4>1. n + 1 \in 1..len /\ (n + 1) - 1 = n /\ n <= len
        BY <1>1, <3>2
      <4>2. f[n + 1] = f[n] + entries[n + 1].weight
            /\ sum[n + 1] = sum[n] + entries[n + 1].weight
        BY <1>2, <2>1, <4>1 DEF Adds
      <4>3. QED
        BY <2>3, <4>1, <4>2
    <3>3. QED
      BY <3>1, <3>2
  <2>4. Nat \subseteq S
    <3> HIDE DEF S
    <3>1. QED
      BY <2>2, <2>3, Induction, Zenon
  <2>5. QED
    BY <1>1, <2>4 DEF f
<1>7. Sums(entries) = [n \in 0..len |-> Sums(entries)[n]]
  <2> DEFINE f == Sums(entries)
  <2>1. f = Rec(f)
    BY <1>5
  <2> HIDE DEF f
  <2>2. f = [n \in 0..len |-> f[n]]
    BY <2>1
  <2>3. QED
    BY <2>2 DEF f
<1>8. Sums(entries) = sum
  <2>1. sum = [n \in 0..len |-> sum[n]]
    BY <1>2 DEF Adds
  <2> DEFINE f == Sums(entries)
  <2>2. f = [n \in 0..len |-> f[n]] /\ \A n \in 0..len : f[n] = sum[n]
    BY <1>6, <1>7
  <2> HIDE DEF f
  <2>3. f = sum
    BY <2>1, <2>2
  <2>4. QED
    BY <2>3 DEF f
<1>9. QED
  BY <1>2, <1>8, Zenon

\* Whatever accumulates the weights of a sequence is its Sums.
LEMMA WeightIs ==
  ASSUME NEW E, \A e \in E : e.weight \in Nat, NEW entries \in Seq(E),
         NEW sum, Adds(sum, Len(entries), entries)
  PROVE  /\ Weight(entries) = sum[Len(entries)] /\ Weight(entries) \in Nat
         /\ \A n \in 0..Len(entries) : Sums(entries)[n] = sum[n] /\ sum[n] \in Nat
<1>1. Len(entries) \in Nat
  OBVIOUS
<1>2. Adds(Sums(entries), Len(entries), entries)
  BY SumsAdd, Zenon
<1>3. \A n \in 0..Len(entries) : Sums(entries)[n] = sum[n]
  BY <1>1, <1>2, SumUnique
<1>4. Len(entries) \in 0..Len(entries)
  BY <1>1
<1>5. \A n \in 0..Len(entries) : sum[n] \in Nat
  BY DEF Adds
<1>6. QED
  BY <1>3, <1>4, <1>5, Zenon DEF Weight

\* The weight of two sequences, one after the other, is the sum of theirs.
LEMMA WeightJoins ==
  ASSUME NEW E, \A e \in E : e.weight \in Nat, NEW a \in Seq(E), NEW b \in Seq(E)
  PROVE  /\ Weight(a \o b) = Weight(a) + Weight(b)
         /\ Weight(a) \in Nat /\ Weight(b) \in Nat
         /\ Sums(a \o b)[Len(a)] = Weight(a)
<1> DEFINE la == Len(a)
<1> DEFINE lb == Len(b)
<1> DEFINE f == Sums(a)
<1> DEFINE g == Sums(b)
<1> DEFINE h == [i \in 0..(la + lb) |-> IF i <= la THEN f[i] ELSE f[la] + g[i - la]]
<1>1. la \in Nat /\ lb \in Nat
  OBVIOUS
<1>2. Adds(f, la, a) /\ Adds(g, lb, b)
  BY SumsAdd, Zenon
<1>3. a \o b \in Seq(E) /\ Len(a \o b) = la + lb
  OBVIOUS
<1>4. \A i \in 1..la : (a \o b)[i] = a[i]
  OBVIOUS
<1>5. \A i \in (la + 1)..(la + lb) : (a \o b)[i] = b[i - la]
  OBVIOUS
<1>6. Weight(a) = f[la] /\ Weight(b) = g[lb]
  BY DEF Weight
<1> HIDE DEF la, lb, f, g
<1>7. f[la] \in Nat /\ g[lb] \in Nat /\ g[0] = 0 /\ f[0] = 0
  BY <1>1, <1>2 DEF Adds
<1>8. h \in [0..(la + lb) -> Nat]
  <2>1. ASSUME NEW i \in 0..(la + lb) PROVE h[i] \in Nat
    <3>1. CASE i <= la
      <4>1. i \in 0..la
        BY <1>1, <3>1
      <4>2. QED
        BY <1>2, <3>1, <4>1 DEF Adds
    <3>2. CASE ~(i <= la)
      <4>1. i - la \in 0..lb
        BY <1>1, <3>2
      <4>2. g[i - la] \in Nat
        BY <1>2, <4>1 DEF Adds
      <4>3. QED
        BY <1>7, <3>2, <4>2
    <3>3. QED
      BY <3>1, <3>2
  <2>2. QED
    BY <2>1
<1>9. ASSUME NEW i \in 1..(la + lb) PROVE h[i] = h[i - 1] + (a \o b)[i].weight
  <2>0. i \in 0..(la + lb) /\ i - 1 \in 0..(la + lb)
    BY <1>1
  <2>1. CASE i <= la
    <3>1. i \in 1..la /\ i - 1 <= la
      BY <1>1, <2>1
    <3>2. h[i] = f[i] /\ h[i - 1] = f[i - 1]
      BY <2>0, <2>1, <3>1
    <3>3. f[i] = f[i - 1] + a[i].weight
      BY <1>2, <3>1 DEF Adds
    <3>4. (a \o b)[i] = a[i]
      BY <1>4, <3>1
    <3>5. QED
      BY <3>2, <3>3, <3>4, Zenon
  <2>2. CASE ~(i <= la)
    <3>1. i \in (la + 1)..(la + lb) /\ i - la \in 1..lb /\ (i - la) - 1 = (i - 1) - la
      BY <1>1, <2>2
    <3>2. (a \o b)[i] = b[i - la]
      BY <1>5, <3>1
    <3>3. h[i] = f[la] + g[i - la]
      BY <2>0, <2>2
    <3>4. h[i - 1] = f[la] + g[(i - 1) - la]
      <4>1. CASE i - 1 <= la
        <5>1. i - 1 = la /\ (i - 1) - la = 0
          BY <1>1, <2>2, <4>1
        <5>2. h[i - 1] = f[la]
          BY <2>0, <4>1, <5>1
        <5>3. QED
          BY <1>7, <5>1, <5>2
      <4>2. CASE ~(i - 1 <= la)
        BY <2>0, <4>2
      <4>3. QED
        BY <4>1, <4>2
    <3>5. g[i - la] = g[(i - 1) - la] + b[i - la].weight
      BY <1>2, <3>1 DEF Adds
    <3>6. g[(i - 1) - la] \in Nat /\ b[i - la].weight \in Nat
      <4>1. (i - 1) - la \in 0..lb
        BY <1>1, <3>1
      <4>2. b[i - la] \in E
        BY <3>1 DEF lb
      <4>3. QED
        BY <1>2, <4>1, <4>2 DEF Adds
    <3>7. QED
      BY <1>7, <3>2, <3>3, <3>4, <3>5, <3>6
  <2>3. QED
    BY <2>1, <2>2
<1>10. h[0] = 0 /\ h[la] = f[la] /\ h[la + lb] = f[la] + g[lb] /\ la \in 0..(la + lb)
  <2>1. 0 \in 0..(la + lb) /\ la \in 0..(la + lb) /\ la + lb \in 0..(la + lb) /\ 0 <= la
        /\ (la + lb) - la = lb
    BY <1>1
  <2>2. h[0] = 0 /\ h[la] = f[la]
    BY <1>7, <2>1
  <2>3. h[la + lb] = f[la] + g[lb]
    <3>1. CASE la + lb <= la
      <4>1. lb = 0 /\ la + lb = la
        BY <1>1, <3>1
      <4>2. QED
        BY <1>7, <2>2, <4>1
    <3>2. CASE ~(la + lb <= la)
      BY <2>1, <3>2
    <3>3. QED
      BY <3>1, <3>2
  <2>4. QED
    BY <2>1, <2>2, <2>3
<1>11. Adds(h, Len(a \o b), a \o b)
  <2> HIDE DEF h
  <2>1. Adds(h, la + lb, a \o b)
    BY <1>8, <1>9, <1>10, Zenon DEF Adds
  <2>2. QED
    BY <1>3, <2>1, Zenon DEF la, lb
<1> HIDE DEF h
<1>12. Weight(a \o b) = h[la + lb] /\ \A n \in 0..(la + lb) : Sums(a \o b)[n] = h[n]
  BY <1>3, <1>11, WeightIs, Zenon DEF la, lb
<1>13. Sums(a \o b)[la] = h[la]
  BY <1>10, <1>12, Zenon
<1>14. QED
  BY <1>6, <1>7, <1>10, <1>12, <1>13, Zenon DEF la

\* No entries weigh nothing, and one entry weighs what it weighs.
LEMMA WeightOfOne ==
  ASSUME NEW E, \A e \in E : e.weight \in Nat, NEW e \in E
  PROVE  Weight(<<>>) = 0 /\ Weight(<<e>>) = e.weight /\ <<>> \in Seq(E) /\ <<e>> \in Seq(E)
<1>1. <<>> \in Seq(E) /\ <<e>> \in Seq(E) /\ Len(<<e>>) = 1 /\ <<e>>[1] = e /\ Len(<<>>) = 0
  OBVIOUS
<1>2. Adds(Sums(<<>>), 0, <<>>) /\ Adds(Sums(<<e>>), 1, <<e>>)
  BY <1>1, SumsAdd, Zenon
<1>3. Sums(<<>>)[0] = 0 /\ Weight(<<>>) = Sums(<<>>)[0]
  BY <1>1, <1>2, Zenon DEF Adds, Weight
<1> DEFINE s == Sums(<<e>>)
<1>4. Weight(<<e>>) = s[1]
  BY <1>1, Zenon DEF Weight
<1>5. Adds(s, 1, <<e>>)
  BY <1>2
<1> HIDE DEF s
<1>6. s[0] = 0 /\ s[1] = s[1 - 1] + <<e>>[1].weight
  BY <1>5 DEF Adds
<1>7. e.weight \in Nat /\ 1 - 1 = 0 /\ s[1] = s[1 - 1] + e.weight
  BY <1>1, <1>6
<1>8. s[1] = e.weight
  BY <1>6, <1>7
<1>9. QED
  BY <1>1, <1>3, <1>4, <1>8, Zenon

\* Entries that leave a sequence take their weight with them: the first ones, ...
LEMMA WeightWithoutFirst ==
  ASSUME NEW E, \A e \in E : e.weight \in Nat, NEW entries \in Seq(E),
         NEW n \in 0..Len(entries)
  PROVE  /\ Weight(SubSeq(entries, n + 1, Len(entries))) = Weight(entries) - Sums(entries)[n]
         /\ Sums(entries)[n] \in Nat
         /\ SubSeq(entries, n + 1, Len(entries)) \in Seq(E)
<1> DEFINE a == SubSeq(entries, 1, n)
<1> DEFINE b == SubSeq(entries, n + 1, Len(entries))
<1>1. a \in Seq(E) /\ b \in Seq(E) /\ Len(a) = n
  OBVIOUS
<1>2. entries = a \o b
  <2>1. Len(entries) \in Nat /\ n \in Nat
    OBVIOUS
  <2>2. 1 \in 1..Len(entries) + 1 /\ n \in 1 - 1..Len(entries)
        /\ Len(entries) \in n..Len(entries)
    BY <2>1
  <2>3. a \o b = SubSeq(entries, 1, Len(entries))
    BY <2>2, ConcatAdjacentSubSeq, Zenon
  <2>4. QED
    BY <2>3, SubSeqFull
<1> HIDE DEF a, b
<1>3. /\ Weight(a \o b) = Weight(a) + Weight(b)
      /\ Weight(a) \in Nat /\ Weight(b) \in Nat
      /\ Sums(a \o b)[Len(a)] = Weight(a)
  BY <1>1, WeightJoins, Zenon
<1>4. /\ Weight(entries) = Weight(a) + Weight(b)
      /\ Sums(entries)[n] = Weight(a)
  BY <1>1, <1>2, <1>3, Zenon
<1>5. QED
  BY <1>1, <1>3, <1>4 DEF b

\* ... and one in the middle.
LEMMA WeightWithout ==
  ASSUME NEW E, \A e \in E : e.weight \in Nat, NEW entries \in Seq(E),
         NEW i \in 1..Len(entries)
  PROVE  /\ Weight(RemoveAt(entries, i)) = Weight(entries) - entries[i].weight
         /\ Weight(RemoveAt(entries, i)) \in Nat
         /\ RemoveAt(entries, i) \in Seq(E)
<1> DEFINE a == SubSeq(entries, 1, i - 1)
<1> DEFINE b == SubSeq(entries, i + 1, Len(entries))
<1>0. entries[i] \in E
  OBVIOUS
<1>1. a \in Seq(E) /\ b \in Seq(E) /\ <<entries[i]>> \in Seq(E)
  BY <1>0
<1>2. entries = a \o (<<entries[i]>> \o b)
  <2>1. Len(entries) \in Nat /\ i \in Nat /\ (i - 1) + 1 = i
    OBVIOUS
  <2>2. a \o SubSeq(entries, i, Len(entries)) = SubSeq(entries, 1, Len(entries))
    <3>1. 1 \in 1..Len(entries) + 1 /\ i - 1 \in 1 - 1..Len(entries)
          /\ Len(entries) \in i - 1..Len(entries)
      BY <2>1
    <3>2. a \o SubSeq(entries, (i - 1) + 1, Len(entries)) = SubSeq(entries, 1, Len(entries))
      BY <3>1, ConcatAdjacentSubSeq, Zenon
    <3>3. QED
      BY <2>1, <3>2, Zenon
  <2>3. SubSeq(entries, i, Len(entries)) = <<entries[i]>> \o b
    BY <2>1, SubSeqRecursiveFirst
  <2>4. QED
    BY <2>2, <2>3, SubSeqFull
<1>3. RemoveAt(entries, i) = a \o b
  BY DEF RemoveAt
<1>4. Weight(<<entries[i]>>) = entries[i].weight /\ entries[i].weight \in Nat
  BY <1>0, WeightOfOne, Zenon
<1>5. <<entries[i]>> \o b \in Seq(E)
  BY <1>1
<1>6. a \o b \in Seq(E)
  BY <1>1
<1> HIDE DEF a, b
<1>7. Weight(<<entries[i]>> \o b) = Weight(<<entries[i]>>) + Weight(b) /\ Weight(b) \in Nat
  BY <1>1, WeightJoins, Zenon
<1>8. Weight(a \o (<<entries[i]>> \o b)) = Weight(a) + Weight(<<entries[i]>> \o b)
      /\ Weight(a) \in Nat
  BY <1>1, <1>5, WeightJoins, Zenon
<1>9. Weight(a \o b) = Weight(a) + Weight(b)
  BY <1>1, WeightJoins, Zenon
<1>10. Weight(entries) = Weight(a) + (entries[i].weight + Weight(b))
  BY <1>2, <1>4, <1>7, <1>8, Zenon
<1>11. Weight(a) + Weight(b) = Weight(entries) - entries[i].weight
  BY <1>4, <1>7, <1>8, <1>10
<1>12. Weight(a) + Weight(b) \in Nat
  BY <1>7, <1>8
<1>13. QED
  BY <1>3, <1>6, <1>9, <1>11, <1>12, Zenon

\* An entry that is added brings its weight.
LEMMA WeightWith ==
  ASSUME NEW E, \A e \in E : e.weight \in Nat, NEW entries \in Seq(E), NEW e \in E
  PROVE  /\ Weight(Append(entries, e)) = Weight(entries) + e.weight
         /\ Weight(entries) \in Nat
         /\ Append(entries, e) \in Seq(E)
<1>1. <<e>> \in Seq(E) /\ Append(entries, e) = entries \o <<e>> /\ Append(entries, e) \in Seq(E)
  OBVIOUS
<1>2. Weight(entries \o <<e>>) = Weight(entries) + Weight(<<e>>) /\ Weight(entries) \in Nat
  BY <1>1, WeightJoins, Zenon
<1>3. Weight(<<e>>) = e.weight
  BY WeightOfOne, Zenon
<1>4. QED
  BY <1>1, <1>2, <1>3, Zenon

-----------------------------------------------------------------------------
(***************************************************************************)
(* The inductive invariant.                                                  *)
(***************************************************************************)
Weights == {0, ScanWeight, SidecarWeight}
Locals == [key : Gens, first : Gens, gen : Gens, index : Gens, weight : Weights,
           content : Nat, began : Gens, alarm : BOOLEAN]
Forms == [content : 1..MaxGens, canonical : BOOLEAN]

\* What is left of a read, step by step, the first time and after it opened again.
R7 == <<"stat", "lookup", "map", "index", "save", "restat", "file">>
R6 == <<"lookup", "map", "index", "save", "restat", "file">>
R5 == <<"map", "index", "save", "restat", "file">>
R4 == <<"index", "save", "restat", "file">>
R3 == <<"save", "restat", "file">>
R2 == <<"restat", "file">>
A5 == <<"map", "index", "save", "restat2", "file">>
A4 == <<"index", "save", "restat2", "file">>
A3 == <<"save", "restat2", "file">>
A2 == <<"restat2", "file">>
R1 == <<"file">>

\* The steps left are not those of a read, and neither "index" nor "parse" is the last.
Labels == {"map", "index", "save", "drop", "unlink", "commit", "restore", "patch", "parse",
           "canon", "compare"}
NoRead(s) == s \in Seq(Labels) /\ (s # <<>> => s[Len(s)] \notin {"index", "parse"})
Steps == Labels \cup {"stat", "lookup", "restat", "restat2", "file"}

TypeInv ==
    /\ files \in Seq(Forms) /\ Len(files) \in 1..MaxGens
    /\ sidecar \in Nat /\ sidecar <= Len(files)
    /\ cache \in [Procs -> Seq(Entries)] /\ bytes \in [Procs -> Nat]
    /\ todo \in [Threads -> Seq(Steps)]
    /\ local \in [Threads -> Locals]
    /\ \A t \in Threads : /\ local[t].key <= Len(files) /\ local[t].gen <= Len(files)
                          /\ local[t].began <= Len(files) /\ local[t].index <= Len(files)
    /\ calls \in [Threads -> Nat] /\ \A t \in Threads : calls[t] <= MaxCalls[t]

\* What the locals of a read say of each other once only the steps s are left.
Stage(s, l, head) ==
    \/ NoRead(s)
    \/ s = R7 /\ l.began <= head
    \/ s \in {R6, R5} /\ l.began <= l.first /\ l.key = l.first
    \/ /\ s \in {R4, R3, R2} /\ l.began <= l.first /\ l.key = l.first /\ l.first <= l.gen
       /\ s # R4 => l.gen = l.index
    \/ s = A5 /\ l.began <= l.first /\ l.first < l.key
    \/ /\ s \in {A4, A3, A2} /\ l.began <= l.first /\ l.first < l.key /\ l.key <= l.gen
       /\ s # A4 => l.gen = l.index
    \/ /\ s = R1 /\ l.began <= l.first /\ l.first <= l.gen /\ l.gen = l.index
       /\ l.key = l.gen \/ l.key >= l.first + 2

ReadInv == \A t \in Threads : Stage(todo[t], local[t], Len(files))

\* What is true of every entry of a cache.
Honest(e) == e.gen = e.index /\ (e.key = e.gen \/ MetTwo(e))
EntryInv == \A p \in Procs : \A i \in 1..Len(cache[p]) : Honest(cache[p][i])

AccountInv ==
    \A p \in Procs :
        /\ bytes[p] = Weight(cache[p])
        /\ bytes[p] <= MaxWeight /\ Len(cache[p]) <= MaxEntries
        /\ \A i, j \in 1..Len(cache[p]) : cache[p][i].key = cache[p][j].key => i = j

\* The content of a generation is that of the commit that wrote it, which is its own or
\* an earlier one: what a thread has fingerprinted is not newer than the file, and where
\* optimize saw a difference, somebody has committed since.
Alarming(l) == \E g \in (l.content + 1)..Len(files) : files[g].content = g
ContentInv ==
    /\ \A g \in 1..Len(files) :
          /\ files[g].content \in 1..g /\ files[g].content <= files[Len(files)].content
          /\ files[files[g].content].content = files[g].content
    /\ \A t \in Threads :
          /\ local[t].content <= files[Len(files)].content
          /\ local[t].alarm => todo[t] \in {<<>>, <<"drop">>} /\ Alarming(local[t])

\* Only read has the steps of a read.
LEMMA ProgramSteps ==
  \A o \in DOMAIN Program :
      IF o = "read" THEN Program[o] = R7 ELSE NoRead(Program[o])
<1>1. Program["read"] = R7
  BY DEF Program, R7
<1>2. NoRead(Program["inspect"])
  <2>1. Program["inspect"] =
     <<"map", "index", "save">>
    BY DEF Program
  <2>2. <<"map", "index", "save">> \in Seq(Labels)
    BY DEF Labels
  <2>3. Len(<<"map", "index", "save">>) = 3
    OBVIOUS
  <2>4. QED
    BY <2>1, <2>2, <2>3 DEF NoRead
<1>3. NoRead(Program["rebuild"])
  <2>1. Program["rebuild"] =
     <<"drop", "unlink", "map", "index", "save">>
    BY DEF Program
  <2>2. <<"drop", "unlink", "map", "index", "save">> \in Seq(Labels)
    BY DEF Labels
  <2>3. Len(<<"drop", "unlink", "map", "index", "save">>) = 5
    OBVIOUS
  <2>4. QED
    BY <2>1, <2>2, <2>3 DEF NoRead
<1>4. NoRead(Program["mutate"])
  <2>1. Program["mutate"] =
     <<"drop", "commit", "drop", "unlink", "map", "index", "save", "unlink">>
    BY DEF Program
  <2>2. <<"drop", "commit", "drop", "unlink", "map", "index", "save", "unlink">> \in Seq(Labels)
    BY DEF Labels
  <2>3. Len(<<"drop", "commit", "drop", "unlink", "map", "index", "save", "unlink">>) = 8
    OBVIOUS
  <2>4. QED
    BY <2>1, <2>2, <2>3 DEF NoRead
<1>5. NoRead(Program["transact"])
  <2>1. Program["transact"] =
     <<"drop", "commit", "drop", "unlink">>
    BY DEF Program
  <2>2. <<"drop", "commit", "drop", "unlink">> \in Seq(Labels)
    BY DEF Labels
  <2>3. Len(<<"drop", "commit", "drop", "unlink">>) = 4
    OBVIOUS
  <2>4. QED
    BY <2>1, <2>2, <2>3 DEF NoRead
<1>6. NoRead(Program["restore"])
  <2>1. Program["restore"] =
     <<"restore", "drop", "unlink", "map", "index", "save", "unlink">>
    BY DEF Program
  <2>2. <<"restore", "drop", "unlink", "map", "index", "save", "unlink">> \in Seq(Labels)
    BY DEF Labels
  <2>3. Len(<<"restore", "drop", "unlink", "map", "index", "save", "unlink">>) = 7
    OBVIOUS
  <2>4. QED
    BY <2>1, <2>2, <2>3 DEF NoRead
<1>7. NoRead(Program["repair"])
  <2>1. Program["repair"] =
     <<"drop", "patch", "map", "index", "save", "map", "index", "save",
        "map", "index", "save", "drop", "unlink">>
    BY DEF Program
  <2>2. <<"drop", "patch", "map", "index", "save", "map", "index", "save",
        "map", "index", "save", "drop", "unlink">> \in Seq(Labels)
    BY DEF Labels
  <2>3. Len(<<"drop", "patch", "map", "index", "save", "map", "index", "save",
        "map", "index", "save", "drop", "unlink">>) = 13
    OBVIOUS
  <2>4. QED
    BY <2>1, <2>2, <2>3 DEF NoRead
<1>8. NoRead(Program["optimize"])
  <2>1. Program["optimize"] =
     <<"drop", "parse", "canon", "compare", "map", "index", "save", "unlink",
        "map", "index", "save", "drop">>
    BY DEF Program
  <2>2. <<"drop", "parse", "canon", "compare", "map", "index", "save", "unlink",
        "map", "index", "save", "drop">> \in Seq(Labels)
    BY DEF Labels
  <2>3. Len(<<"drop", "parse", "canon", "compare", "map", "index", "save", "unlink",
        "map", "index", "save", "drop">>) = 12
    OBVIOUS
  <2>4. QED
    BY <2>1, <2>2, <2>3 DEF NoRead
<1>9. DOMAIN Program = {"read", "inspect", "rebuild", "mutate", "transact", "restore",
                        "repair", "optimize"}
  BY DEF Program
<1>10. QED
  BY <1>1, <1>2, <1>3, <1>4, <1>5, <1>6, <1>7, <1>8, <1>9, Zenon

\* What is left after a step, and the steps that are jumped to.
LEMMA NoReadSteps ==
  /\ \A s : NoRead(s) => s \in Seq(Steps)
  /\ \A s \in Seq(Steps) : s # <<>> => Tail(s) \in Seq(Steps)
  /\ \A s : NoRead(s) /\ s # <<>> => NoRead(Tail(s)) /\ Head(s) \in Labels
  /\ \A s : NoRead(s) /\ s # <<>> /\ Head(s) \in {"index", "parse"} => Tail(s) # <<>>
  /\ NoRead(<<>>) /\ NoRead(<<"drop">>) /\ NoRead(<<"drop", "unlink">>)
  /\ Again \in Seq(Steps) /\ Again = A5 /\ R7 \in Seq(Steps)
<1>1. \A s : s \in Seq(Labels) => s \in Seq(Steps)
  <2>1. Labels \subseteq Steps
    BY DEF Steps
  <2>2. QED
    BY <2>1
<1>2. \A s \in Seq(Steps) : s # <<>> => Tail(s) \in Seq(Steps)
  OBVIOUS
<1>3. ASSUME NEW s, NoRead(s), s # <<>>
      PROVE  /\ NoRead(Tail(s)) /\ Head(s) \in Labels
             /\ Head(s) \in {"index", "parse"} => Tail(s) # <<>>
  <2>1. s \in Seq(Labels) /\ s[Len(s)] \notin {"index", "parse"} /\ Len(s) \in Nat \ {0}
    BY <1>3 DEF NoRead
  <2>2. Head(s) = s[1] /\ 1 \in 1..Len(s)
    BY <2>1
  <2>3. Tail(s) \in Seq(Labels) /\ Len(Tail(s)) = Len(s) - 1
        /\ \A i \in 1..(Len(s) - 1) : Tail(s)[i] = s[i + 1]
    BY <1>3, <2>1
  <2>4. ASSUME Tail(s) # <<>> PROVE Tail(s)[Len(Tail(s))] = s[Len(s)]
    <3>1. Len(s) - 1 \in 1..(Len(s) - 1) /\ (Len(s) - 1) + 1 = Len(s)
      BY <2>1, <2>3, <2>4
    <3>2. QED
      BY <2>3, <3>1
  <2>5. ASSUME Tail(s) = <<>> PROVE s[1] = s[Len(s)]
    <3>0. Len(<<>>) = 0
      OBVIOUS
    <3>1. Len(s) - 1 = 0
      BY <2>3, <2>5, <3>0, Zenon
    <3>2. Len(s) = 1
      BY <2>1, <3>1
    <3>3. QED
      BY <3>2
  <2>6. NoRead(Tail(s))
    BY <2>1, <2>3, <2>4 DEF NoRead
  <2>7. QED
    BY <2>1, <2>2, <2>5, <2>6
<1>4. <<>> \in Seq(Labels) /\ <<"drop">> \in Seq(Labels) /\ <<"drop", "unlink">> \in Seq(Labels)
  <2>1. "drop" \in Labels /\ "unlink" \in Labels
    BY DEF Labels
  <2>2. QED
    BY <2>1
<1>5. Again \in Seq(Steps) /\ Again = A5 /\ R7 \in Seq(Steps)
  <2>1. Again = A5
    BY DEF Again, A5
  <2>2. A5 \in Seq(Steps) /\ R7 \in Seq(Steps)
    BY DEF A5, R7, Steps, Labels
  <2>3. QED
    BY <2>1, <2>2, Zenon
<1>6. NoRead(<<>>) /\ NoRead(<<"drop">>) /\ NoRead(<<"drop", "unlink">>)
  <2>1. Len(<<"drop">>) = 1 /\ Len(<<"drop", "unlink">>) = 2
    OBVIOUS
  <2>2. QED
    BY <1>4, <2>1 DEF NoRead
<1>7. \A s : NoRead(s) => s \in Seq(Steps)
  BY <1>1 DEF NoRead
<1>8. QED
  BY <1>2, <1>3, <1>5, <1>6, <1>7, Zenon

\* Where a read is, its steps say: what it does next, and what is left then.
LEMMA ReadSteps ==
  /\ Head(R7) = "stat" /\ Tail(R7) = R6 /\ Head(R6) = "lookup" /\ Tail(R6) = R5
  /\ Head(R5) = "map" /\ Tail(R5) = R4 /\ Head(R4) = "index" /\ Tail(R4) = R3
  /\ Head(R3) = "save" /\ Tail(R3) = R2 /\ Head(R2) = "restat" /\ Tail(R2) = R1
  /\ Head(A5) = "map" /\ Tail(A5) = A4 /\ Head(A4) = "index" /\ Tail(A4) = A3
  /\ Head(A3) = "save" /\ Tail(A3) = A2 /\ Head(A2) = "restat2" /\ Tail(A2) = R1
  /\ Head(R1) = "file" /\ Tail(R1) = <<>>
BY DEF R1, R2, R3, R4, R5, R6, R7, A2, A3, A4, A5

\* Which remainders of a program still file a snapshot.
LEMMA ReadKeepsSnapshot ==
  /\ Contains(R4, "file") /\ Contains(R3, "file") /\ Contains(A4, "file") /\ Contains(A3, "file")
  /\ \A s : NoRead(s) => ~Contains(s, "file")
<1>1. R4[4] = "file" /\ 4 \in 1..Len(R4) /\ R3[3] = "file" /\ 3 \in 1..Len(R3)
  BY DEF R4, R3
<1>2. A4[4] = "file" /\ 4 \in 1..Len(A4) /\ A3[3] = "file" /\ 3 \in 1..Len(A3)
  BY DEF A4, A3
<1>3. \A s \in Seq(Labels) : \A i \in 1..Len(s) : s[i] # "file"
  BY DEF Labels
<1>4. \A s : NoRead(s) => s \in Seq(Labels)
  BY DEF NoRead
<1>5. QED
  BY <1>1, <1>2, <1>3, <1>4, Zenon DEF Contains

-----------------------------------------------------------------------------
(***************************************************************************)
(* What one process does to its cache.                                       *)
(***************************************************************************)
LEMMA EntriesWeigh == \A e \in Entries : e.weight \in Nat
BY CacheConstantsOK DEF Entries

Unique(c) == \A i, j \in 1..Len(c) : c[i].key = c[j].key => i = j

\* What is left when one entry is taken out.
LEMMA TakenOut ==
  ASSUME NEW E, NEW c \in Seq(E), NEW i \in 1..Len(c)
  PROVE  /\ RemoveAt(c, i) \in Seq(E) /\ Len(RemoveAt(c, i)) = Len(c) - 1
         /\ \A k \in 1..(Len(c) - 1) :
                RemoveAt(c, i)[k] = IF k < i THEN c[k] ELSE c[k + 1]
<1> DEFINE a == SubSeq(c, 1, i - 1)
<1> DEFINE b == SubSeq(c, i + 1, Len(c))
<1>1. Len(c) \in Nat /\ i \in Nat /\ RemoveAt(c, i) = a \o b
  BY DEF RemoveAt
<1>2. a \in Seq(E) /\ Len(a) = i - 1 /\ \A k \in 1..(i - 1) : a[k] = c[k]
  OBVIOUS
<1>3. b \in Seq(E) /\ Len(b) = Len(c) - i /\ \A k \in 1..(Len(c) - i) : b[k] = c[i + k]
  OBVIOUS
<1> HIDE DEF a, b
<1>4. a \o b \in Seq(E) /\ Len(a \o b) = Len(c) - 1
  <2>1. a \o b \in Seq(E) /\ Len(a \o b) = Len(a) + Len(b)
    BY <1>2, <1>3, ConcatProperties, Zenon
  <2>2. QED
    BY <1>1, <1>2, <1>3, <2>1
<1>5. ASSUME NEW k \in 1..(Len(c) - 1)
      PROVE  (a \o b)[k] = IF k < i THEN c[k] ELSE c[k + 1]
  <2>1. CASE k < i
    <3>1. k \in 1..Len(a) /\ k \in 1..(i - 1)
      BY <1>1, <1>2, <2>1
    <3>2. (a \o b)[k] = a[k]
      BY <1>2, <1>3, <3>1
    <3>3. QED
      BY <1>2, <2>1, <3>1, <3>2
  <2>2. CASE ~(k < i)
    <3>1. /\ k - (i - 1) \in 1..(Len(c) - i) /\ i + (k - (i - 1)) = k + 1
          /\ k \in (Len(a) + 1)..(Len(a) + Len(b)) /\ k - Len(a) = k - (i - 1)
      BY <1>1, <1>2, <1>3, <2>2
    <3>2. (a \o b)[k] = b[k - Len(a)]
      BY <1>2, <1>3, <3>1
    <3>3. QED
      BY <1>3, <2>2, <3>1, <3>2
  <2>3. QED
    BY <2>1, <2>2
<1>6. QED
  BY <1>1, <1>4, <1>5

\* Every entry left was there before, and no key comes twice.
LEMMA TakenOutKeeps ==
  ASSUME NEW c \in Seq(Entries), NEW i \in 1..Len(c), Unique(c)
  PROVE  LET r == RemoveAt(c, i)
         IN  /\ r \in Seq(Entries) /\ Len(r) = Len(c) - 1 /\ Unique(r)
             /\ Weight(r) = Weight(c) - c[i].weight /\ Weight(r) \in Nat
             /\ \A k \in 1..Len(r) : /\ r[k].key # c[i].key
                                     /\ \E j \in 1..Len(c) : r[k] = c[j]
<1> DEFINE r == RemoveAt(c, i)
<1>1. r \in Seq(Entries) /\ Len(r) = Len(c) - 1
      /\ \A k \in 1..(Len(c) - 1) : r[k] = IF k < i THEN c[k] ELSE c[k + 1]
  BY TakenOut, Zenon
<1>2. Weight(r) = Weight(c) - c[i].weight /\ Weight(r) \in Nat
  BY EntriesWeigh, WeightWithout, Zenon
<1> HIDE DEF r
<1>3. Len(c) \in Nat /\ i \in Nat
  OBVIOUS
<1>4. ASSUME NEW k \in 1..Len(r)
      PROVE  LET j == IF k < i THEN k ELSE k + 1 IN j \in 1..Len(c) /\ j # i /\ r[k] = c[j]
  BY <1>1, <1>3
<1>5. ASSUME NEW k \in 1..Len(r), NEW m \in 1..Len(r), r[k].key = r[m].key PROVE k = m
  <2> DEFINE j == IF k < i THEN k ELSE k + 1
  <2> DEFINE n == IF m < i THEN m ELSE m + 1
  <2>1. j \in 1..Len(c) /\ r[k] = c[j] /\ n \in 1..Len(c) /\ r[m] = c[n]
    BY <1>4
  <2>2. j = n
    <3> HIDE DEF j, n
    <3>1. QED
      BY <1>5, <2>1 DEF Unique
  <2>3. QED
    BY <1>1, <1>3, <2>2
<1>6. ASSUME NEW k \in 1..Len(r)
      PROVE  r[k].key # c[i].key /\ \E j \in 1..Len(c) : r[k] = c[j]
  <2> DEFINE j == IF k < i THEN k ELSE k + 1
  <2>1. j \in 1..Len(c) /\ j # i /\ r[k] = c[j]
    BY <1>4
  <2> HIDE DEF j
  <2>2. QED
    BY <2>1 DEF Unique
<1>7. QED
  BY <1>1, <1>2, <1>5, <1>6 DEF r, Unique

\* An entry with a key of its own is added at the end.
LEMMA Added ==
  ASSUME NEW c \in Seq(Entries), NEW e \in Entries, Unique(c),
         \A k \in 1..Len(c) : c[k].key # e.key
  PROVE  LET r == Append(c, e)
         IN  /\ r \in Seq(Entries) /\ Len(r) = Len(c) + 1 /\ Unique(r)
             /\ Weight(r) = Weight(c) + e.weight /\ Weight(r) \in Nat
             /\ r[Len(c) + 1] = e /\ \A k \in 1..Len(c) : r[k] = c[k]
<1> DEFINE r == Append(c, e)
<1>1. r \in Seq(Entries) /\ Len(r) = Len(c) + 1 /\ Len(c) \in Nat
      /\ r[Len(c) + 1] = e /\ \A k \in 1..Len(c) : r[k] = c[k]
  OBVIOUS
<1>2. Weight(r) = Weight(c) + e.weight /\ Weight(c) \in Nat
  BY EntriesWeigh, WeightWith, Zenon
<1>3. e.weight \in Nat
  BY EntriesWeigh
<1> HIDE DEF r
<1>4. ASSUME NEW i \in 1..Len(r), NEW j \in 1..Len(r), r[i].key = r[j].key PROVE i = j
  <2>1. CASE i = Len(c) + 1 /\ j = Len(c) + 1
    BY <2>1
  <2>2. CASE i # Len(c) + 1 /\ j = Len(c) + 1
    <3>1. i \in 1..Len(c)
      BY <1>1, <2>2
    <3>2. QED
      BY <1>1, <1>4, <2>2, <3>1
  <2>3. CASE i = Len(c) + 1 /\ j # Len(c) + 1
    <3>1. j \in 1..Len(c)
      BY <1>1, <2>3
    <3>2. QED
      BY <1>1, <1>4, <2>3, <3>1
  <2>4. CASE i # Len(c) + 1 /\ j # Len(c) + 1
    <3>1. i \in 1..Len(c) /\ j \in 1..Len(c)
      BY <1>1, <2>4
    <3>2. QED
      BY <1>1, <1>4, <3>1 DEF Unique
  <2>5. QED
    BY <2>1, <2>2, <2>3, <2>4
<1>5. Unique(r)
  BY <1>4 DEF Unique
<1>6. Weight(r) \in Nat
  BY <1>2, <1>3
<1>7. QED
  BY <1>1, <1>2, <1>5, <1>6, Zenon DEF r

\* Evicting the oldest entries brings the cache under both limits.
LEMMA Evicted ==
  ASSUME NEW c \in Seq(Entries), Unique(c)
  PROVE  LET n == Evictions(c, Weight(c))
             r == SubSeq(c, n + 1, Len(c))
         IN  /\ r \in Seq(Entries) /\ Unique(r)
             /\ Weight(r) = Weight(c) - Sums(c)[n] /\ Weight(r) \in Nat
             /\ Weight(r) <= MaxWeight /\ Len(r) <= MaxEntries
             /\ \A k \in 1..Len(r) : \E j \in 1..Len(c) : r[k] = c[j]
<1> DEFINE len == Len(c)
<1> DEFINE Fits(n) == n = len \/ (Weight(c) - Sums(c)[n] <= MaxWeight /\ len - n <= MaxEntries)
<1> DEFINE n == Evictions(c, Weight(c))
<1> DEFINE r == SubSeq(c, n + 1, len)
<1>0. len \in Nat /\ MaxWeight \in Nat /\ MaxEntries \in Nat
  BY CacheConstantsOK
<1>1. \A k \in 0..len : Weight(c) - Sums(c)[k] \in Int
  <2>1. \A k \in 0..len : Sums(c)[k] \in Nat
    BY EntriesWeigh, WeightWithoutFirst, Zenon
  <2>2. Weight(c) = Sums(c)[len] /\ len \in 0..len
    BY <1>0 DEF Weight
  <2>3. QED
    BY <2>1, <2>2
<1>2. \E m \in 0..len : Fits(m) /\ \A k \in 0..(m - 1) : ~Fits(k)
  <2> DEFINE S == {m \in 0..len : Fits(m)}
  <2>1. S \subseteq Nat /\ len \in S
    BY <1>0
  <2>2. PICK m \in S : \A k \in S : m <= k
    <3> HIDE DEF S
    <3>1. QED
      BY <2>1, LeastNumber, Zenon
  <2>3. m \in 0..len /\ Fits(m)
    OBVIOUS
  <2>4. ASSUME NEW k \in 0..(m - 1) PROVE ~Fits(k)
    <3>1. k \in 0..len /\ ~(m <= k)
      BY <1>0, <2>3
    <3>2. k \notin S
      BY <2>2, <3>1
    <3> HIDE DEF Fits
    <3>3. QED
      BY <3>1, <3>2
  <2>5. QED
    BY <2>3, <2>4, Zenon
<1>3. n \in 0..len /\ Fits(n)
  <2> DEFINE Q(m) == /\ Fits(m)
                     /\ \A k \in 0..(m - 1) : Weight(c) - Sums(c)[k] > MaxWeight
                                              \/ len - k > MaxEntries
  <2>1. PICK m \in 0..len : Fits(m) /\ \A k \in 0..(m - 1) : ~Fits(k)
    BY <1>2
  <2>2. ASSUME NEW k \in 0..(m - 1)
        PROVE  Weight(c) - Sums(c)[k] > MaxWeight \/ len - k > MaxEntries
    <3>1. ~Fits(k) /\ k \in 0..len /\ len - k \in Int
      BY <1>0, <2>1
    <3>2. Weight(c) - Sums(c)[k] \in Int
      BY <1>1, <3>1
    <3>3. ~(Weight(c) - Sums(c)[k] <= MaxWeight) \/ ~(len - k <= MaxEntries)
      BY <3>1
    <3>4. QED
      BY <1>0, <3>1, <3>2, <3>3
  <2>3. Q(m)
    BY <2>1, <2>2, Zenon
  <2>4. n = CHOOSE x \in 0..len : Q(x)
    BY Zenon DEF Evictions
  <2>5. n \in 0..len /\ Q(n)
    <3> HIDE DEF n, Q
    <3>1. QED
      BY <2>3, <2>4, Zenon
  <2>6. QED
    BY <2>5, Zenon
<1> HIDE DEF n
<1>4. Weight(r) = Weight(c) - Sums(c)[n] /\ Sums(c)[n] \in Nat /\ r \in Seq(Entries)
  BY <1>3, EntriesWeigh, WeightWithoutFirst, Zenon
<1>5. Len(r) = len - n /\ \A k \in 1..Len(r) : r[k] = c[n + k] /\ n + k \in 1..len
  BY <1>0, <1>3
<1>6. Weight(r) \in Nat
  <2>1. \A d \in Seq(Entries) : Weight(d) \in Nat
    <3> SUFFICES ASSUME NEW d \in Seq(Entries) PROVE Weight(d) \in Nat
      OBVIOUS
    <3>1. QED
      BY EntriesWeigh, WeightJoins, Zenon
  <2>2. QED
    BY <1>4, <2>1
<1> HIDE DEF r
<1>7. Weight(r) <= MaxWeight /\ Len(r) <= MaxEntries
  <2>1. CASE n = len
    <3>1. Weight(r) = 0
      <4>1. Sums(c)[n] = Weight(c)
        BY <2>1 DEF Weight
      <4>2. QED
        BY <1>4, <4>1
    <3>2. QED
      BY <1>0, <1>5, <2>1, <3>1
  <2>2. CASE n # len
    <3>1. Weight(c) - Sums(c)[n] <= MaxWeight /\ len - n <= MaxEntries
      BY <1>3, <2>2, Zenon
    <3>2. QED
      BY <1>4, <1>5, <3>1, Zenon
  <2>3. QED
    BY <2>1, <2>2
<1>8. Unique(r)
  <2> SUFFICES ASSUME NEW i \in 1..Len(r), NEW j \in 1..Len(r), r[i].key = r[j].key
               PROVE  i = j
    BY DEF Unique
  <2>1. n + i \in 1..len /\ n + j \in 1..len /\ c[n + i].key = c[n + j].key
    BY <1>5
  <2>2. n + i = n + j
    BY <2>1 DEF Unique
  <2>3. QED
    BY <1>3, <2>2
<1>9. \A k \in 1..Len(r) : \E j \in 1..len : r[k] = c[j]
  BY <1>5
<1>10. QED
  BY <1>4, <1>6, <1>7, <1>8, <1>9, Zenon DEF n, r

\* What a process has cached, what it weighs and how much of it there may be.
Kept(c, b) == /\ c \in Seq(Entries) /\ b \in Nat /\ b = Weight(c)
              /\ b <= MaxWeight /\ Len(c) <= MaxEntries /\ Unique(c)
\* Every entry of c comes from d or is one of the entries in N.
From(c, d, N) == \A i \in 1..Len(c) : c[i] \in N \/ \E j \in 1..Len(d) : c[i] = d[j]

\* The invariants, cache by cache.
LEMMA CachesKept ==
  ASSUME TypeInv, AccountInv
  PROVE  \A p \in Procs : Kept(cache[p], bytes[p])
BY DEF TypeInv, AccountInv, Kept, Unique

\* A hit moves an entry to the end.
LEMMA LookupKeeps ==
  ASSUME TypeInv, NEW c, NEW b, Kept(c, b), NEW i \in 1..Len(c)
  PROVE  LET r == Append(RemoveAt(c, i), c[i])
         IN  Kept(r, b) /\ From(r, c, {}) /\ Last(r) = c[i]
<1> DEFINE a == RemoveAt(c, i)
<1> DEFINE r == Append(a, c[i])
<1>1. c \in Seq(Entries) /\ Unique(c) /\ Weight(c) = b /\ b \in Nat /\ Len(c) <= MaxEntries
      /\ b <= MaxWeight
  BY DEF Kept
<1>2. /\ a \in Seq(Entries) /\ Len(a) = Len(c) - 1 /\ Unique(a)
      /\ Weight(a) = Weight(c) - c[i].weight /\ Weight(a) \in Nat
      /\ \A k \in 1..Len(a) : /\ a[k].key # c[i].key
                              /\ \E j \in 1..Len(c) : a[k] = c[j]
  BY <1>1, TakenOutKeeps, Zenon
<1>3. c[i] \in Entries /\ Len(c) \in Nat
  BY <1>1
<1>4. c[i].weight \in Nat
  BY <1>3, EntriesWeigh
<1> HIDE DEF a
<1>5. /\ r \in Seq(Entries) /\ Len(r) = Len(a) + 1 /\ Unique(r)
      /\ Weight(r) = Weight(a) + c[i].weight /\ Weight(r) \in Nat
      /\ r[Len(a) + 1] = c[i] /\ \A k \in 1..Len(a) : r[k] = a[k]
  BY <1>2, <1>3, Added, Zenon
<1> HIDE DEF r
<1>6. Weight(r) = b /\ Len(r) = Len(c) /\ Len(a) + 1 = Len(c)
  BY <1>1, <1>2, <1>3, <1>4, <1>5
<1>7. Last(r) = c[i]
  BY <1>5 DEF Last
<1>8. Kept(r, b)
  BY <1>1, <1>5, <1>6 DEF Kept
<1>9. From(r, c, {})
  <2> SUFFICES ASSUME NEW k \in 1..Len(r) PROVE \E j \in 1..Len(c) : r[k] = c[j]
    BY DEF From
  <2>1. CASE k = Len(c)
    BY <1>5, <1>6, <2>1
  <2>2. CASE k # Len(c)
    <3>1. k \in 1..Len(a)
      BY <1>3, <1>6, <2>2
    <3>2. QED
      BY <1>2, <1>5, <3>1
  <2>3. QED
    BY <2>1, <2>2
<1>10. QED
  BY <1>7, <1>8, <1>9 DEF r, a

\* Filing an entry replaces the one of its key, and evicts.
LEMMA FileKeeps ==
  ASSUME TypeInv, NEW p \in Procs, NEW e \in Entries, Kept(cache[p], bytes[p])
  PROVE  LET entries == Append(Others(p, e.key), e)
             total   == bytes[p] - ReplacedWeight(p, e.key) + e.weight
             n       == Evictions(entries, total)
             r       == SubSeq(entries, n + 1, Len(entries))
         IN  Kept(r, total - Sums(entries)[n]) /\ From(r, cache[p], {e})
<1> DEFINE c == cache[p]
<1> DEFINE a == Others(p, e.key)
<1> DEFINE out == ReplacedWeight(p, e.key)
<1>1. c \in Seq(Entries) /\ Unique(c) /\ Weight(c) = bytes[p] /\ bytes[p] \in Nat
  BY DEF Kept
<1>2. DOMAIN c = 1..Len(c)
  BY <1>1
<1>3. /\ a \in Seq(Entries) /\ Unique(a) /\ Weight(a) = bytes[p] - out /\ Weight(a) \in Nat
      /\ \A k \in 1..Len(a) : a[k].key # e.key /\ \E j \in 1..Len(c) : a[k] = c[j]
  <2>1. CASE Hits(p, e.key) = {}
    <3>1. a = c /\ out = 0
      BY <2>1 DEF Others, ReplacedWeight
    <3>2. \A k \in 1..Len(c) : c[k].key # e.key
      BY <1>2, <2>1 DEF Hits
    <3>3. Weight(c) = bytes[p] - 0
      BY <1>1
    <3> HIDE DEF a, c, out
    <3>4. \A k \in 1..Len(a) : a[k].key # e.key /\ \E j \in 1..Len(c) : a[k] = c[j]
      BY <3>1, <3>2
    <3>5. QED
      BY <1>1, <3>1, <3>3, <3>4, Zenon
  <2>2. CASE Hits(p, e.key) # {}
    <3> DEFINE i == Popped(p, e.key)
    <3>1. i \in Hits(p, e.key)
      BY <2>2 DEF Popped
    <3>2. i \in 1..Len(c) /\ c[i].key = e.key
      BY <1>2, <3>1 DEF Hits
    <3>3. a = RemoveAt(c, i) /\ out = c[i].weight
      BY <2>2 DEF Others, ReplacedWeight
    <3> HIDE DEF a, c, out, i
    <3>4. /\ a \in Seq(Entries) /\ Unique(a)
          /\ Weight(a) = Weight(c) - c[i].weight /\ Weight(a) \in Nat
          /\ \A k \in 1..Len(a) : /\ a[k].key # c[i].key
                                  /\ \E j \in 1..Len(c) : a[k] = c[j]
      BY <1>1, <3>2, <3>3, TakenOutKeeps, Zenon
    <3>5. QED
      BY <1>1, <3>2, <3>3, <3>4, Zenon
  <2>3. QED
    BY <2>1, <2>2
<1> DEFINE d == Append(a, e)
<1> DEFINE total == bytes[p] - out + e.weight
<1> HIDE DEF a, out
<1>4. /\ d \in Seq(Entries) /\ Len(d) = Len(a) + 1 /\ Unique(d)
      /\ Weight(d) = Weight(a) + e.weight
      /\ d[Len(a) + 1] = e /\ \A k \in 1..Len(a) : d[k] = a[k]
  BY <1>3, Added, Zenon
<1>5. total = Weight(d)
  BY <1>3, <1>4, Zenon
<1> DEFINE n == Evictions(d, Weight(d))
<1> DEFINE r == SubSeq(d, n + 1, Len(d))
<1> HIDE DEF d, c
<1>6. /\ r \in Seq(Entries) /\ Unique(r)
      /\ Weight(r) = Weight(d) - Sums(d)[n] /\ Weight(r) \in Nat
      /\ Weight(r) <= MaxWeight /\ Len(r) <= MaxEntries
      /\ \A k \in 1..Len(r) : \E j \in 1..Len(d) : r[k] = d[j]
  BY <1>4, Evicted, Zenon
<1>7. Kept(r, Weight(d) - Sums(d)[n])
  <2> HIDE DEF r, n
  <2>1. QED
    BY <1>6, Zenon DEF Kept
<1>8. From(r, c, {e})
  <2> HIDE DEF r, n
  <2> SUFFICES ASSUME NEW k \in 1..Len(r) PROVE r[k] = e \/ \E j \in 1..Len(c) : r[k] = c[j]
    BY DEF From
  <2>1. PICK j \in 1..Len(d) : r[k] = d[j]
    BY <1>6
  <2>2. CASE j = Len(a) + 1
    BY <1>4, <2>1, <2>2
  <2>3. CASE j # Len(a) + 1
    <3>1. Len(a) \in Nat
      BY <1>3
    <3>2. j \in 1..Len(a)
      BY <1>4, <2>3, <3>1
    <3>3. d[j] = a[j]
      BY <1>4, <3>2
    <3>4. QED
      BY <1>3, <2>1, <3>2, <3>3
  <2>4. QED
    BY <2>2, <2>3
<1>9. Kept(SubSeq(d, Evictions(d, total) + 1, Len(d)), total - Sums(d)[Evictions(d, total)])
  <2> HIDE DEF total
  <2>1. QED
    BY <1>5, <1>7, Zenon DEF r, n
<1>10. From(SubSeq(d, Evictions(d, total) + 1, Len(d)), c, {e})
  <2> HIDE DEF total
  <2>1. QED
    BY <1>5, <1>8, Zenon DEF r, n
<1>11. QED
  BY <1>9, <1>10, Zenon DEF d, c, a, out

\* The entry a thread is about to file.
Filing(p) == {Entry(local[t]) : t \in {u \in Threads : ProcOf[u] = p /\ At(u, "file")}}

\* What a thread holds is an entry its process may file.
LEMMA LocalEntry ==
  ASSUME TypeInv, NEW t \in Threads
  PROVE  /\ Entry(local[t]) \in Entries /\ Entry(local[t]).key = local[t].key
         /\ Entry(local[t]).weight = local[t].weight
         /\ Entry(local[t]).gen = local[t].gen /\ Entry(local[t]).index = local[t].index
         /\ Entry(local[t]).first = local[t].first
         /\ ProcOf[t] \in Procs
<1>1. local[t] \in Locals
  BY DEF TypeInv
<1>2. QED
  BY <1>1, CacheConstantsOK DEF Locals, Entries, Entry, Weights

\* The caches after a step.
CachesAfter == /\ cache' = [p \in Procs |-> cache'[p]] /\ bytes' = [p \in Procs |-> bytes'[p]]
        /\ \A p \in Procs : Kept(cache'[p], bytes'[p]) /\ From(cache'[p], cache[p], Filing(p))

\* Every step leaves the caches within their limits and accounted, and files nothing but
\* the snapshot of a thread that is about to file it.
LEMMA CacheStep ==
  ASSUME TypeInv, AccountInv, Next
  PROVE  /\ cache' \in [Procs -> Seq(Entries)] /\ bytes' \in [Procs -> Nat]
         /\ AccountInv'
         /\ \A p \in Procs : From(cache'[p], cache[p], Filing(p))
<1>0. SUFFICES CachesAfter
  <2>1. ASSUME CachesAfter PROVE cache' \in [Procs -> Seq(Entries)] /\ bytes' \in [Procs -> Nat]
    BY <2>1 DEF Kept, CachesAfter
  <2>2. ASSUME CachesAfter PROVE AccountInv'
    BY <2>2 DEF AccountInv, Kept, Unique, CachesAfter
  <2>3. QED
    BY <2>1, <2>2, Zenon DEF CachesAfter
<1>1. /\ cache = [p \in Procs |-> cache[p]] /\ bytes = [p \in Procs |-> bytes[p]]
      /\ DOMAIN cache = Procs /\ DOMAIN bytes = Procs
  BY DEF TypeInv
<1>2. \A p \in Procs : Kept(cache[p], bytes[p])
  BY CachesKept, Zenon
<1>3. \A c, N : From(c, c, N)
  BY DEF From
<1>4. ASSUME cache' = cache, bytes' = bytes PROVE CachesAfter
  BY <1>1, <1>2, <1>3, <1>4, Zenon DEF CachesAfter
<1>5. ASSUME NEW q \in Procs,
             cache' = [p \in Procs |-> cache'[p]], bytes' = [p \in Procs |-> bytes'[p]],
             \A p \in Procs : p # q => cache'[p] = cache[p] /\ bytes'[p] = bytes[p],
             Kept(cache'[q], bytes'[q]), From(cache'[q], cache[q], Filing(q))
      PROVE  CachesAfter
  <2>1. ASSUME NEW p \in Procs
        PROVE  Kept(cache'[p], bytes'[p]) /\ From(cache'[p], cache[p], Filing(p))
    <3>1. CASE p = q
      BY <1>5, <3>1, Zenon
    <3>2. CASE p # q
      BY <1>2, <1>3, <1>5, <3>2, Zenon
    <3>3. QED
      BY <3>1, <3>2, Zenon
  <2>2. QED
    BY <1>5, <2>1, Zenon DEF CachesAfter
<1>6. PICK t \in Threads :
          \/ Begin(t) \/ Stat(t) \/ Lookup(t) \/ Map(t) \/ Index(t) \/ Save(t)
          \/ Restat(t) \/ File(t) \/ Drop(t) \/ Unlink(t) \/ Commit(t) \/ Refused(t)
          \/ Parse(t) \/ Canonicalize(t) \/ Compare(t)
  BY Zenon DEF Next
<1> DEFINE p == ProcOf[t]
<1>7. p \in Procs
  BY LocalEntry, Zenon
<1>9. CASE Lookup(t)
  <2>1. CASE UNCHANGED cache
    <3>1. cache' = cache /\ bytes' = bytes
      BY <1>9, <2>1 DEF Lookup
    <3>2. QED
      BY <1>4, <3>1, Zenon
  <2>2. CASE \E i \in Hits(p, local[t].key) :
                 cache' = [cache EXCEPT ![p] = Append(RemoveAt(@, i), @[i])]
    <3>1. PICK i \in Hits(p, local[t].key) :
                 cache' = [cache EXCEPT ![p] = Append(RemoveAt(cache[p], i), cache[p][i])]
      BY <2>2
    <3>2. i \in 1..Len(cache[p])
      BY <1>7 DEF Hits, TypeInv
    <3> DEFINE r == Append(RemoveAt(cache[p], i), cache[p][i])
    <3>3. Kept(r, bytes[p]) /\ From(r, cache[p], {})
      BY <1>2, <1>7, <3>2, LookupKeeps, Zenon
    <3>4. From(r, cache[p], Filing(p))
      <4> HIDE DEF r
      <4>1. QED
        BY <3>3 DEF From
    <3>5. bytes' = [bytes EXCEPT ![p] = bytes[p]]
      BY <1>1, <1>7, <1>9 DEF Lookup
    <3>6. cache' = [cache EXCEPT ![p] = r]
      BY <3>1
    <3> HIDE DEF r
    <3>7. /\ cache' = [q \in Procs |-> cache'[q]] /\ bytes' = [q \in Procs |-> bytes'[q]]
          /\ \A q \in Procs : q # p => cache'[q] = cache[q] /\ bytes'[q] = bytes[q]
          /\ cache'[p] = r /\ bytes'[p] = bytes[p]
      BY <1>1, <1>7, <3>5, <3>6
    <3>8. Kept(cache'[p], bytes'[p]) /\ From(cache'[p], cache[p], Filing(p))
      BY <3>3, <3>4, <3>7, Zenon
    <3>9. QED
      BY <1>5, <1>7, <3>7, <3>8, Zenon
  <2>3. QED
    BY <1>9, <2>1, <2>2 DEF Lookup
<1>10. CASE File(t)
  <2> DEFINE e == Entry(local[t])
  <2>1. e \in Entries /\ e.key = local[t].key /\ e.weight = local[t].weight
    BY LocalEntry, Zenon
  <2> DEFINE d == Append(Others(p, e.key), e)
  <2> DEFINE total == bytes[p] - ReplacedWeight(p, e.key) + e.weight
  <2> DEFINE n == Evictions(d, total)
  <2> DEFINE r == SubSeq(d, n + 1, Len(d))
  <2>2. cache' = [cache EXCEPT ![p] = r] /\ bytes' = [bytes EXCEPT ![p] = total - Sums(d)[n]]
    BY <1>10, <2>1, Zenon DEF File
  <2>3. Kept(r, total - Sums(d)[n]) /\ From(r, cache[p], {e})
    BY <1>2, <1>7, <2>1, FileKeeps, Zenon
  <2>4. At(t, "file")
    BY <1>10 DEF File
  <2>5. e \in Filing(p)
    BY <2>4 DEF Filing
  <2> DEFINE b == total - Sums(d)[n]
  <2> HIDE DEF b, r, n, total, d, e
  <2>6. From(r, cache[p], Filing(p))
    BY <2>3, <2>5 DEF From
  <2>7. cache' = [cache EXCEPT ![p] = r] /\ bytes' = [bytes EXCEPT ![p] = b]
    BY <2>2, Zenon DEF b
  <2>8. /\ cache' = [q \in Procs |-> cache'[q]] /\ bytes' = [q \in Procs |-> bytes'[q]]
        /\ \A q \in Procs : q # p => cache'[q] = cache[q] /\ bytes'[q] = bytes[q]
        /\ cache'[p] = r /\ bytes'[p] = b
    BY <1>1, <1>7, <2>7
  <2>9. Kept(cache'[p], bytes'[p]) /\ From(cache'[p], cache[p], Filing(p))
    BY <2>3, <2>6, <2>8, Zenon DEF b
  <2>10. QED
    BY <1>5, <1>7, <2>8, <2>9, Zenon
<1>11. CASE Drop(t)
  <2>1. Kept(<<>>, bytes[p] - Weight(cache[p]))
    <3>1. Weight(<<>>) = 0
      <4>1. PICK e : e \in Entries
        BY LocalEntry, Zenon
      <4>2. QED
        BY <4>1, EntriesWeigh, WeightOfOne, Zenon
    <3>2. bytes[p] - Weight(cache[p]) = 0
      BY <1>2, <1>7 DEF Kept
    <3>3. <<>> \in Seq(Entries) /\ Len(<<>>) = 0 /\ Unique(<<>>)
      BY DEF Unique
    <3>4. 0 <= MaxWeight /\ 0 <= MaxEntries
      BY CacheConstantsOK
    <3>5. 0 \in Nat
      OBVIOUS
    <3>6. QED
      BY <3>1, <3>2, <3>3, <3>4, <3>5, Zenon DEF Kept
  <2>2. From(<<>>, cache[p], Filing(p))
    BY DEF From
  <2>3. /\ cache' = [cache EXCEPT ![p] = <<>>]
        /\ bytes' = [bytes EXCEPT ![p] = bytes[p] - Weight(cache[p])]
    BY <1>11 DEF Drop
  <2>4. /\ cache' = [q \in Procs |-> cache'[q]] /\ bytes' = [q \in Procs |-> bytes'[q]]
        /\ \A q \in Procs : q # p => cache'[q] = cache[q] /\ bytes'[q] = bytes[q]
        /\ cache'[p] = <<>> /\ bytes'[p] = bytes[p] - Weight(cache[p])
    BY <1>1, <1>7, <2>3
  <2>5. Kept(cache'[p], bytes'[p]) /\ From(cache'[p], cache[p], Filing(p))
    BY <2>1, <2>2, <2>4, Zenon
  <2>6. QED
    BY <1>5, <1>7, <2>4, <2>5, Zenon
<1>12. QED
  <2>1. CASE \/ Begin(t) \/ Stat(t) \/ Map(t) \/ Index(t) \/ Save(t)
             \/ Restat(t) \/ Unlink(t) \/ Commit(t) \/ Refused(t)
             \/ Parse(t) \/ Canonicalize(t) \/ Compare(t)
    <3>1. cache' = cache /\ bytes' = bytes
      BY <2>1 DEF Begin, Stat, Map, Index, Save, Restat, Unlink, Commit, Refused, Parse,
                  Canonicalize, Compare
    <3>2. QED
      BY <1>4, <3>1, Zenon
  <2>2. QED
    BY <1>6, <1>9, <1>10, <1>11, <2>1, Zenon

-----------------------------------------------------------------------------
(***************************************************************************)
(* What a step leaves of the call of its thread, and of its locals.           *)
(***************************************************************************)
Bounded(l, head) == l.key <= head /\ l.gen <= head /\ l.began <= head /\ l.index <= head

\* The thread goes on to the steps s with the locals l.
Moves(t, s, l) ==
    /\ todo' = [todo EXCEPT ![t] = s] /\ local' = [local EXCEPT ![t] = l]
    /\ s \in Seq(Steps) /\ l \in Locals /\ Bounded(l, Len(files)) /\ Stage(s, l, Len(files))

\* Where a thread is says what is left of its call.
LEMMA AtStage ==
  ASSUME NEW s, NEW l, NEW head, Stage(s, l, head), s # <<>>
  PROVE  /\ Head(s) = "stat" => s = R7
         /\ Head(s) = "lookup" => s = R6
         /\ Head(s) = "map" => s \in {R5, A5} \/ NoRead(s)
         /\ Head(s) = "index" => s \in {R4, A4} \/ NoRead(s)
         /\ Head(s) = "save" => s \in {R3, A3} \/ NoRead(s)
         /\ Head(s) = "restat" => s = R2
         /\ Head(s) = "restat2" => s = A2
         /\ Head(s) = "file" => s = R1
         /\ Head(s) \in Labels \ {"map", "index", "save"} => NoRead(s)
<1>1. s \in {R7, R6, R5, R4, R3, R2, A5, A4, A3, A2, R1} \/ NoRead(s)
  BY DEF Stage
<1>2. CASE NoRead(s)
  <2>1. Head(s) \in Labels
    BY <1>2, NoReadSteps
  <2>2. "stat" \notin Labels /\ "lookup" \notin Labels /\ "restat" \notin Labels
        /\ "restat2" \notin Labels /\ "file" \notin Labels
    BY DEF Labels
  <2>3. QED
    BY <1>2, <2>1, <2>2
<1>3. CASE s \in {R7, R6, R5, R4, R3, R2, A5, A4, A3, A2, R1}
  <2>1. "stat" \notin Labels /\ "lookup" \notin Labels /\ "restat" \notin Labels
        /\ "restat2" \notin Labels /\ "file" \notin Labels
    BY DEF Labels
  <2>2. CASE s \in {R7, R6, R2, A2, R1}
    BY <2>1, <2>2, ReadSteps
  <2>3. CASE s \in {R5, R4, R3, A5, A4, A3}
    BY <2>1, <2>3, ReadSteps
  <2>4. QED
    BY <1>3, <2>2, <2>3
<1>4. QED
  BY <1>1, <1>2, <1>3

\* The steps of a read are different from one another, and from those of other calls.
LEMMA ReadsDiffer ==
  /\ R2 # A2 /\ R3 # A3 /\ R4 # A4 /\ R5 # A5
  /\ ~NoRead(R7) /\ ~NoRead(R6) /\ ~NoRead(R5) /\ ~NoRead(R4) /\ ~NoRead(R3) /\ ~NoRead(R2)
  /\ ~NoRead(A5) /\ ~NoRead(A4) /\ ~NoRead(A3) /\ ~NoRead(A2) /\ ~NoRead(R1)
<1>1. R2 # A2
  BY ReadSteps
<1>2. R3 # A3
  BY <1>1, ReadSteps
<1>3. R4 # A4
  BY <1>2, ReadSteps
<1>4. R5 # A5
  BY <1>3, ReadSteps
<1>5. "stat" \notin Labels /\ "lookup" \notin Labels /\ "restat" \notin Labels
      /\ "restat2" \notin Labels /\ "file" \notin Labels
  BY DEF Labels
<1>6. /\ R7 # <<>> /\ R6 # <<>> /\ R5 # <<>> /\ R4 # <<>> /\ R3 # <<>> /\ R2 # <<>>
      /\ A5 # <<>> /\ A4 # <<>> /\ A3 # <<>> /\ A2 # <<>> /\ R1 # <<>>
  BY DEF R1, R2, R3, R4, R5, R6, R7, A2, A3, A4, A5
<1>7. \A s : NoRead(s) /\ s # <<>> => NoRead(Tail(s)) /\ Head(s) \in Labels
  BY NoReadSteps
<1>8. ~NoRead(R7) /\ ~NoRead(R6) /\ ~NoRead(R2) /\ ~NoRead(A2) /\ ~NoRead(R1)
  BY <1>5, <1>6, <1>7, ReadSteps
<1>9. ~NoRead(R3) /\ ~NoRead(A3)
  BY <1>6, <1>7, <1>8, ReadSteps
<1>10. ~NoRead(R4) /\ ~NoRead(A4)
  BY <1>6, <1>7, <1>9, ReadSteps
<1>11. ~NoRead(R5) /\ ~NoRead(A5)
  BY <1>6, <1>7, <1>10, ReadSteps
<1>12. QED
  BY <1>1, <1>2, <1>3, <1>4, <1>8, <1>9, <1>10, <1>11

\* What Stage says where the read is.
LEMMA StageOf ==
  ASSUME NEW l, NEW head
  PROVE  /\ Stage(R7, l, head) => l.began <= head
         /\ Stage(R6, l, head) => l.began <= l.first /\ l.key = l.first
         /\ Stage(R5, l, head) => l.began <= l.first /\ l.key = l.first
         /\ Stage(R4, l, head) => l.began <= l.first /\ l.key = l.first /\ l.first <= l.gen
         /\ \A s \in {R3, R2} : Stage(s, l, head) =>
                /\ l.began <= l.first /\ l.key = l.first /\ l.first <= l.gen /\ l.gen = l.index
         /\ Stage(A5, l, head) => l.began <= l.first /\ l.first < l.key
         /\ Stage(A4, l, head) => l.began <= l.first /\ l.first < l.key /\ l.key <= l.gen
         /\ \A s \in {A3, A2} : Stage(s, l, head) =>
                /\ l.began <= l.first /\ l.first < l.key /\ l.key <= l.gen /\ l.gen = l.index
         /\ Stage(R1, l, head) =>
                /\ l.began <= l.first /\ l.first <= l.gen /\ l.gen = l.index
                /\ l.key = l.gen \/ l.key >= l.first + 2
<1>1. Stage(R7, l, head) => l.began <= head
  BY ReadsDiffer, ReadSteps DEF Stage
<1>2. Stage(R6, l, head) => l.began <= l.first /\ l.key = l.first
  BY ReadsDiffer, ReadSteps DEF Stage
<1>3. Stage(R5, l, head) => l.began <= l.first /\ l.key = l.first
  BY ReadsDiffer, ReadSteps DEF Stage
<1>4. Stage(R4, l, head) => l.began <= l.first /\ l.key = l.first /\ l.first <= l.gen
  BY ReadsDiffer, ReadSteps DEF Stage
<1>5. Stage(R3, l, head) =>
          l.began <= l.first /\ l.key = l.first /\ l.first <= l.gen /\ l.gen = l.index
  BY ReadsDiffer, ReadSteps DEF Stage
<1>6. Stage(R2, l, head) =>
          l.began <= l.first /\ l.key = l.first /\ l.first <= l.gen /\ l.gen = l.index
  BY ReadsDiffer, ReadSteps DEF Stage
<1>7. Stage(A5, l, head) => l.began <= l.first /\ l.first < l.key
  BY ReadsDiffer, ReadSteps DEF Stage
<1>8. Stage(A4, l, head) => l.began <= l.first /\ l.first < l.key /\ l.key <= l.gen
  BY ReadsDiffer, ReadSteps DEF Stage
<1>9. Stage(A3, l, head) =>
          l.began <= l.first /\ l.first < l.key /\ l.key <= l.gen /\ l.gen = l.index
  BY ReadsDiffer, ReadSteps DEF Stage
<1>10. Stage(A2, l, head) =>
          l.began <= l.first /\ l.first < l.key /\ l.key <= l.gen /\ l.gen = l.index
  BY ReadsDiffer, ReadSteps DEF Stage
<1>11. Stage(R1, l, head) =>
          /\ l.began <= l.first /\ l.first <= l.gen /\ l.gen = l.index
          /\ l.key = l.gen \/ l.key >= l.first + 2
  BY ReadsDiffer, ReadSteps DEF Stage
<1>12. QED
  BY <1>1, <1>2, <1>3, <1>4, <1>5, <1>6, <1>7, <1>8, <1>9, <1>10, <1>11

\* What is known of a thread before it takes a step.
LEMMA BeforeStep ==
  ASSUME TypeInv, ReadInv, NEW t \in Threads
  PROVE  /\ todo[t] \in Seq(Steps) /\ local[t] \in Locals /\ Bounded(local[t], Len(files))
         /\ Stage(todo[t], local[t], Len(files))
         /\ Len(files) \in Gens /\ Len(files) \in Nat /\ sidecar \in Nat /\ sidecar <= Len(files)
         /\ todo = [todo EXCEPT ![t] = todo[t]] /\ local = [local EXCEPT ![t] = local[t]]
BY CacheConstantsOK DEF TypeInv, ReadInv, Bounded, Gens

\* The locals a call starts with.
LEMMA ClearIsLocal ==
  /\ Clear \in Locals /\ \A b \in Gens : [Clear EXCEPT !.began = b] \in Locals
  /\ \A c \in Nat : [Clear EXCEPT !.content = c] \in Locals
  /\ \A head \in Nat : Bounded(Clear, head)
                       /\ \A c \in Nat : Bounded([Clear EXCEPT !.content = c], head)
<1>1. 0 \in Gens /\ 0 \in Weights /\ 0 \in Nat
  BY CacheConstantsOK DEF Gens, Weights
<1>2. Clear \in Locals
  BY <1>1 DEF Clear, Locals
<1>3. ASSUME NEW b \in Gens PROVE [Clear EXCEPT !.began = b] \in Locals
  BY <1>1 DEF Clear, Locals
<1>4. ASSUME NEW c \in Nat PROVE [Clear EXCEPT !.content = c] \in Locals
  BY <1>1 DEF Clear, Locals
<1>5. ASSUME NEW head \in Nat, NEW c \in Nat
      PROVE  Bounded(Clear, head) /\ Bounded([Clear EXCEPT !.content = c], head)
  BY DEF Clear, Bounded
<1>6. QED
  BY <1>2, <1>3, <1>4, <1>5

\* The locals of a step that is not part of a read may be anything.
LEMMA NoReadStage ==
  ASSUME NEW s, NoRead(s) PROVE \A l, head : Stage(s, l, head) /\ s \in Seq(Steps)
BY NoReadSteps DEF Stage

\* A call begins: a read with the generation it found.
LEMMA BeginMoves ==
  ASSUME TypeInv, ReadInv, NEW t \in Threads, Begin(t)
  PROVE  \E s, l : Moves(t, s, l)
<1>1. PICK o \in OpsOf[t] :
        /\ todo' = [todo EXCEPT ![t] = Program[o]]
        /\ local' = [local EXCEPT ![t] =
                        IF o = "read" THEN [Clear EXCEPT !.began = Head_] ELSE Clear]
  BY DEF Begin, Jump
<1>2. o \in DOMAIN Program
  BY CacheConstantsOK
<1>3. Len(files) \in Gens /\ Len(files) \in Nat
  BY BeforeStep, Zenon
<1>4. CASE o = "read"
  <2> DEFINE l == [Clear EXCEPT !.began = Len(files)]
  <2>1. Program[o] = R7 /\ R7 \in Seq(Steps)
    BY <1>2, <1>4, ProgramSteps, NoReadSteps
  <2>2. l \in Locals /\ l.began = Len(files) /\ Bounded(l, Len(files))
    BY <1>3, ClearIsLocal DEF Clear, Bounded
  <2>3. Stage(R7, l, Len(files))
    BY <1>3, <2>2 DEF Stage
  <2>4. todo' = [todo EXCEPT ![t] = R7] /\ local' = [local EXCEPT ![t] = l]
    BY <1>1, <1>4, <2>1 DEF Head_
  <2> HIDE DEF l
  <2>5. QED
    BY <2>1, <2>2, <2>3, <2>4, Zenon DEF Moves
<1>5. CASE o # "read"
  <2>1. NoRead(Program[o])
    BY <1>2, <1>5, ProgramSteps
  <2>2. todo' = [todo EXCEPT ![t] = Program[o]] /\ local' = [local EXCEPT ![t] = Clear]
    BY <1>1, <1>5
  <2>3. Clear \in Locals /\ Bounded(Clear, Len(files))
    BY <1>3, ClearIsLocal, Zenon
  <2>4. QED
    BY <2>1, <2>2, <2>3, NoReadStage, Zenon DEF Moves
<1>6. QED
  BY <1>4, <1>5

\* The first stat of a read is of the current generation.
LEMMA StatMoves ==
  ASSUME TypeInv, ReadInv, NEW t \in Threads, Stat(t)
  PROVE  \E s, l : Moves(t, s, l)
<1> DEFINE l == [local[t] EXCEPT !.key = Head_, !.first = Head_]
<1>1. todo[t] # <<>> /\ Head(todo[t]) = "stat" /\ todo' = [todo EXCEPT ![t] = Tail(todo[t])]
  BY DEF Stat, At, Done
<1>2. todo[t] = R7
  BY <1>1, BeforeStep, AtStage, Zenon
<1>3. local[t].began <= Len(files)
  BY <1>2, BeforeStep, StageOf, Zenon
<1>4. local' = [local EXCEPT ![t] = l]
  BY BeforeStep DEF Stat
<1>5. l \in Locals /\ l.key = Len(files) /\ l.first = Len(files) /\ l.began = local[t].began
      /\ l.gen = local[t].gen /\ l.index = local[t].index
  BY BeforeStep DEF Locals, Head_
<1> HIDE DEF l
<1>6. Bounded(l, Len(files))
  BY <1>3, <1>5, BeforeStep DEF Bounded
<1>7. Stage(R6, l, Len(files))
  BY <1>3, <1>5 DEF Stage
<1>8. Tail(todo[t]) = R6 /\ Tail(todo[t]) \in Seq(Steps)
  BY <1>1, <1>2, BeforeStep, NoReadSteps, ReadSteps
<1>9. QED
  BY <1>1, <1>4, <1>5, <1>6, <1>7, <1>8, Zenon DEF Moves

\* A hit ends the read, a miss goes on to map the file.
LEMMA LookupMoves ==
  ASSUME TypeInv, ReadInv, NEW t \in Threads, Lookup(t)
  PROVE  \E s, l : Moves(t, s, l)
<1>1. todo[t] # <<>> /\ Head(todo[t]) = "lookup"
  BY DEF Lookup, At
<1>2. todo[t] = R6
  BY <1>1, BeforeStep, AtStage, Zenon
<1>3. CASE todo' = [todo EXCEPT ![t] = <<>>] /\ local' = [local EXCEPT ![t] = Clear]
  <2>1. Clear \in Locals /\ Bounded(Clear, Len(files))
    BY BeforeStep, ClearIsLocal, Zenon
  <2>2. Stage(<<>>, Clear, Len(files)) /\ <<>> \in Seq(Steps)
    BY NoReadSteps, NoReadStage, Zenon
  <2>3. QED
    BY <1>3, <2>1, <2>2, Zenon DEF Moves
<1>4. CASE todo' = [todo EXCEPT ![t] = Tail(todo[t])] /\ local' = local
  <2>1. Tail(todo[t]) = R5 /\ Tail(todo[t]) \in Seq(Steps)
    BY <1>1, <1>2, BeforeStep, NoReadSteps, ReadSteps
  <2>2. local[t].began <= local[t].first /\ local[t].key = local[t].first
    BY <1>2, BeforeStep, StageOf, Zenon
  <2>3. Stage(R5, local[t], Len(files))
    BY <2>2 DEF Stage
  <2>4. local' = [local EXCEPT ![t] = local[t]]
    BY <1>4, BeforeStep, Zenon
  <2>5. local[t] \in Locals /\ Bounded(local[t], Len(files))
    BY BeforeStep, Zenon
  <2>6. QED
    BY <1>4, <2>1, <2>3, <2>4, <2>5, Zenon DEF Moves
<1>5. QED
  BY <1>3, <1>4 DEF Lookup, Done, Jump

\* What is mapped is at least as recent as the stat.
LEMMA MapMoves ==
  ASSUME TypeInv, ReadInv, NEW t \in Threads, Map(t)
  PROVE  \E s, l : Moves(t, s, l)
<1> DEFINE l == [local[t] EXCEPT !.gen = Head_]
<1>1. todo[t] # <<>> /\ Head(todo[t]) = "map" /\ todo' = [todo EXCEPT ![t] = Tail(todo[t])]
  BY DEF Map, At, Done
<1>2. todo[t] \in {R5, A5} \/ NoRead(todo[t])
  BY <1>1, BeforeStep, AtStage, Zenon
<1>3. local' = [local EXCEPT ![t] = l]
  BY BeforeStep DEF Map
<1>4. l \in Locals /\ l.key = local[t].key /\ l.first = local[t].first /\ l.gen = Len(files)
      /\ l.began = local[t].began /\ l.index = local[t].index
  BY BeforeStep DEF Locals, Head_
<1>5. /\ local[t].key <= Len(files) /\ Len(files) \in Nat
      /\ local[t].began <= Len(files) /\ local[t].index <= Len(files)
  BY BeforeStep DEF Bounded
<1> HIDE DEF l
<1>6. Bounded(l, Len(files))
  BY <1>4, <1>5 DEF Bounded
<1>7. Tail(todo[t]) \in Seq(Steps)
  BY <1>1, BeforeStep, NoReadSteps
<1>8. Stage(Tail(todo[t]), l, Len(files))
  <2>1. CASE todo[t] = R5
    <3>1. local[t].began <= local[t].first /\ local[t].key = local[t].first
      BY <2>1, BeforeStep, StageOf, Zenon
    <3>2. Stage(R4, l, Len(files))
      BY <1>4, <1>5, <3>1 DEF Stage
    <3>3. QED
      BY <2>1, <3>2, ReadSteps
  <2>2. CASE todo[t] = A5
    <3>1. local[t].began <= local[t].first /\ local[t].first < local[t].key
      BY <2>2, BeforeStep, StageOf, Zenon
    <3>2. Stage(A4, l, Len(files))
      BY <1>4, <1>5, <3>1 DEF Stage
    <3>3. QED
      BY <2>2, <3>2, ReadSteps
  <2>3. CASE NoRead(todo[t])
    BY <1>1, <2>3, NoReadSteps, NoReadStage
  <2>4. QED
    BY <1>2, <2>1, <2>2, <2>3
<1>9. QED
  BY <1>1, <1>3, <1>4, <1>6, <1>7, <1>8, Zenon DEF Moves

\* The index is the mapped generation's, from the sidecar or new.
LEMMA IndexMoves ==
  ASSUME TypeInv, ReadInv, NEW t \in Threads, Index(t)
  PROVE  \E s, l : Moves(t, s, l)
<1>1. todo[t] # <<>> /\ Head(todo[t]) = "index"
  BY DEF Index, At
<1>2. todo[t] \in {R4, A4} \/ NoRead(todo[t])
  BY <1>1, BeforeStep, AtStage, Zenon
<1>3. /\ local[t] \in Locals /\ Bounded(local[t], Len(files)) /\ Len(files) \in Nat
      /\ todo[t] \in Seq(Steps) /\ sidecar \in Nat /\ sidecar <= Len(files)
  BY BeforeStep, Zenon
<1>4. CASE UsesSidecar(local[t].gen)
  <2> DEFINE m == [local[t] EXCEPT !.index = sidecar, !.weight = SidecarWeight]
  <2>1. /\ local' = [local EXCEPT ![t] = Snapshot(t, m)]
        /\ todo' = [todo EXCEPT ![t] = Tail(Tail(todo[t]))]
    BY <1>3, <1>4, BeforeStep DEF Index, Jump
  <2>2. sidecar = local[t].gen /\ local[t].gen \in Gens
    BY <1>3, <1>4 DEF UsesSidecar, Locals
  <2>3. m \in Locals /\ m.index = m.gen /\ m.key = local[t].key /\ m.first = local[t].first
        /\ m.gen = local[t].gen /\ m.began = local[t].began /\ m.content = local[t].content
    BY <1>3, <2>2 DEF Locals, Weights
  <2> HIDE DEF m
  <2>4. Bounded(m, Len(files))
    BY <1>3, <2>2, <2>3 DEF Bounded
  <2>5. CASE todo[t] = R4
    <3>1. Snapshot(t, m) = m /\ Tail(Tail(todo[t])) = R2 /\ R2 \in Seq(Steps)
      <4>1. Snapshot(t, m) = m
        BY <2>5, ReadKeepsSnapshot DEF Snapshot
      <4>2. Tail(Tail(todo[t])) = R2
        BY <2>5, ReadSteps
      <4>3. R2 \in Seq(Steps)
        BY DEF R2, Steps
      <4>4. QED
        BY <4>1, <4>2, <4>3
    <3>2. /\ local[t].began <= local[t].first /\ local[t].key = local[t].first
          /\ local[t].first <= local[t].gen
      BY <2>5, BeforeStep, StageOf, Zenon
    <3>3. R2 # R4
      BY ReadSteps
    <3>4. Stage(R2, m, Len(files))
      BY <2>3, <3>2, <3>3 DEF Stage
    <3>5. QED
      BY <2>1, <2>3, <2>4, <3>1, <3>4, Zenon DEF Moves
  <2>6. CASE todo[t] = A4
    <3>1. Snapshot(t, m) = m /\ Tail(Tail(todo[t])) = A2 /\ A2 \in Seq(Steps)
      <4>1. Snapshot(t, m) = m
        BY <2>6, ReadKeepsSnapshot DEF Snapshot
      <4>2. Tail(Tail(todo[t])) = A2
        BY <2>6, ReadSteps
      <4>3. A2 \in Seq(Steps)
        BY DEF A2, Steps
      <4>4. QED
        BY <4>1, <4>2, <4>3
    <3>2. /\ local[t].began <= local[t].first /\ local[t].first < local[t].key
          /\ local[t].key <= local[t].gen
      BY <2>6, BeforeStep, StageOf, Zenon
    <3>3. A2 # A4
      BY ReadSteps
    <3>4. Stage(A2, m, Len(files))
      BY <2>3, <3>2, <3>3 DEF Stage
    <3>5. QED
      BY <2>1, <2>3, <2>4, <3>1, <3>4, Zenon DEF Moves
  <2>7. CASE NoRead(todo[t])
    <3>1. ~Contains(todo[t], "file")
      BY <2>7, ReadKeepsSnapshot
    <3>2. m.content \in Nat
      BY <2>3 DEF Locals
    <3>3. Snapshot(t, m) \in Locals /\ Bounded(Snapshot(t, m), Len(files))
      BY <1>3, <3>1, <3>2, ClearIsLocal DEF Snapshot
    <3>4. NoRead(Tail(Tail(todo[t])))
      BY <1>1, <2>7, NoReadSteps
    <3>5. QED
      BY <2>1, <3>3, <3>4, NoReadStage, Zenon DEF Moves
  <2>8. QED
    BY <1>2, <2>5, <2>6, <2>7
<1>5. CASE ~UsesSidecar(local[t].gen)
  <2> DEFINE l == [local[t] EXCEPT !.index = local[t].gen, !.weight = ScanWeight]
  <2>1. local' = [local EXCEPT ![t] = l] /\ todo' = [todo EXCEPT ![t] = Tail(todo[t])]
    BY <1>3, <1>5, BeforeStep DEF Index, Done
  <2>2. l \in Locals /\ l.index = l.gen /\ l.key = local[t].key /\ l.first = local[t].first
        /\ l.gen = local[t].gen /\ l.began = local[t].began
    BY <1>3 DEF Locals, Weights
  <2> HIDE DEF l
  <2>3. Bounded(l, Len(files))
    BY <1>3, <2>2 DEF Bounded
  <2>4. Tail(todo[t]) \in Seq(Steps)
    BY <1>1, <1>3, NoReadSteps
  <2>5. Stage(Tail(todo[t]), l, Len(files))
    <3>1. CASE todo[t] = R4
      <4>1. /\ local[t].began <= local[t].first /\ local[t].key = local[t].first
            /\ local[t].first <= local[t].gen
        BY <3>1, BeforeStep, StageOf, Zenon
      <4>2. Stage(R3, l, Len(files))
        BY <2>2, <4>1 DEF Stage
      <4>3. QED
        BY <3>1, <4>2, ReadSteps
    <3>2. CASE todo[t] = A4
      <4>1. /\ local[t].began <= local[t].first /\ local[t].first < local[t].key
            /\ local[t].key <= local[t].gen
        BY <3>2, BeforeStep, StageOf, Zenon
      <4>2. Stage(A3, l, Len(files))
        BY <2>2, <4>1 DEF Stage
      <4>3. QED
        BY <3>2, <4>2, ReadSteps
    <3>3. CASE NoRead(todo[t])
      BY <1>1, <3>3, NoReadSteps, NoReadStage
    <3>4. QED
      BY <1>2, <3>1, <3>2, <3>3
  <2>6. QED
    BY <2>1, <2>2, <2>3, <2>4, <2>5, Zenon DEF Moves
<1>6. QED
  BY <1>4, <1>5

\* A saved sidecar leaves the locals.
LEMMA SaveMoves ==
  ASSUME TypeInv, ReadInv, NEW t \in Threads, Save(t)
  PROVE  \E s, l : Moves(t, s, l)
<1>1. todo[t] # <<>> /\ Head(todo[t]) = "save" /\ todo' = [todo EXCEPT ![t] = Tail(todo[t])]
  BY DEF Save, At, Done
<1>2. todo[t] \in {R3, A3} \/ NoRead(todo[t])
  BY <1>1, BeforeStep, AtStage, Zenon
<1>3. /\ local[t] \in Locals /\ Bounded(local[t], Len(files)) /\ Len(files) \in Nat
      /\ todo[t] \in Seq(Steps)
  BY BeforeStep, Zenon
<1>4. local' = [local EXCEPT ![t] = Snapshot(t, local[t])]
  BY <1>3, BeforeStep DEF Save
<1>5. Tail(todo[t]) \in Seq(Steps)
  BY <1>1, <1>3, NoReadSteps
<1>6. CASE todo[t] = R3
  <2>1. Snapshot(t, local[t]) = local[t] /\ Tail(todo[t]) = R2 /\ R2 # R4
    BY <1>6, ReadKeepsSnapshot, ReadSteps DEF Snapshot
  <2>2. /\ local[t].began <= local[t].first /\ local[t].key = local[t].first
        /\ local[t].first <= local[t].gen /\ local[t].gen = local[t].index
    BY <1>6, BeforeStep, StageOf
  <2>3. Stage(R2, local[t], Len(files))
    BY <2>1, <2>2 DEF Stage
  <2>4. QED
    BY <1>1, <1>3, <1>4, <1>5, <2>1, <2>3, Zenon DEF Moves
<1>7. CASE todo[t] = A3
  <2>1. Snapshot(t, local[t]) = local[t] /\ Tail(todo[t]) = A2 /\ A2 # A4
    BY <1>7, ReadKeepsSnapshot, ReadSteps DEF Snapshot
  <2>2. /\ local[t].began <= local[t].first /\ local[t].first < local[t].key
        /\ local[t].key <= local[t].gen /\ local[t].gen = local[t].index
    BY <1>7, BeforeStep, StageOf
  <2>3. Stage(A2, local[t], Len(files))
    BY <2>1, <2>2 DEF Stage
  <2>4. QED
    BY <1>1, <1>3, <1>4, <1>5, <2>1, <2>3, Zenon DEF Moves
<1>8. CASE NoRead(todo[t])
  <2>1. ~Contains(todo[t], "file")
    BY <1>8, ReadKeepsSnapshot
  <2>2. local[t].content \in Nat
    BY <1>3 DEF Locals
  <2>3. Snapshot(t, local[t]) \in Locals /\ Bounded(Snapshot(t, local[t]), Len(files))
    BY <1>3, <2>1, <2>2, ClearIsLocal DEF Snapshot
  <2>4. NoRead(Tail(todo[t]))
    BY <1>1, <1>8, NoReadSteps
  <2>5. QED
    BY <1>1, <1>4, <2>3, <2>4, NoReadStage, Zenon DEF Moves
<1>9. QED
  BY <1>2, <1>6, <1>7, <1>8

\* The file is filed as mapped, or it was replaced twice.
LEMMA RestatMoves ==
  ASSUME TypeInv, ReadInv, NEW t \in Threads, Restat(t)
  PROVE  \E s, l : Moves(t, s, l)
<1> DEFINE l == [local[t] EXCEPT !.key = Head_]
<1>1. todo[t] # <<>> /\ Head(todo[t]) \in {"restat", "restat2"}
  BY DEF Restat, At
<1>2. todo[t] = R2 \/ todo[t] = A2
  BY <1>1, BeforeStep, AtStage
<1>3. /\ local[t] \in Locals /\ Bounded(local[t], Len(files)) /\ Len(files) \in Nat
      /\ todo[t] \in Seq(Steps) /\ Len(files) \in Gens
  BY BeforeStep, Zenon
<1>4. local' = [local EXCEPT ![t] = l]
  BY BeforeStep DEF Restat
<1>5. l \in Locals /\ l.key = Len(files) /\ l.first = local[t].first /\ l.gen = local[t].gen
      /\ l.index = local[t].index /\ l.began = local[t].began
  BY <1>3 DEF Locals, Head_
<1>6. local[t].first \in Nat /\ local[t].gen \in Nat /\ local[t].key \in Nat
      /\ local[t].gen <= Len(files) /\ local[t].key <= Len(files)
  BY <1>3 DEF Locals, Gens, Bounded
<1> HIDE DEF l
<1>7. Bounded(l, Len(files))
  BY <1>3, <1>5 DEF Bounded
<1>8. R1 \in Seq(Steps) /\ A5 \in Seq(Steps)
  BY DEF R1, A5, Steps, Labels
<1>9. CASE todo[t] = R2 /\ Head_ # local[t].key
  <2>1. todo' = [todo EXCEPT ![t] = A5]
    BY <1>1, <1>9, ReadSteps, NoReadSteps DEF Restat, MustReopen, At, Jump
  <2>2. local[t].began <= local[t].first /\ local[t].key = local[t].first
    BY <1>9, BeforeStep, StageOf
  <2>3. l.began <= l.first /\ l.first < l.key
    BY <1>3, <1>5, <1>6, <1>9, <2>2 DEF Head_
  <2>4. Stage(A5, l, Len(files))
    BY <2>3 DEF Stage
  <2>5. QED
    BY <1>4, <1>5, <1>7, <1>8, <2>1, <2>4, Zenon DEF Moves
<1>10. CASE todo[t] = R2 /\ Head_ = local[t].key
  <2>1. todo' = [todo EXCEPT ![t] = R1]
    BY <1>10, ReadSteps DEF Restat, MustReopen, Done
  <2>2. /\ local[t].began <= local[t].first /\ local[t].key = local[t].first
        /\ local[t].first <= local[t].gen /\ local[t].gen = local[t].index
    BY <1>10, BeforeStep, StageOf
  <2>3. l.began <= l.first /\ l.first <= l.gen /\ l.gen = l.index /\ l.key = l.gen
    BY <1>3, <1>5, <1>6, <1>10, <2>2 DEF Head_
  <2>4. Stage(R1, l, Len(files))
    BY <2>3 DEF Stage
  <2>5. QED
    BY <1>4, <1>5, <1>7, <1>8, <2>1, <2>4, Zenon DEF Moves
<1>11. CASE todo[t] = A2
  <2>1. todo' = [todo EXCEPT ![t] = R1]
    BY <1>11, ReadSteps DEF Restat, MustReopen, Done, At
  <2>2. /\ local[t].began <= local[t].first /\ local[t].first < local[t].key
        /\ local[t].key <= local[t].gen /\ local[t].gen = local[t].index
    BY <1>11, BeforeStep, StageOf
  <2>3. /\ l.began <= l.first /\ l.first <= l.gen /\ l.gen = l.index
        /\ l.key = l.gen \/ l.key >= l.first + 2
    BY <1>3, <1>5, <1>6, <2>2
  <2>4. Stage(R1, l, Len(files))
    BY <2>3 DEF Stage
  <2>5. QED
    BY <1>4, <1>5, <1>7, <1>8, <2>1, <2>4, Zenon DEF Moves
<1>12. QED
  BY <1>2, <1>9, <1>10, <1>11

\* The snapshot is filed and returned.
LEMMA FileMoves ==
  ASSUME TypeInv, ReadInv, NEW t \in Threads, File(t)
  PROVE  \E s, l : Moves(t, s, l)
<1>1. todo[t] # <<>> /\ Head(todo[t]) = "file" /\ todo' = [todo EXCEPT ![t] = Tail(todo[t])]
      /\ local' = [local EXCEPT ![t] = Clear]
  BY DEF File, At, Done
<1>2. todo[t] = R1
  BY <1>1, BeforeStep, AtStage, Zenon
<1>3. NoRead(Tail(todo[t]))
  <2>1. Tail(todo[t]) = <<>>
    BY <1>2, ReadSteps
  <2>2. NoRead(<<>>)
    BY NoReadSteps, Zenon
  <2>3. QED
    BY <2>1, <2>2, Zenon
<1>4. Clear \in Locals /\ Bounded(Clear, Len(files))
  BY BeforeStep, ClearIsLocal, Zenon
<1>5. QED
  BY <1>1, <1>3, <1>4, NoReadStage, Zenon DEF Moves

\* The other calls keep nothing but a fingerprint.
LEMMA OtherMoves ==
  ASSUME TypeInv, ReadInv, NEW t \in Threads,
         Drop(t) \/ Unlink(t) \/ Commit(t) \/ Refused(t) \/ Parse(t) \/ Canonicalize(t)
           \/ Compare(t)
  PROVE  \E s, l : Moves(t, s, l)
<1>1. todo[t] # <<>> /\ Head(todo[t]) \in Labels \ {"map", "index", "save"}
  BY DEF Drop, Unlink, Commit, Refused, Parse, Canonicalize, Compare, At, Labels
<1>2. NoRead(todo[t])
  BY <1>1, BeforeStep, AtStage, Zenon
<1>3. PICK s : /\ \/ s = Tail(todo[t]) \/ s = <<>> \/ s = <<"drop">> \/ s = <<"drop", "unlink">>
                  \/ s = Tail(Tail(todo[t])) /\ At(t, "parse")
               /\ todo' = [todo EXCEPT ![t] = s]
  BY DEF Drop, Unlink, Commit, Refused, Parse, Canonicalize, Compare, Done, Jump
<1>4. NoRead(s)
  <2>1. NoRead(Tail(todo[t])) /\ NoRead(<<>>) /\ NoRead(<<"drop">>)
        /\ NoRead(<<"drop", "unlink">>)
    BY <1>1, <1>2, NoReadSteps
  <2>2. At(t, "parse") => NoRead(Tail(Tail(todo[t])))
    BY <1>1, <1>2, NoReadSteps DEF At
  <2>3. QED
    BY <1>3, <2>1, <2>2
<1>5. \E l : l \in Locals /\ Bounded(l, Len(files)) /\ local' = [local EXCEPT ![t] = l]
  <2>1. CASE local' = local
    BY <2>1, BeforeStep, Zenon
  <2>2. CASE Parse(t)
    <3> DEFINE l == [local[t] EXCEPT !.content = files[Head_].content]
    <3>1. files[Head_].content \in Nat
      <4>1. files \in Seq(Forms) /\ Len(files) \in 1..Len(files)
        BY BeforeStep DEF TypeInv
      <4>2. files[Len(files)] \in Forms
        BY <4>1
      <4>3. QED
        BY <4>2, CacheConstantsOK DEF Forms, Head_
    <3>2. l \in Locals /\ Bounded(l, Len(files))
      BY <3>1, BeforeStep DEF Locals, Bounded
    <3>3. local' = [local EXCEPT ![t] = l]
      BY <2>2, BeforeStep DEF Parse
    <3>4. QED
      BY <3>2, <3>3, Zenon
  <2>3. CASE local' = [local EXCEPT ![t].alarm = TRUE]
    <3> DEFINE l == [local[t] EXCEPT !.alarm = TRUE]
    <3>1. l \in Locals /\ Bounded(l, Len(files))
      BY BeforeStep DEF Locals, Bounded
    <3>2. local' = [local EXCEPT ![t] = l]
      BY <2>3, BeforeStep
    <3>3. QED
      BY <3>1, <3>2, Zenon
  <2>4. QED
    <3>1. local' = local \/ Parse(t) \/ local' = [local EXCEPT ![t].alarm = TRUE]
      BY DEF Drop, Unlink, Commit, Refused, Canonicalize, Compare
    <3>2. QED
      BY <2>1, <2>2, <2>3, <3>1, Zenon
<1>6. QED
  BY <1>3, <1>4, <1>5, NoReadStage, Zenon DEF Moves

-----------------------------------------------------------------------------
(***************************************************************************)
(* Every step keeps the invariant.                                           *)
(***************************************************************************)
Step(t) == \/ Begin(t) \/ Stat(t) \/ Lookup(t) \/ Map(t) \/ Index(t) \/ Save(t)
           \/ Restat(t) \/ File(t) \/ Drop(t) \/ Unlink(t) \/ Commit(t) \/ Refused(t)
           \/ Parse(t) \/ Canonicalize(t) \/ Compare(t)

\* Every step is a thread's.
LEMMA SomeoneSteps ==
  ASSUME Next PROVE \E t \in Threads : Step(t)
BY Zenon DEF Next, Step

\* Every step moves one thread along its program.
LEMMA StepMoves ==
  ASSUME TypeInv, ReadInv, NEW t \in Threads, Step(t)
  PROVE  \E s, l : Moves(t, s, l)
BY BeginMoves, StatMoves, LookupMoves, MapMoves, IndexMoves, SaveMoves, RestatMoves, FileMoves,
   OtherMoves, Zenon DEF Step

\* A generation that is added has content of its own or that of the one before it.
LEMMA FilesGrow ==
  ASSUME TypeInv, NEW t \in Threads, Step(t)
  PROVE  \/ files' = files
         \/ \E f \in Forms : /\ files' = Append(files, f) /\ Len(files) < MaxGens
                             /\ f.content \in {Len(files) + 1, files[Len(files)].content}
<1>1. files \in Seq(Forms) /\ Len(files) \in 1..MaxGens /\ MaxGens \in Nat
  BY CacheConstantsOK DEF TypeInv
<1>2. files[Len(files)] \in Forms
  BY <1>1
<1>3. CASE Commit(t)
  <2>1. PICK c \in BOOLEAN : Replace(Len(files) + 1, c)
    BY <1>3 DEF Commit, Head_
  <2> DEFINE f == [content |-> Len(files) + 1, canonical |-> c]
  <2>2. files' = Append(files, f) /\ Len(files) < MaxGens
    BY <2>1 DEF Replace, Head_
  <2>3. Len(files) + 1 \in 1..MaxGens
    BY <1>1, <2>2
  <2>4. f \in Forms /\ f.content = Len(files) + 1
    BY <2>3 DEF Forms
  <2> HIDE DEF f
  <2>5. QED
    BY <2>2, <2>4
<1>4. CASE Canonicalize(t)
  <2> DEFINE f == [content |-> files[Len(files)].content, canonical |-> TRUE]
  <2>1. files' = Append(files, f) /\ Len(files) < MaxGens
    BY <1>4 DEF Canonicalize, CanonicalContent, Replace, Head_
  <2>2. f \in Forms /\ f.content = files[Len(files)].content
    BY <1>2 DEF Forms
  <2> HIDE DEF f
  <2>3. QED
    BY <2>1, <2>2
<1>5. CASE ~Commit(t) /\ ~Canonicalize(t)
  BY <1>5 DEF Step, Begin, Stat, Lookup, Map, Index, Save, Restat, File, Drop, Unlink, Refused,
              Parse, Compare
<1>6. QED
  BY <1>3, <1>4, <1>5

\* Generations are only added.
LEMMA FilesAfter ==
  ASSUME TypeInv, NEW t \in Threads, Step(t)
  PROVE  /\ files' \in Seq(Forms) /\ Len(files') \in 1..MaxGens /\ Len(files) <= Len(files')
         /\ \A g \in 1..Len(files) : files'[g] = files[g]
<1>1. files \in Seq(Forms) /\ Len(files) \in 1..MaxGens /\ MaxGens \in Nat
  BY CacheConstantsOK DEF TypeInv
<1>2. CASE files' = files
  BY <1>1, <1>2
<1>3. ASSUME NEW f \in Forms, files' = Append(files, f), Len(files) < MaxGens
      PROVE  /\ files' \in Seq(Forms) /\ Len(files') \in 1..MaxGens /\ Len(files) <= Len(files')
             /\ \A g \in 1..Len(files) : files'[g] = files[g]
  <2>1. /\ Append(files, f) \in Seq(Forms) /\ Len(Append(files, f)) = Len(files) + 1
        /\ \A g \in 1..Len(files) : Append(files, f)[g] = files[g]
    BY <1>1
  <2>2. Len(files) + 1 \in 1..MaxGens
    BY <1>1, <1>3
  <2>3. QED
    BY <1>1, <1>3, <2>1, <2>2
<1>4. QED
  BY <1>2, <1>3, FilesGrow

\* A read that is as far as before says the same of a file that has grown.
LEMMA StageStays ==
  ASSUME NEW s, NEW l \in Locals, NEW h \in Nat, NEW k \in Nat, h <= k, Stage(s, l, h)
  PROVE  Stage(s, l, k)
<1>1. l.began \in Nat
  BY CacheConstantsOK DEF Locals, Gens
<1>2. l.began <= h => l.began <= k
  BY <1>1
<1>3. QED
  BY <1>2 DEF Stage

\* Every step keeps types and the stages of reads.
LEMMA TypeStep ==
  ASSUME TypeInv, ReadInv, AccountInv, Next
  PROVE  TypeInv' /\ ReadInv'
<1>1. PICK t \in Threads : Step(t)
  BY SomeoneSteps
<1>2. PICK s, l : Moves(t, s, l)
  BY <1>1, StepMoves, Zenon
<1>3. /\ files' \in Seq(Forms) /\ Len(files') \in 1..MaxGens /\ Len(files) <= Len(files')
      /\ Len(files) \in Nat /\ Len(files') \in Nat
  <2>1. Len(files) \in Nat
    BY BeforeStep, Zenon
  <2>2. files' \in Seq(Forms) /\ Len(files') \in 1..MaxGens /\ Len(files) <= Len(files')
    BY <1>1, FilesAfter, Zenon
  <2>3. QED
    BY <2>1, <2>2
<1>4. /\ todo \in [Threads -> Seq(Steps)] /\ local \in [Threads -> Locals]
      /\ todo' = [todo EXCEPT ![t] = s] /\ local' = [local EXCEPT ![t] = l]
      /\ s \in Seq(Steps) /\ l \in Locals
  BY <1>2 DEF Moves, TypeInv
<1>5. /\ todo' \in [Threads -> Seq(Steps)] /\ local' \in [Threads -> Locals]
      /\ todo'[t] = s /\ local'[t] = l
      /\ \A u \in Threads : u # t => todo'[u] = todo[u] /\ local'[u] = local[u]
  BY <1>4
<1>6. ASSUME NEW u \in Threads
      PROVE  Bounded(local'[u], Len(files')) /\ Stage(todo'[u], local'[u], Len(files'))
  <2>1. Bounded(local'[u], Len(files)) /\ Stage(todo'[u], local'[u], Len(files))
    <3>1. CASE u = t
      BY <1>2, <1>5, <3>1 DEF Moves
    <3>2. CASE u # t
      <4>1. Bounded(local[u], Len(files)) /\ Stage(todo[u], local[u], Len(files))
        BY BeforeStep, Zenon
      <4>2. QED
        BY <1>5, <3>2, <4>1
    <3>3. QED
      BY <3>1, <3>2
  <2>2. local'[u] \in Locals
    BY <1>5
  <2>3. PICK m \in Locals : m = local'[u]
    BY <2>2, Zenon
  <2>4. m.key \in Nat /\ m.gen \in Nat /\ m.began \in Nat /\ m.index \in Nat
    BY CacheConstantsOK DEF Locals, Gens
  <2>5. Bounded(m, Len(files'))
    <3>1. Bounded(m, Len(files))
      BY <2>1, <2>3, Zenon
    <3>2. QED
      BY <1>3, <2>4, <3>1 DEF Bounded
  <2>6. Stage(todo'[u], m, Len(files'))
    <3>1. Stage(todo'[u], m, Len(files))
      BY <2>1, <2>3, Zenon
    <3>2. QED
      BY <1>3, <3>1, StageStays, Zenon
  <2>7. QED
    BY <2>3, <2>5, <2>6, Zenon
<1>7. sidecar' \in Nat /\ sidecar' <= Len(files')
  <2>1. sidecar' \in {sidecar, 0, local[t].gen}
    BY <1>1 DEF Step, Begin, Stat, Lookup, Map, Index, Save, Restat, File, Drop, Unlink, Commit,
                Refused, Parse, Canonicalize, Compare
  <2>2. sidecar \in Nat /\ sidecar <= Len(files)
    BY BeforeStep, Zenon
  <2>3. local[t].gen \in Nat /\ local[t].gen <= Len(files)
    BY BeforeStep, CacheConstantsOK DEF Locals, Gens, Bounded
  <2>4. QED
    BY <1>3, <2>1, <2>2, <2>3
<1>8. calls' \in [Threads -> Nat] /\ \A u \in Threads : calls'[u] <= MaxCalls[u]
  <2>1. calls \in [Threads -> Nat] /\ \A u \in Threads : calls[u] <= MaxCalls[u]
    BY DEF TypeInv
  <2>2. CASE calls' = calls
    BY <2>1, <2>2
  <2>3. CASE Begin(t)
    <3>1. calls' = [calls EXCEPT ![t] = calls[t] + 1] /\ calls[t] < MaxCalls[t]
      BY <2>3 DEF Begin
    <3>2. MaxCalls[t] \in Nat /\ calls[t] \in Nat
      BY <2>1, CacheConstantsOK
    <3>3. QED
      BY <2>1, <3>1, <3>2
  <2>4. calls' = calls \/ Begin(t)
    BY <1>1 DEF Step, Stat, Lookup, Map, Index, Save, Restat, File, Drop, Unlink, Commit,
                Refused, Parse, Canonicalize, Compare
  <2>5. QED
    BY <2>2, <2>3, <2>4
<1>9. cache' \in [Procs -> Seq(Entries)] /\ bytes' \in [Procs -> Nat]
  BY CacheStep, Zenon
<1>10. ReadInv'
  BY <1>6, Zenon DEF ReadInv
<1>11. TypeInv'
  BY <1>3, <1>5, <1>6, <1>7, <1>8, <1>9 DEF TypeInv, Bounded
<1>12. QED
  BY <1>10, <1>11

\* Every step keeps the entries honest.
LEMMA EntryStep ==
  ASSUME TypeInv, ReadInv, AccountInv, EntryInv, Next
  PROVE  EntryInv'
<1> SUFFICES ASSUME NEW p \in Procs, NEW i \in 1..Len(cache'[p]) PROVE Honest(cache'[p][i])
  BY DEF EntryInv
<1>1. From(cache'[p], cache[p], Filing(p))
  BY CacheStep, Zenon
<1>2. CASE cache'[p][i] \in Filing(p)
  <2>1. PICK u \in Threads : At(u, "file") /\ cache'[p][i] = Entry(local[u])
    BY <1>2 DEF Filing
  <2>2. todo[u] = R1
    BY <2>1, BeforeStep, AtStage DEF At
  <2>3. /\ local[u].began <= local[u].first /\ local[u].first <= local[u].gen
        /\ local[u].gen = local[u].index
        /\ local[u].key = local[u].gen \/ local[u].key >= local[u].first + 2
    BY <2>2, BeforeStep, StageOf
  <2>4. Honest(Entry(local[u]))
    BY <2>3, LocalEntry DEF Honest, MetTwo
  <2>5. QED
    BY <2>1, <2>4, Zenon
<1>3. CASE cache'[p][i] \notin Filing(p)
  <2>1. PICK j \in 1..Len(cache[p]) : cache'[p][i] = cache[p][j]
    BY <1>1, <1>3 DEF From
  <2>2. QED
    BY <2>1 DEF EntryInv
<1>4. QED
  BY <1>2, <1>3

\* What a step does to the fingerprint of its call.
LEMMA PrintMoves ==
  ASSUME TypeInv, ReadInv, ContentInv, NEW t \in Threads, Step(t), NEW u \in Threads
  PROVE  /\ local'[u].content \in {0, local[u].content, files[Len(files)].content}
         /\ local'[u].alarm =>
                /\ local'[u].content = local[u].content /\ todo'[u] \in {<<>>, <<"drop">>}
                /\ \/ local[u].alarm
                   \/ files' = files /\ files[Len(files)].content # local[u].content
<1>1. /\ local \in [Threads -> Locals] /\ todo \in [Threads -> Seq(Steps)]
      /\ local[u] \in Locals /\ local[t] \in Locals
  BY DEF TypeInv
<1>2. PICK s, l : Moves(t, s, l)
  BY StepMoves, Zenon
<1>3. CASE u # t
  <2>1. local'[u] = local[u] /\ todo'[u] = todo[u]
    BY <1>1, <1>2, <1>3 DEF Moves
  <2>2. local[u].alarm => todo[u] \in {<<>>, <<"drop">>}
    BY DEF ContentInv
  <2>3. QED
    BY <2>1, <2>2
<1>4. CASE u = t /\ Begin(t)
  <2>1. local'[t] = Clear \/ local'[t] = [Clear EXCEPT !.began = Head_]
    BY <1>1, <1>4 DEF Begin
  <2>2. local'[t].content = 0 /\ local'[t].alarm = FALSE
    BY <2>1 DEF Clear
  <2>3. QED
    BY <1>4, <2>2
<1>5. CASE u = t /\ ~Begin(t)
  <2>1. todo[t] # <<>>
    BY <1>5 DEF Step, Stat, Lookup, Map, Index, Save, Restat, File, Drop, Unlink, Commit,
                Refused, Parse, Canonicalize, Compare, At
  <2>2. local[t].alarm => Head(todo[t]) = "drop" /\ Tail(todo[t]) = <<>>
    <3>1. local[t].alarm => todo[t] = <<"drop">>
      BY <2>1 DEF ContentInv
    <3>2. Head(<<"drop">>) = "drop" /\ Tail(<<"drop">>) = <<>>
      OBVIOUS
    <3>3. QED
      BY <3>1, <3>2, Zenon
  <2>3. CASE local[t].alarm
    <3>1. Head(todo[t]) = "drop" /\ Tail(todo[t]) = <<>>
      BY <2>2, <2>3
    <3>2. Drop(t)
      BY <1>5, <3>1 DEF Step, Stat, Lookup, Map, Index, Save, Restat, File, Unlink, Commit,
                Refused, Parse, Canonicalize, Compare, At
    <3>3. local' = local /\ todo' = [todo EXCEPT ![t] = Tail(todo[t])]
      BY <3>2 DEF Drop, Done
    <3>4. todo'[t] = <<>>
      BY <1>1, <3>1, <3>3
    <3>5. QED
      BY <1>5, <2>3, <3>3, <3>4
  <2>4. CASE ~local[t].alarm
    <3>0. local[t].alarm = FALSE
      BY <1>1, <2>4 DEF Locals
    <3>1. CASE Stat(t) \/ Map(t) \/ Restat(t)
      <4>1. local'[t].content = local[t].content /\ local'[t].alarm = local[t].alarm
        BY <1>1, <3>1 DEF Stat, Map, Restat, Locals
      <4>2. QED
        BY <1>5, <3>0, <4>1
    <3>2. CASE Lookup(t) \/ File(t) \/ Drop(t) \/ Unlink(t) \/ Commit(t) \/ Refused(t)
               \/ Canonicalize(t)
      <4>1. local' = local \/ local' = [local EXCEPT ![t] = Clear]
        BY <3>2 DEF Lookup, File, Drop, Unlink, Commit, Refused, Canonicalize
      <4>2. local'[t] = local[t] \/ local'[t] = Clear
        BY <1>1, <4>1
      <4>3. Clear.content = 0 /\ Clear.alarm = FALSE
        BY DEF Clear
      <4>4. QED
        BY <1>5, <3>0, <4>2, <4>3
    <3>3. CASE Index(t) \/ Save(t)
      <4>1. PICK m : /\ m.content = local[t].content /\ m.alarm = FALSE
                     /\ local'[t] = Snapshot(t, m) \/ local'[t] = m
        <5>1. CASE Save(t)
          <6>1. local'[t] = Snapshot(t, local[t])
            BY <1>1, <5>1 DEF Save
          <6>2. QED
            BY <3>0, <6>1
        <5>2. CASE Index(t) /\ UsesSidecar(local[t].gen)
          <6> DEFINE m == [local[t] EXCEPT !.index = sidecar, !.weight = SidecarWeight]
          <6>1. local'[t] = Snapshot(t, m)
            BY <1>1, <5>2 DEF Index
          <6>2. m.content = local[t].content /\ m.alarm = local[t].alarm
            BY <1>1 DEF Locals
          <6> HIDE DEF m
          <6>3. QED
            BY <3>0, <6>1, <6>2
        <5>3. CASE Index(t) /\ ~UsesSidecar(local[t].gen)
          <6> DEFINE m == [local[t] EXCEPT !.index = local[t].gen, !.weight = ScanWeight]
          <6>1. local'[t] = m
            BY <1>1, <5>3 DEF Index
          <6>2. m.content = local[t].content /\ m.alarm = local[t].alarm
            BY <1>1 DEF Locals
          <6> HIDE DEF m
          <6>3. QED
            BY <3>0, <6>1, <6>2
        <5>4. QED
          BY <3>3, <5>1, <5>2, <5>3
      <4>2. [Clear EXCEPT !.content = m.content].content = m.content
            /\ [Clear EXCEPT !.content = m.content].alarm = FALSE
        BY DEF Clear
      <4>3. local'[t].content = m.content /\ local'[t].alarm = FALSE
        BY <4>1, <4>2 DEF Snapshot
      <4>4. QED
        BY <1>5, <4>1, <4>3
    <3>4. CASE Parse(t)
      <4>1. local'[t].content = files[Len(files)].content /\ local'[t].alarm = local[t].alarm
        BY <1>1, <3>4 DEF Parse, Locals, Head_
      <4>2. QED
        BY <1>5, <3>0, <4>1
    <3>5. CASE Compare(t)
      <4>1. CASE local' = local
        BY <1>5, <3>0, <4>1
      <4>2. CASE local' # local
        <5>1. /\ local' = [local EXCEPT ![t].alarm = TRUE] /\ files' = files
              /\ todo' = [todo EXCEPT ![t] = <<"drop">>]
              /\ files[Len(files)].content # local[t].content
          BY <3>5, <4>2 DEF Compare, Jump, Head_
        <5>2. local'[t].content = local[t].content /\ todo'[t] = <<"drop">>
          BY <1>1, <5>1 DEF Locals
        <5>3. QED
          BY <1>5, <5>1, <5>2
      <4>3. QED
        BY <4>1, <4>2
    <3>6. QED
      BY <1>5, <3>1, <3>2, <3>3, <3>4, <3>5 DEF Step
  <2>5. QED
    BY <2>3, <2>4
<1>6. QED
  BY <1>3, <1>4, <1>5

\* Every step keeps the account of contents.
LEMMA ContentStep ==
  ASSUME TypeInv, ReadInv, ContentInv, Next
  PROVE  ContentInv'
<1>1. PICK t \in Threads : Step(t)
  BY SomeoneSteps
<1> DEFINE n == Len(files)
<1> DEFINE top == files[n].content
<1>2. /\ files \in Seq(Forms) /\ n \in 1..MaxGens /\ n \in Nat \ {0}
  BY CacheConstantsOK DEF TypeInv
<1>3. \A g \in 1..n : /\ files[g].content \in 1..g /\ files[g].content <= top
                        /\ files[files[g].content].content = files[g].content
  BY DEF ContentInv
<1>4. top \in 1..n /\ files[top].content = top
  BY <1>2, <1>3
<1>5. /\ files' \in Seq(Forms) /\ Len(files') \in Nat /\ n <= Len(files')
      /\ \A g \in 1..n : files'[g] = files[g]
  BY <1>1, FilesAfter
<1> DEFINE Ordered == \A g \in 1..Len(files') :
                        /\ files'[g].content \in 1..g
                        /\ files'[g].content <= files'[Len(files')].content
                        /\ files'[files'[g].content].content = files'[g].content
<1>6. Ordered /\ top <= files'[Len(files')].content
  <2>1. CASE files' = files
    BY <1>2, <1>3, <1>4, <2>1
  <2>2. ASSUME NEW f \in Forms, files' = Append(files, f), f.content \in {n + 1, top}
        PROVE  Ordered /\ top <= files'[Len(files')].content
    <3>1. Len(files') = n + 1 /\ files'[n + 1] = f /\ \A g \in 1..n : files'[g] = files[g]
      BY <1>2, <2>2
    <3> DEFINE c == f.content
    <3>2. c \in 1..(n + 1) /\ top <= c
      BY <1>2, <1>4, <2>2
    <3>3. files'[c].content = c
      <4>1. CASE c = n + 1
        BY <3>1, <4>1
      <4>2. CASE c = top
        BY <1>4, <3>1, <4>2
      <4>3. QED
        BY <2>2, <4>1, <4>2
    <3>4. ASSUME NEW g \in 1..(n + 1)
          PROVE  /\ files'[g].content \in 1..g /\ files'[g].content <= c
                 /\ files'[files'[g].content].content = files'[g].content
      <4>1. CASE g = n + 1
        BY <3>1, <3>2, <3>3, <4>1
      <4>2. CASE g # n + 1
        <5>1. g \in 1..n
          BY <1>2, <4>2
        <5>2. files'[g] = files[g] /\ files[g].content \in 1..g /\ files[g].content <= top
              /\ files[files[g].content].content = files[g].content
          BY <1>3, <3>1, <5>1
        <5>3. files[g].content \in 1..n
          BY <1>2, <5>1, <5>2
        <5>4. files'[files[g].content] = files[files[g].content]
          BY <3>1, <5>3
        <5>5. files[g].content <= c
          BY <1>4, <3>2, <5>2, <5>3
        <5>6. QED
          BY <5>2, <5>4, <5>5
      <4>3. QED
        BY <4>1, <4>2
    <3>5. files'[Len(files')].content = c
      BY <3>1
    <3>6. QED
      BY <3>1, <3>2, <3>4, <3>5
  <2>3. QED
    <3>1. \/ files' = files
          \/ \E f \in Forms : /\ files' = Append(files, f) /\ Len(files) < MaxGens
                              /\ f.content \in {Len(files) + 1, files[Len(files)].content}
      BY <1>1, FilesGrow, Zenon
    <3>2. CASE \E f \in Forms : files' = Append(files, f) /\ f.content \in {n + 1, top}
      <4>1. PICK f \in Forms : files' = Append(files, f) /\ f.content \in {n + 1, top}
        BY <3>2
      <4>2. QED
        BY <2>2, <4>1, Zenon
    <3>3. QED
      BY <2>1, <3>1, <3>2, Zenon
<1>7. ASSUME NEW u \in Threads
      PROVE  /\ local'[u].content <= files'[Len(files')].content
             /\ local'[u].alarm => todo'[u] \in {<<>>, <<"drop">>} /\ Alarming(local[u])'
  <2>1. /\ local'[u].content \in {0, local[u].content, top}
        /\ local'[u].alarm =>
               /\ local'[u].content = local[u].content /\ todo'[u] \in {<<>>, <<"drop">>}
               /\ local[u].alarm \/ (files' = files /\ top # local[u].content)
    BY <1>1, PrintMoves, Zenon
  <2>2. /\ local[u].content \in Nat /\ local[u].content <= top
        /\ local[u].alarm => Alarming(local[u])
    BY DEF ContentInv, TypeInv, Locals
  <2>3. files'[Len(files')].content \in Nat
    <3>1. Len(files') \in 1..Len(files')
      BY <1>2, <1>5
    <3>2. files'[Len(files')].content \in 1..Len(files')
      BY <1>6, <3>1
    <3>3. QED
      BY <3>2
  <2>4. local'[u].content <= files'[Len(files')].content
    BY <1>4, <1>6, <2>1, <2>2, <2>3
  <2>5. ASSUME local'[u].alarm PROVE Alarming(local[u])'
    <3>1. PICK g \in (local[u].content + 1)..n : files[g].content = g
      <4>1. CASE local[u].alarm
        BY <2>2, <4>1 DEF Alarming
      <4>2. CASE top # local[u].content
        <5>1. top \in (local[u].content + 1)..n
          BY <1>2, <1>4, <2>2, <4>2
        <5>2. QED
          BY <1>4, <5>1
      <4>3. QED
        BY <2>1, <2>5, <4>1, <4>2
    <3>2. g \in 1..n /\ g \in (local[u].content + 1)..Len(files')
      BY <1>2, <1>5, <2>2
    <3>3. files'[g].content = g
      BY <1>5, <3>1, <3>2
    <3>4. local'[u].content = local[u].content
      BY <2>1, <2>5
    <3>5. QED
      BY <3>2, <3>3, <3>4 DEF Alarming
  <2>6. QED
    BY <2>1, <2>4, <2>5
<1>8. QED
  BY <1>6, <1>7 DEF ContentInv

-----------------------------------------------------------------------------
Inv == TypeInv /\ ReadInv /\ EntryInv /\ AccountInv /\ ContentInv

\* The invariant holds at the start.
LEMMA InitInv == Init => Inv
<1> SUFFICES ASSUME Init PROVE Inv
  OBVIOUS
<1>1. PICK c \in BOOLEAN : files = <<[content |-> 1, canonical |-> c]>>
  BY DEF Init
<1>2. MaxGens \in Nat \ {0}
  BY CacheConstantsOK
<1>3. [content |-> 1, canonical |-> c] \in Forms
  BY <1>2 DEF Forms
<1>4. files[1] = [content |-> 1, canonical |-> c] /\ Len(files) = 1
  BY <1>1
<1>5. files \in Seq(Forms) /\ Len(files) = 1
  BY <1>1, <1>3
<1>6. files[1].content = 1
  BY <1>4
<1>7. /\ sidecar = 0 /\ cache = [p \in Procs |-> <<>>] /\ bytes = [p \in Procs |-> 0]
      /\ todo = [t \in Threads |-> <<>>] /\ local = [t \in Threads |-> Clear]
      /\ calls = [t \in Threads |-> 0]
  BY DEF Init
<1>8. Clear \in Locals /\ Bounded(Clear, 1) /\ Clear.content = 0 /\ Clear.alarm = FALSE
  <2>1. Clear.content = 0 /\ Clear.alarm = FALSE
    BY DEF Clear
  <2>2. QED
    BY <2>1, ClearIsLocal
<1>9. <<>> \in Seq(Entries) /\ Len(<<>>) = 0 /\ <<>> \in Seq(Steps) /\ NoRead(<<>>)
  BY NoReadSteps
<1>10. TypeInv
  <2>1. Len(files) \in 1..MaxGens /\ 0 <= Len(files)
    BY <1>2, <1>5
  <2>2. cache \in [Procs -> Seq(Entries)] /\ bytes \in [Procs -> Nat]
        /\ todo \in [Threads -> Seq(Steps)] /\ local \in [Threads -> Locals]
        /\ calls \in [Threads -> Nat]
    BY <1>7, <1>8, <1>9
  <2>3. \A t \in Threads : calls[t] <= MaxCalls[t]
    BY <1>7, CacheConstantsOK
  <2>4. \A t \in Threads : Bounded(local[t], Len(files))
    BY <1>5, <1>7, <1>8
  <2>5. QED
    BY <1>5, <1>7, <2>1, <2>2, <2>3, <2>4 DEF TypeInv, Bounded
<1>11. ReadInv
  BY <1>7, <1>9, NoReadStage DEF ReadInv
<1>12. EntryInv
  BY <1>7, <1>9 DEF EntryInv
<1>13. AccountInv
  <2> SUFFICES ASSUME NEW p \in Procs
               PROVE  /\ bytes[p] = Weight(cache[p])
                      /\ bytes[p] <= MaxWeight /\ Len(cache[p]) <= MaxEntries
                      /\ \A i, j \in 1..Len(cache[p]) : cache[p][i].key = cache[p][j].key => i = j
    BY DEF AccountInv
  <2>1. cache[p] = <<>> /\ bytes[p] = 0
    BY <1>7
  <2>2. Weight(<<>>) = 0
    <3> DEFINE e == [key |-> 0, first |-> 0, gen |-> 0, index |-> 0, weight |-> ScanWeight]
    <3>1. e \in Entries
      BY <1>2 DEF Entries, Gens
    <3> HIDE DEF e
    <3>2. QED
      BY <3>1, EntriesWeigh, WeightOfOne, Zenon
  <2>3. QED
    BY <1>9, <2>1, <2>2, CacheConstantsOK
<1>14. ContentInv
  <2>1. \A g \in 1..Len(files) : g = 1
    BY <1>5
  <2>2. \A g \in 1..Len(files) :
          /\ files[g].content \in 1..g /\ files[g].content <= files[Len(files)].content
          /\ files[files[g].content].content = files[g].content
    BY <1>5, <1>6, <2>1
  <2>3. \A t \in Threads : local[t].content <= files[Len(files)].content /\ ~local[t].alarm
    BY <1>5, <1>6, <1>7, <1>8
  <2>4. QED
    BY <2>2, <2>3 DEF ContentInv
<1>15. QED
  BY <1>10, <1>11, <1>12, <1>13, <1>14 DEF Inv

\* Every step keeps it.
LEMMA InvStep == ASSUME Inv, [Next]_vars PROVE Inv'
<1>1. CASE Next
  BY <1>1, TypeStep, EntryStep, CacheStep, ContentStep, Zenon DEF Inv
<1>2. CASE UNCHANGED vars
  <2>1. TypeInv' /\ ReadInv'
    BY <1>2 DEF Inv, vars, TypeInv, ReadInv
  <2>2. EntryInv' /\ AccountInv'
    BY <1>2 DEF Inv, vars, EntryInv, AccountInv
  <2>3. ContentInv'
    BY <1>2 DEF Inv, vars, ContentInv, Alarming
  <2>4. QED
    BY <2>1, <2>2, <2>3 DEF Inv
<1>3. QED
  BY <1>1, <1>2

\* So it always holds.
LEMMA InvHolds == Spec => []Inv
<1>1. Init => Inv
  BY InitInv
<1>2. Inv /\ [Next]_vars => Inv'
  BY InvStep
<1>3. QED
  BY <1>1, <1>2, PTL DEF Spec

\* No cached snapshot mixes generations, for any processes, threads and calls.
THEOREM CachedSnapshotsTrue == Spec => []SnapshotsTrue
<1>1. Inv => SnapshotsTrue
  <2> SUFFICES ASSUME Inv PROVE SnapshotsTrue
    OBVIOUS
  <2>1. \A p \in Procs : DOMAIN cache[p] = 1..Len(cache[p])
    BY DEF Inv, TypeInv
  <2>2. FiledAsMapped
    BY <2>1 DEF Inv, EntryInv, Honest, FiledAsMapped
  <2>3. \A p \in Procs : \A i \in DOMAIN cache[p] : cache[p][i].gen = cache[p][i].index
    BY <2>1 DEF Inv, EntryInv, Honest
  <2>4. ASSUME NEW t \in Threads, At(t, "file") PROVE local[t].gen = local[t].index
    <3>1. todo[t] = R1
      BY <2>4, BeforeStep, AtStage DEF At, Inv
    <3>2. QED
      BY <3>1, BeforeStep, StageOf DEF Inv
  <2>5. QED
    BY <2>2, <2>3, <2>4 DEF SnapshotsTrue, IndexDescribes
<1>2. QED
  BY <1>1, InvHolds, PTL

\* The cache is accounted and within its limits, for any limits and weights.
THEOREM CacheIsAccounted == Spec => []CacheAccounted
<1>1. Inv => CacheAccounted
  <2> SUFFICES ASSUME Inv PROVE CacheAccounted
    OBVIOUS
  <2>1. TypeInv /\ AccountInv
    BY DEF Inv
  <2>2. \A p \in Procs : DOMAIN cache[p] = 1..Len(cache[p])
    BY <2>1 DEF TypeInv
  <2>3. \A t \in Threads : Entry(local[t]) \in Entries
    BY <2>1, LocalEntry, Zenon
  <2>4. files \in Seq([content : 1..MaxGens, canonical : BOOLEAN]) /\ Head_ \in 1..MaxGens
        /\ sidecar \in 0..Head_
    BY <2>1, CacheConstantsOK DEF TypeInv, Forms, Head_
  <2>5. \A t \in Threads : calls[t] \in 0..MaxCalls[t]
    BY <2>1, CacheConstantsOK DEF TypeInv
  <2>6. TypeOK
    BY <2>1, <2>3, <2>4, <2>5 DEF TypeOK, TypeInv
  <2>7. QED
    BY <2>1, <2>2, <2>6 DEF CacheAccounted, AccountInv
<1>2. QED
  BY <1>1, InvHolds, PTL

\* What a read returns is recent, whoever replaces the file meanwhile.
THEOREM ReadsAreRecent == Spec => ReadIsRecent
<1> DEFINE Returned(t) == IF At(t, "lookup") THEN Last(cache'[ProcOf[t]]) ELSE Entry(local[t])
<1> DEFINE Recent(t) ==
      (At(t, "lookup") \/ At(t, "file")) /\ todo'[t] = <<>>
        => Returned(t).gen >= local[t].began \/ MetTwo(Returned(t))
<1>1. ASSUME Inv, [Next]_vars, NEW t \in Threads PROVE Recent(t)
  <2> SUFFICES ASSUME At(t, "lookup") \/ At(t, "file"), todo'[t] = <<>>
               PROVE  Returned(t).gen >= local[t].began \/ MetTwo(Returned(t))
    BY Zenon
  <2>0. TypeInv /\ ReadInv /\ EntryInv /\ AccountInv
    BY <1>1 DEF Inv
  <2>1. CASE At(t, "file")
    <3>1. todo[t] = R1
      BY <2>0, <2>1, BeforeStep, AtStage DEF At
    <3>2. /\ local[t].began <= local[t].first /\ local[t].first <= local[t].gen
          /\ local[t] \in Locals
      BY <2>0, <3>1, BeforeStep, StageOf
    <3>3. local[t].gen >= local[t].began
      BY <3>2, CacheConstantsOK DEF Locals, Gens
    <3>4. ~At(t, "lookup")
      BY <2>1 DEF At
    <3>5. Returned(t).gen = local[t].gen
      BY <2>0, <3>4, LocalEntry
    <3>6. QED
      BY <3>3, <3>5
  <2>2. CASE At(t, "lookup")
    <3>1. todo[t] = R6 /\ todo[t] # <<>>
      BY <2>0, <2>2, BeforeStep, AtStage DEF At
    <3>2. local[t].began <= local[t].first /\ local[t].key = local[t].first
      BY <2>0, <3>1, BeforeStep, StageOf
    <3>3. PICK u \in Threads : Step(u)
      <4>1. Next
        BY <1>1, <3>1 DEF vars
      <4>2. QED
        BY <4>1, SomeoneSteps
    <3>4. u = t
      <4>1. PICK s, l : Moves(u, s, l)
        BY <2>0, <3>3, StepMoves, Zenon
      <4>2. u # t => todo'[t] = todo[t]
        BY <2>0, <4>1 DEF Moves, TypeInv
      <4>3. QED
        BY <3>1, <4>2
    <3>5. Lookup(t)
      BY <2>2, <3>1, <3>3, <3>4 DEF Step, Begin, Stat, Map, Index, Save, Restat, File, Drop,
         Unlink, Commit, Refused, Parse, Canonicalize, Compare, At
    <3> DEFINE p == ProcOf[t]
    <3>6. p \in Procs
      BY <2>0, LocalEntry, Zenon
    <3>7. PICK i \in Hits(p, local[t].key) :
              cache' = [cache EXCEPT ![p] = Append(RemoveAt(cache[p], i), cache[p][i])]
      <4>1. CASE Done(t)
        <5>1. todo'[t] = R5
          BY <2>0, <3>1, <4>1, ReadSteps DEF Done, TypeInv
        <5>2. R5 # <<>>
          BY DEF R5
        <5>3. QED
          BY <5>1, <5>2
      <4>2. QED
        BY <3>5, <4>1 DEF Lookup
    <3>8. i \in 1..Len(cache[p]) /\ cache[p][i].key = local[t].key
      BY <2>0, <3>6, <3>7 DEF Hits, TypeInv
    <3>9. cache'[p] = Append(RemoveAt(cache[p], i), cache[p][i])
      BY <2>0, <3>6, <3>7 DEF TypeInv
    <3>10. Kept(cache[p], bytes[p])
      BY <2>0, <3>6, CachesKept, Zenon
    <3>11. Last(cache'[p]) = cache[p][i]
      BY <2>0, <3>8, <3>9, <3>10, LookupKeeps, Zenon
    <3>12. Honest(cache[p][i])
      BY <2>0, <3>6, <3>8 DEF EntryInv
    <3>13. Returned(t) = cache[p][i]
      BY <2>2, <3>11
    <3>14. cache[p][i].gen >= local[t].began \/ MetTwo(cache[p][i])
      <4>1. local[t].began \in Nat /\ local[t].key \in Nat
        BY <2>0, BeforeStep, CacheConstantsOK DEF Locals, Gens
      <4>2. CASE cache[p][i].key = cache[p][i].gen
        BY <3>2, <3>8, <4>1, <4>2
      <4>3. QED
        BY <3>12, <4>2 DEF Honest
    <3>15. QED
      BY <3>13, <3>14, Zenon
  <2>3. QED
    BY <2>1, <2>2
<1>2. Inv /\ [Next]_vars => [\A t \in Threads : Recent(t)]_vars
  BY <1>1
<1>3. QED
  BY <1>2, InvHolds, PTL DEF ReadIsRecent, Spec

\* An optimization loses nothing, and only reports content that others have committed.
THEOREM OptimizingKeepsContent == Spec => OptimizeKeepsContent
<1> DEFINE Keeps(t) ==
      /\ At(t, "canon") /\ Len(files') > Head_ /\ todo'[t] # todo[t]
            => files'[Head_ + 1].content = files[Head_].content
      /\ local'[t].alarm =>
            \E g \in (local'[t].content + 1)..Head_ : files[g].content = g
<1>1. ASSUME Inv, Next, NEW t \in Threads PROVE Keeps(t)
  <2>0. TypeInv /\ ReadInv /\ ContentInv
    BY <1>1 DEF Inv
  <2>1. PICK u \in Threads : Step(u)
    BY <1>1, SomeoneSteps
  <2>2. PICK s, l : Moves(u, s, l)
    BY <2>0, <2>1, StepMoves, Zenon
  <2>3. ASSUME At(t, "canon"), Len(files') > Head_, todo'[t] # todo[t]
        PROVE  files'[Head_ + 1].content = files[Head_].content
    <3>1. u = t
      BY <2>0, <2>2, <2>3 DEF Moves, TypeInv
    <3>2. Len(files) \in Nat /\ files' # files
      BY <2>0, <2>3, BeforeStep DEF Head_
    <3>3. Canonicalize(t)
      BY <2>1, <2>3, <3>1, <3>2 DEF Step, Begin, Stat, Lookup, Map, Index, Save, Restat, File,
         Drop, Unlink, Commit, Refused, Parse, Compare, At
    <3>4. files' = Append(files, [content |-> files[Head_].content, canonical |-> TRUE])
      BY <3>3 DEF Canonicalize, CanonicalContent, Replace
    <3>5. files \in Seq(Forms)
      BY <2>0 DEF TypeInv
    <3>6. QED
      BY <3>4, <3>5 DEF Head_
  <2>4. ASSUME local'[t].alarm
        PROVE  \E g \in (local'[t].content + 1)..Head_ : files[g].content = g
    <3>1. /\ local'[t].content = local[t].content
          /\ local[t].alarm \/ files[Len(files)].content # local[t].content
      BY <2>0, <2>1, <2>4, PrintMoves
    <3>2. CASE local[t].alarm
      BY <2>0, <3>1, <3>2 DEF ContentInv, Alarming, Head_
    <3>3. CASE files[Len(files)].content # local[t].content
      <4> DEFINE c == files[Len(files)].content
      <4>1. Len(files) \in 1..Len(files) /\ Len(files) \in Nat /\ local[t].content \in Nat
        BY <2>0, BeforeStep DEF TypeInv, Locals
      <4>2. c \in 1..Len(files) /\ files[c].content = c /\ local[t].content <= c
        BY <2>0, <4>1 DEF ContentInv
      <4>3. c \in (local[t].content + 1)..Len(files)
        BY <3>3, <4>1, <4>2
      <4>4. QED
        BY <3>1, <4>2, <4>3 DEF Head_
    <3>4. QED
      BY <3>1, <3>2, <3>3
  <2>5. QED
    BY <2>3, <2>4, Zenon
<1>2. Inv /\ [Next]_vars => [\A t \in Threads : Keeps(t)]_vars
  BY <1>1
<1>3. QED
  BY <1>2, InvHolds, PTL DEF OptimizeKeepsContent, Spec
=============================================================================
