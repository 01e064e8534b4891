------------------------- MODULE LegacyImage_proofs -------------------------
(***************************************************************************)
(* The calls of 1.2 on one file: whatever names, values and locks there are,  *)
(* a call leaves alone what it is not about, histories keep their records,     *)
(* and only a name entered twice makes a file that the new engine refuses.     *)
(***************************************************************************)
EXTENDS LegacyImage, SequenceTheorems, FiniteSetTheorems, WellFoundedInduction, TLAPS

(***************************************************************************)
(* Recursion up to a bound, and sequences that are flattened.                *)
(***************************************************************************)
\* Numbers by size.
Smaller == OpToRel(<, Nat)

\* Of some natural numbers there is a first one.
LEMMA FirstOf ==
    ASSUME NEW S, S \subseteq Nat, S # {}
    PROVE  \E m \in S : \A k \in S : m <= k
<1>1. IsWellFoundedOn(Smaller, Nat)
    BY NatLessThanWellFounded, Zenon DEF Smaller
<1>2. PICK m \in S : \A k \in S : <<k, m>> \notin Smaller
    BY <1>1, WFMin, Zenon
<1>3. ASSUME NEW k \in S PROVE m <= k
    <2>1. m \in Nat /\ k \in Nat
        OBVIOUS
    <2>2. k < m => <<k, m>> \in Smaller
        BY <2>1 DEF Smaller, OpToRel
    <2> QED BY <1>2, <2>1, <2>2
<1> QED BY <1>3, Zenon

\* And a last one, where they are bounded.
LEMMA LastOf ==
    ASSUME NEW n \in Nat, NEW S, S \subseteq 0..n, S # {}
    PROVE  \E m \in S : \A k \in S : k <= m
<1> DEFINE T == {n - k : k \in S}
<1>1. T \subseteq Nat /\ T # {}
    <2>1. \A k \in S : n - k \in Nat
        OBVIOUS
    <2> QED BY <2>1
<1>2. PICK t \in T : \A u \in T : t <= u
    <2> HIDE DEF T
    <2> QED BY <1>1, FirstOf, Zenon
<1>3. PICK m \in S : t = n - m
    OBVIOUS
<1>4. \A k \in S : n - m <= n - k
    BY <1>2, <1>3
<1>5. \A k \in S : k <= m
    BY <1>3, <1>4
<1> QED BY <1>5

\* What holds of 0, and of i when it holds of i - 1, holds up to the bound.
LEMMA CountUp ==
    ASSUME NEW n \in Nat, NEW S, 0 \in S, \A i \in 1..n : i - 1 \in S => i \in S
    PROVE  \A i \in 0..n : i \in S
<1> SUFFICES ASSUME (0..n) \ S # {} PROVE FALSE
    OBVIOUS
<1>1. PICK m \in (0..n) \ S : \A k \in (0..n) \ S : m <= k
    <2>1. (0..n) \ S \subseteq Nat
        OBVIOUS
    <2> QED BY <2>1, FirstOf, Zenon
<1>2. m \in 1..n /\ m - 1 \in 0..n /\ ~(m <= m - 1)
    BY <1>1
<1>3. m - 1 \in S
    BY <1>1, <1>2
<1> QED BY <1>1, <1>2, <1>3

\* f starts with base and takes each value from the one below.
Recurs(f, n, base, step) == f[0] = base /\ \A i \in 1..n : f[i] = step[<<i, f[i - 1]>>]

\* A recursion from the one below defines a function.
LEMMA RecursionExists ==
    ASSUME NEW n \in Nat, NEW T, NEW base \in T, NEW step \in [(1..n) \X T -> T]
    PROVE  \E f \in [0..n -> T] : Recurs(f, n, base, step)
<1> DEFINE Up(f, m) == f[0] = base /\ \A i \in 1..m : f[i] = step[<<i, f[i - 1]>>]
           S == {m \in 0..n : \E f \in [0..m -> T] : Up(f, m)}
<1>1. 0 \in S
    <2> DEFINE f == [i \in 0..0 |-> base]
    <2>1. f \in [0..0 -> T] /\ f[0] = base
        OBVIOUS
    <2>2. \A i \in 1..0 : f[i] = step[<<i, f[i - 1]>>]
        OBVIOUS
    <2>3. 0 \in 0..n
        OBVIOUS
    <2> HIDE DEF f
    <2> QED BY <2>1, <2>2, <2>3
<1>2. ASSUME NEW m \in 1..n, m - 1 \in S PROVE m \in S
    <2>1. PICK f \in [0..(m - 1) -> T] : Up(f, m - 1)
        BY <1>2
    <2> DEFINE g == [i \in 0..m |-> IF i = m THEN step[<<m, f[m - 1]>>] ELSE f[i]]
    <2>2. f[m - 1] \in T /\ <<m, f[m - 1]>> \in (1..n) \X T
        BY <1>2
    <2>3. step[<<m, f[m - 1]>>] \in T
        BY <2>2
    <2>4. g \in [0..m -> T] /\ g[0] = base
        BY <1>2, <2>1, <2>3
    <2>5. ASSUME NEW i \in 1..m PROVE g[i] = step[<<i, g[i - 1]>>]
        <3>1. i - 1 \in 0..(m - 1) /\ i - 1 \in 0..m /\ i - 1 # m
            BY <1>2
        <3>0. g[i - 1] = f[i - 1]
            BY <3>1
        <3>2. CASE i = m
            BY <3>0, <3>1, <3>2
        <3>3. CASE i # m
            <4>1. i \in 1..(m - 1) /\ g[i] = f[i]
                BY <3>3
            <4> QED BY <2>1, <3>0, <4>1
        <3> QED BY <3>2, <3>3
    <2>6. Up(g, m)
        BY <2>4, <2>5
    <2> HIDE DEF g, Up
    <2> QED BY <2>4, <2>6
<1>3. n \in S
    <2> HIDE DEF S
    <2>1. \A i \in 0..n : i \in S
        BY <1>1, <1>2, CountUp, Zenon
    <2> QED BY <2>1
<1> QED BY <1>3 DEF Recurs

\* flat gives the first sequences of s one behind the other.
Flattens(flat, s) == flat[0] = <<>> /\ \A i \in 1..Len(s) : flat[i] = flat[i - 1] \o s[i]

\* FlattenSeq is the last of any such partial results.
LEMMA FlattenIs ==
    ASSUME NEW E, NEW s \in Seq(Seq(E)), NEW flat, Flattens(flat, s)
    PROVE  /\ FlattenSeq(s) = flat[Len(s)]
           /\ \A i \in 0..Len(s) : flat[i] \in Seq(E)
<1> DEFINE n == Len(s)
           Rec(f) == [i \in 1..n |-> IF i = 1 THEN s[i] ELSE f[i - 1] \o s[i]]
           flatten == CHOOSE f : f = Rec(f)
<1>1. n \in Nat /\ \A i \in 1..n : s[i] \in Seq(E)
    OBVIOUS
<1>2. \A i \in 0..n : flat[i] \in Seq(E)
    <2> DEFINE S == {i \in 0..n : flat[i] \in Seq(E)}
    <2>1. 0 \in S
        <3>1. flat[0] = <<>> /\ <<>> \in Seq(E) /\ 0 \in 0..n
            BY <1>1 DEF Flattens
        <3> QED BY <3>1
    <2>2. ASSUME NEW i \in 1..n, i - 1 \in S PROVE i \in S
        <3>1. flat[i] = flat[i - 1] \o s[i]
            BY DEF Flattens
        <3>2. flat[i - 1] \in Seq(E) /\ s[i] \in Seq(E) /\ i \in 0..n
            BY <1>1, <2>2
        <3>3. flat[i - 1] \o s[i] \in Seq(E)
            <4>1. \A u, v \in Seq(E) : u \o v \in Seq(E)
                OBVIOUS
            <4> QED BY <3>2, <4>1, Zenon
        <3> QED BY <3>1, <3>2, <3>3
    <2>3. \A i \in 0..n : i \in S
        <3> HIDE DEF S
        <3> QED BY <1>1, <2>1, <2>2, CountUp, Zenon
    <2> QED BY <2>3
<1>3. ASSUME NEW f, f = Rec(f) PROVE \A i \in 1..n : f[i] = flat[i]
    <2> DEFINE S == {i \in 0..n : i = 0 \/ f[i] = flat[i]}
    <2>1. 0 \in S
        BY <1>1
    <2>2. ASSUME NEW i \in 1..n, i - 1 \in S PROVE i \in S
        <3>1. flat[i] = flat[i - 1] \o s[i] /\ s[i] \in Seq(E) /\ flat[0] = <<>>
            BY <1>1 DEF Flattens
        <3>2. CASE i = 1
            <4>1. f[i] = s[i] /\ i \in 0..n
                BY <1>3, <3>2
            <4>2. <<>> \o s[i] = s[i]
                BY <3>1
            <4>3. flat[i - 1] = <<>>
                BY <3>1, <3>2
            <4> QED BY <3>1, <4>1, <4>2, <4>3
        <3>3. CASE i # 1
            <4>1. f[i] = f[i - 1] \o s[i]
                BY <1>3, <3>3
            <4>2. f[i - 1] = flat[i - 1] /\ i \in 0..n
                BY <2>2, <3>3
            <4> QED BY <3>1, <4>1, <4>2
        <3> QED BY <3>2, <3>3
    <2>3. \A i \in 0..n : i \in S
        <3> HIDE DEF S
        <3> QED BY <1>1, <2>1, <2>2, CountUp, Zenon
    <2> QED BY <2>3
<1>4. \E f : f = Rec(f)
    <2> DEFINE f == [i \in 1..n |-> flat[i]]
    <2>1. ASSUME NEW i \in 1..n PROVE f[i] = IF i = 1 THEN s[i] ELSE f[i - 1] \o s[i]
        <3>1. flat[i] = flat[i - 1] \o s[i] /\ s[i] \in Seq(E) /\ flat[0] = <<>>
            BY <1>1 DEF Flattens
        <3>2. CASE i = 1
            <4>1. <<>> \o s[i] = s[i] /\ flat[i - 1] = <<>>
                BY <3>1, <3>2
            <4> QED BY <3>1, <3>2, <4>1
        <3>3. CASE i # 1
            <4>1. i - 1 \in 1..n
                BY <3>3
            <4> QED BY <3>1, <3>3, <4>1
        <3> QED BY <3>2, <3>3
    <2>2. f = Rec(f)
        BY <2>1
    <2> QED BY <2>2
<1>5. flatten = Rec(flatten)
    <2> HIDE DEF Rec
    <2> QED BY <1>4, Zenon
<1>6. FlattenSeq(s) = IF n = 0 THEN s ELSE flatten[n]
    BY DEF FlattenSeq
<1> HIDE DEF flatten, Rec
<1>7. CASE n = 0
    <2>1. s = <<>> /\ flat[n] = <<>>
        BY <1>7 DEF Flattens
    <2> QED BY <1>2, <1>6, <1>7, <2>1
<1>8. CASE n # 0
    BY <1>1, <1>2, <1>3, <1>5, <1>6, <1>8
<1> QED BY <1>7, <1>8

\* There always are such partial results.
LEMMA FlattensExists ==
    ASSUME NEW E, NEW s \in Seq(Seq(E))
    PROVE  \E flat \in [0..Len(s) -> Seq(E)] : Flattens(flat, s)
<1> DEFINE n == Len(s)
           step == [p \in (1..n) \X Seq(E) |-> p[2] \o s[p[1]]]
<1>1. n \in Nat /\ <<>> \in Seq(E)
    OBVIOUS
<1>2. step \in [(1..n) \X Seq(E) -> Seq(E)]
    <2>1. ASSUME NEW p \in (1..n) \X Seq(E) PROVE p[2] \o s[p[1]] \in Seq(E)
        <3>1. p[2] \in Seq(E) /\ p[1] \in 1..n
            OBVIOUS
        <3>2. s[p[1]] \in Seq(E)
            BY <3>1
        <3> QED BY <3>1, <3>2
    <2> QED BY <2>1
<1>3. \A i \in 1..n, t \in Seq(E) : step[<<i, t>>] = t \o s[i]
    OBVIOUS
<1> HIDE DEF step
<1>4. PICK f \in [0..n -> Seq(E)] : Recurs(f, n, <<>>, step)
    <2> DEFINE T == Seq(E)
               base == <<>>
    <2>1. n \in Nat /\ base \in T /\ step \in [(1..n) \X T -> T]
        BY <1>1, <1>2
    <2> HIDE DEF T, base, n
    <2>2. \E f \in [0..n -> T] : Recurs(f, n, base, step)
        BY <2>1, RecursionExists, Zenon
    <2> QED BY <2>2 DEF T, base
<1>5. \A i \in 1..n : f[i] = f[i - 1] \o s[i]
    <2> TAKE i \in 1..n
    <2>1. i - 1 \in 0..n
        OBVIOUS
    <2> QED BY <1>3, <1>4, <2>1 DEF Recurs
<1> QED BY <1>4, <1>5 DEF Flattens, Recurs

\* Flattening element by element.
LEMMA FlattenFacts ==
    ASSUME NEW E
    PROVE  /\ FlattenSeq(<<>>) = <<>>
           /\ \A s \in Seq(Seq(E)) : FlattenSeq(s) \in Seq(E)
           /\ \A s \in Seq(Seq(E)) : \A x \in Seq(E) :
                 FlattenSeq(Append(s, x)) = FlattenSeq(s) \o x
<1>1. FlattenSeq(<<>>) = <<>>
    BY DEF FlattenSeq
<1>2. ASSUME NEW s \in Seq(Seq(E)) PROVE FlattenSeq(s) \in Seq(E)
    <2>1. PICK f : Flattens(f, s)
        BY FlattensExists
    <2>2. Len(s) \in 0..Len(s)
        OBVIOUS
    <2> QED BY <2>1, <2>2, FlattenIs
<1>3. ASSUME NEW s \in Seq(Seq(E)), NEW x \in Seq(E)
      PROVE  FlattenSeq(Append(s, x)) = FlattenSeq(s) \o x
    <2> DEFINE n == Len(s)
               more == Append(s, x)
    <2>1. PICK f \in [0..n -> Seq(E)] : Flattens(f, s)
        BY FlattensExists
    <2> DEFINE g == [i \in 0..(n + 1) |-> IF i = n + 1 THEN f[n] \o x ELSE f[i]]
    <2>2. n \in Nat /\ more \in Seq(Seq(E)) /\ Len(more) = n + 1 /\ more[n + 1] = x
          /\ \A i \in 1..n : more[i] = s[i]
        OBVIOUS
    <2> HIDE DEF more
    <2>3. Flattens(g, more)
        <3>1. g[0] = <<>>
            BY <2>1, <2>2 DEF Flattens
        <3>2. ASSUME NEW i \in 1..(n + 1) PROVE g[i] = g[i - 1] \o more[i]
            <4>0. i - 1 \in 0..n /\ i - 1 \in 0..(n + 1) /\ i - 1 # n + 1
                BY <2>2
            <4>1. g[i - 1] = f[i - 1]
                BY <4>0, Zenon
            <4>2. CASE i = n + 1
                <5>1. g[i] = f[n] \o x /\ i - 1 = n
                    BY <2>2, <4>2
                <5> HIDE DEF g
                <5> QED BY <2>2, <4>1, <4>2, <5>1
            <4>3. CASE i # n + 1
                <5>1. i \in 1..n /\ g[i] = f[i]
                    BY <2>2, <4>3
                <5> QED BY <2>1, <2>2, <4>1, <5>1 DEF Flattens
            <4> QED BY <4>2, <4>3
        <3> HIDE DEF g
        <3> QED BY <2>2, <3>1, <3>2 DEF Flattens
    <2>4. FlattenSeq(more) = g[n + 1] /\ FlattenSeq(s) = f[n]
        <3> HIDE DEF g
        <3> QED BY <2>1, <2>2, <2>3, FlattenIs
    <2>5. g[n + 1] = f[n] \o x
        BY <2>2
    <2> QED BY <2>4, <2>5 DEF more
<1> QED BY <1>1, <1>2, <1>3

\* What holds of the empty sequence, and of s with one more when it holds of s, holds of
\* every sequence.
LEMMA Longer ==
    ASSUME NEW E, NEW P, <<>> \in P, \A s \in Seq(E), x \in E : s \in P => Append(s, x) \in P
    PROVE  \A s \in Seq(E) : s \in P
<1> SUFFICES ASSUME NEW s \in Seq(E) PROVE s \in P
    OBVIOUS
<1> DEFINE n == Len(s)
           start(i) == SubSeq(s, 1, i)
           S == {i \in 0..n : start(i) \in P}
<1>1. n \in Nat
    OBVIOUS
<1>2. start(0) = <<>> /\ start(n) = s
    BY SubSeqEmpty, SubSeqFull
<1>3. ASSUME NEW i \in 1..n
      PROVE  start(i) = Append(start(i - 1), s[i]) /\ start(i - 1) \in Seq(E) /\ s[i] \in E
    <2>1. 1 \in 1..Len(s) /\ i \in 1..Len(s) /\ s \in Seq(E)
        BY <1>1
    <2>2. start(i) = start(i - 1) \o <<s[i]>>
        BY <2>1, SubSeqRecursiveSecond
    <2>3. \A j \in 1..(i - 1) : s[j] \in E
        BY <1>1
    <2>4. start(i - 1) \in Seq(E) /\ s[i] \in E
        BY <1>1, <2>3, SubSeqProperties
    <2> HIDE DEF start
    <2> QED BY <2>2, <2>4, AppendIsConcat
<1> HIDE DEF start
<1>4. 0 \in S
    BY <1>1, <1>2
<1>5. ASSUME NEW i \in 1..n, i - 1 \in S PROVE i \in S
    <2>1. start(i - 1) \in P /\ start(i - 1) \in Seq(E) /\ s[i] \in E
        BY <1>3, <1>5
    <2>2. Append(start(i - 1), s[i]) \in P
        BY <2>1, Zenon
    <2>3. i \in 0..n
        BY <1>1
    <2>4. start(i) \in P
        BY <1>3, <2>2
    <2> QED BY <2>3, <2>4
<1>6. n \in S
    <2> HIDE DEF S
    <2>1. \A i \in 0..n : i \in S
        BY <1>1, <1>4, <1>5, CountUp, Zenon
    <2> QED BY <1>1, <2>1
<1> QED BY <1>2, <1>6

-----------------------------------------------------------------------------
(***************************************************************************)
(* What is left of a sequence.                                             *)
(***************************************************************************)
\* What is left of s at the places in I.
Thin(s, I) == FlattenSeq([i \in DOMAIN s |-> IF i \in I THEN <<s[i]>> ELSE <<>>])

\* The parts that Thin flattens.
ThinPart(s, I, i) == IF i \in I THEN <<s[i]>> ELSE <<>>
ThinParts(s, I)   == [i \in DOMAIN s |-> ThinPart(s, I, i)]

LEMMA ThinPartsSeq ==
    ASSUME NEW E, NEW I, NEW s \in Seq(E)
    PROVE  /\ ThinParts(s, I) \in Seq(Seq(E))
           /\ Thin(s, I) = FlattenSeq(ThinParts(s, I))
           /\ Len(ThinParts(s, I)) = Len(s)
           /\ \A i \in 1..Len(s) : ThinParts(s, I)[i] = ThinPart(s, I, i)
<1>1. DOMAIN s = 1..Len(s) /\ Len(s) \in Nat
    OBVIOUS
<1>2. \A i \in 1..Len(s) : ThinPart(s, I, i) \in Seq(E)
    BY DEF ThinPart
<1>3. ThinParts(s, I) \in Seq(Seq(E))
    BY <1>1, <1>2 DEF ThinParts
<1>4. Thin(s, I) = FlattenSeq(ThinParts(s, I))
    BY DEF Thin, ThinParts, ThinPart
<1> QED BY <1>1, <1>3, <1>4 DEF ThinParts

\* Place by place.
LEMMA ThinEmpty == ASSUME NEW I PROVE Thin(<<>>, I) = <<>>
<1>1. ThinParts(<<>>, I) = <<>>
    BY DEF ThinParts
<1>2. <<>> \in Seq({})
    OBVIOUS
<1>3. Thin(<<>>, I) = FlattenSeq(ThinParts(<<>>, I))
    BY <1>2, ThinPartsSeq, Zenon
<1>4. FlattenSeq(<<>>) = <<>>
    BY FlattenFacts, Zenon
<1> QED BY <1>1, <1>3, <1>4, Zenon

LEMMA ThinSeq == ASSUME NEW E, NEW I, NEW s \in Seq(E) PROVE Thin(s, I) \in Seq(E)
<1>1. ThinParts(s, I) \in Seq(Seq(E)) /\ Thin(s, I) = FlattenSeq(ThinParts(s, I))
    BY ThinPartsSeq, Zenon
<1>2. FlattenSeq(ThinParts(s, I)) \in Seq(E)
    BY <1>1, FlattenFacts
<1> QED BY <1>1, <1>2

LEMMA ThinAppend ==
    ASSUME NEW E, NEW I, NEW s \in Seq(E), NEW x \in E
    PROVE  Thin(Append(s, x), I) = IF Len(s) + 1 \in I THEN Append(Thin(s, I), x) ELSE Thin(s, I)
<1> DEFINE n == Len(s)
           t == Append(s, x)
           more == IF n + 1 \in I THEN <<x>> ELSE <<>>
<1>1. n \in Nat /\ Len(t) = n + 1 /\ t \in Seq(E) /\ t[n + 1] = x
      /\ \A i \in 1..n : t[i] = s[i]
    OBVIOUS
<1>2. more \in Seq(E)
    OBVIOUS
<1> HIDE DEF t
<1>3. /\ ThinParts(s, I) \in Seq(Seq(E)) /\ Thin(s, I) = FlattenSeq(ThinParts(s, I))
      /\ Len(ThinParts(s, I)) = n /\ \A i \in 1..n : ThinParts(s, I)[i] = ThinPart(s, I, i)
    BY ThinPartsSeq, Zenon
<1>4. /\ ThinParts(t, I) \in Seq(Seq(E)) /\ Thin(t, I) = FlattenSeq(ThinParts(t, I))
      /\ Len(ThinParts(t, I)) = Len(t) /\ \A i \in 1..Len(t) : ThinParts(t, I)[i] = ThinPart(t, I, i)
    BY <1>1, ThinPartsSeq
<1>5. \A i \in 1..n : ThinPart(t, I, i) = ThinPart(s, I, i)
    BY <1>1 DEF ThinPart
<1>6. ThinPart(t, I, n + 1) = more
    BY <1>1 DEF ThinPart
<1> HIDE DEF more
<1>7. ThinParts(t, I) = Append(ThinParts(s, I), more)
    BY <1>1, <1>2, <1>3, <1>4, <1>5, <1>6
<1>8. FlattenSeq(Append(ThinParts(s, I), more)) = FlattenSeq(ThinParts(s, I)) \o more
    BY <1>2, <1>3, FlattenFacts
<1>9. Thin(t, I) = Thin(s, I) \o more
    BY <1>3, <1>4, <1>7, <1>8, Zenon
<1>10. Thin(s, I) \in Seq(E)
    BY ThinSeq, Zenon
<1>11. CASE n + 1 \in I
    BY <1>9, <1>10, <1>11, AppendIsConcat DEF more, t
<1>12. CASE n + 1 \notin I
    BY <1>9, <1>10, <1>12, ConcatEmptySeq DEF more, t
<1> QED BY <1>11, <1>12

\* Only leaves a sequence at the places of what stays.
LEMMA OnlyThin ==
    ASSUME NEW s, NEW S, NEW J, \A i \in DOMAIN s : i \in J <=> s[i] \in S
    PROVE  Only(s, S) = Thin(s, J)
BY DEF Only, Thin

\* Element by element.
LEMMA OnlyEmpty == ASSUME NEW S PROVE Only(<<>>, S) = <<>>
<1>1. \A i \in DOMAIN <<>> : i \in {} <=> <<>>[i] \in S
    OBVIOUS
<1>2. Only(<<>>, S) = Thin(<<>>, {})
    BY <1>1, OnlyThin
<1> QED BY <1>2, ThinEmpty

LEMMA OnlySeq == ASSUME NEW E, NEW S, NEW s \in Seq(E) PROVE Only(s, S) \in Seq(E)
<1> DEFINE J == {i \in DOMAIN s : s[i] \in S}
<1>1. \A i \in DOMAIN s : i \in J <=> s[i] \in S
    OBVIOUS
<1> HIDE DEF J
<1>2. Only(s, S) = Thin(s, J)
    BY <1>1, OnlyThin, Zenon
<1>3. Thin(s, J) \in Seq(E)
    BY ThinSeq, Zenon
<1> QED BY <1>2, <1>3

LEMMA OnlyAppend ==
    ASSUME NEW E, NEW S, NEW s \in Seq(E), NEW x \in E
    PROVE  Only(Append(s, x), S) = IF x \in S THEN Append(Only(s, S), x) ELSE Only(s, S)
<1> DEFINE n == Len(s)
           t == Append(s, x)
           J == {i \in DOMAIN t : t[i] \in S}
<1>1. n \in Nat /\ DOMAIN t = 1..(n + 1) /\ DOMAIN s = 1..n
      /\ t[n + 1] = x /\ \A i \in 1..n : t[i] = s[i]
    OBVIOUS
<1> HIDE DEF t
<1>2. \A i \in DOMAIN t : i \in J <=> t[i] \in S
    OBVIOUS
<1>3. \A i \in DOMAIN s : i \in J <=> s[i] \in S
    BY <1>1
<1>4. n + 1 \in J <=> x \in S
    BY <1>1
<1> HIDE DEF J
<1>5. Only(t, S) = Thin(t, J)
    BY <1>2, OnlyThin, Zenon
<1>6. Only(s, S) = Thin(s, J)
    BY <1>3, OnlyThin, Zenon
<1>7. Thin(t, J) = IF n + 1 \in J THEN Append(Thin(s, J), x) ELSE Thin(s, J)
    BY ThinAppend DEF t
<1> QED BY <1>4, <1>5, <1>6, <1>7 DEF t

\* What one more adds.
LEMMA RangeAppend ==
    ASSUME NEW E, NEW s \in Seq(E), NEW x \in E PROVE Range(Append(s, x)) = Range(s) \cup {x}
<1> DEFINE w == Append(s, x)
<1>1. DOMAIN s = 1..Len(s) /\ DOMAIN w = 1..(Len(s) + 1) /\ Len(s) \in Nat
      /\ w[Len(s) + 1] = x /\ \A i \in 1..Len(s) : w[i] = s[i]
    OBVIOUS
<1> HIDE DEF w
<1>2. Range(w) \subseteq Range(s) \cup {x}
    BY <1>1 DEF Range
<1>3. Range(s) \cup {x} \subseteq Range(w)
    BY <1>1 DEF Range
<1> QED BY <1>2, <1>3 DEF w

\* It is made of what is in both.
LEMMA OnlyRange ==
    ASSUME NEW E, NEW S, NEW s \in Seq(E) PROVE Range(Only(s, S)) = Range(s) \cap S
<1> DEFINE P == {t \in Seq(E) : Range(Only(t, S)) = Range(t) \cap S}
<1>1. \A t \in Seq(E), x \in E : Range(Append(t, x)) = Range(t) \cup {x}
    BY RangeAppend, Zenon
<1>2. <<>> \in P
    <2>1. Only(<<>>, S) = <<>> /\ Range(<<>>) = {} /\ <<>> \in Seq(E)
        BY OnlyEmpty DEF Range
    <2> QED BY <2>1
<1>3. ASSUME NEW t \in Seq(E), NEW x \in E, t \in P PROVE Append(t, x) \in P
    <2>1. Only(Append(t, x), S) = IF x \in S THEN Append(Only(t, S), x) ELSE Only(t, S)
        BY OnlyAppend
    <2>2. Only(t, S) \in Seq(E)
        BY OnlySeq, Zenon
    <2>3. Range(Only(t, S)) = Range(t) \cap S
        BY <1>3
    <2>4. Range(Append(Only(t, S), x)) = Range(Only(t, S)) \cup {x}
        BY <1>1, <2>2, Zenon
    <2>5. Range(Append(t, x)) = Range(t) \cup {x} /\ Append(t, x) \in Seq(E)
        BY <1>1
    <2>6. Range(Only(Append(t, x), S)) = Range(Append(t, x)) \cap S
        BY <2>1, <2>3, <2>4, <2>5, Zenon
    <2> QED BY <2>5, <2>6
<1>4. \A t \in Seq(E) : t \in P
    <2> HIDE DEF P
    <2> QED BY <1>2, <1>3, Longer, Zenon
<1> QED BY <1>4

\* Taking out twice.
LEMMA OnlyTwice ==
    ASSUME NEW E, NEW S, NEW T, NEW s \in Seq(E) PROVE Only(Only(s, T), S) = Only(s, S \cap T)
<1> DEFINE P == {t \in Seq(E) : Only(Only(t, T), S) = Only(t, S \cap T)}
<1>1. <<>> \in P
    <2>1. Only(<<>>, T) = <<>> /\ Only(<<>>, S) = <<>> /\ Only(<<>>, S \cap T) = <<>> /\ <<>> \in Seq(E)
        BY OnlyEmpty
    <2> QED BY <2>1
<1>2. ASSUME NEW t \in Seq(E), NEW x \in E, t \in P PROVE Append(t, x) \in P
    <2>1. Only(Append(t, x), T) = IF x \in T THEN Append(Only(t, T), x) ELSE Only(t, T)
        BY OnlyAppend
    <2>2. Only(t, T) \in Seq(E) /\ Append(t, x) \in Seq(E)
        BY OnlySeq
    <2>3. Only(Append(t, x), S \cap T) =
              IF x \in S \cap T THEN Append(Only(t, S \cap T), x) ELSE Only(t, S \cap T)
        BY OnlyAppend
    <2>4. Only(Append(Only(t, T), x), S) =
              IF x \in S THEN Append(Only(Only(t, T), S), x) ELSE Only(Only(t, T), S)
        BY <2>2, OnlyAppend
    <2>5. Only(Only(t, T), S) = Only(t, S \cap T)
        BY <1>2
    <2>6. Only(Only(Append(t, x), T), S) = Only(Append(t, x), S \cap T)
        <3>1. CASE x \in T /\ x \in S
            BY <2>1, <2>3, <2>4, <2>5, <3>1, Zenon
        <3>2. CASE x \in T /\ x \notin S
            BY <2>1, <2>3, <2>4, <2>5, <3>2, Zenon
        <3>3. CASE x \notin T
            BY <2>1, <2>3, <2>4, <2>5, <3>3, Zenon
        <3> QED BY <3>1, <3>2, <3>3
    <2> QED BY <2>2, <2>6
<1>3. \A t \in Seq(E) : t \in P
    <2> HIDE DEF P
    <2> QED BY <1>1, <1>2, Longer, Zenon
<1> QED BY <1>3

\* Sequences that agree on what is in S.
LEMMA OnlySame ==
    ASSUME NEW S, NEW s, NEW t, DOMAIN s = DOMAIN t,
           \A i \in DOMAIN s : s[i] = t[i] \/ (s[i] \notin S /\ t[i] \notin S)
    PROVE  Only(s, S) = Only(t, S)
BY DEF Only

\* Only what the sequence has counts.
LEMMA OnlyOfRange ==
    ASSUME NEW S, NEW T, NEW s, S \cap Range(s) = T \cap Range(s) PROVE Only(s, S) = Only(s, T)
<1>1. \A i \in DOMAIN s : s[i] \in S <=> s[i] \in T
    BY DEF Range
<1> QED BY <1>1 DEF Only

\* Of two sequences one behind the other.
LEMMA OnlyConcat ==
    ASSUME NEW E, NEW S, NEW s \in Seq(E), NEW t \in Seq(E)
    PROVE  Only(s \o t, S) = Only(s, S) \o Only(t, S)
<1> DEFINE P == {u \in Seq(E) : Only(s \o u, S) = Only(s, S) \o Only(u, S)}
<1>0. Only(s, S) \in Seq(E)
    BY OnlySeq, Zenon
<1>1. <<>> \in P
    <2>1. s \o <<>> = s /\ Only(s, S) \o <<>> = Only(s, S)
        BY <1>0, ConcatEmptySeq
    <2>2. Only(<<>>, S) = <<>>
        BY OnlyEmpty
    <2>3. Only(s \o <<>>, S) = Only(s, S) \o Only(<<>>, S)
        BY <2>1, <2>2, Zenon
    <2> QED BY <2>3
<1>2. ASSUME NEW u \in Seq(E), NEW x \in E, u \in P PROVE Append(u, x) \in P
    <2>1. s \o Append(u, x) = Append(s \o u, x) /\ s \o u \in Seq(E) /\ Append(u, x) \in Seq(E)
        OBVIOUS
    <2>2. Only(s, S) \in Seq(E) /\ Only(u, S) \in Seq(E)
        BY OnlySeq
    <2>3. Only(Append(s \o u, x), S) =
              IF x \in S THEN Append(Only(s \o u, S), x) ELSE Only(s \o u, S)
        <3> DEFINE both == s \o u
        <3>1. both \in Seq(E)
            BY <2>1
        <3> HIDE DEF both
        <3>2. Only(Append(both, x), S) = IF x \in S THEN Append(Only(both, S), x) ELSE Only(both, S)
            BY <3>1, OnlyAppend
        <3> QED BY <3>2 DEF both
    <2>4. Only(Append(u, x), S) = IF x \in S THEN Append(Only(u, S), x) ELSE Only(u, S)
        BY OnlyAppend
    <2>5. Only(s \o u, S) = Only(s, S) \o Only(u, S)
        BY <1>2
    <2>6. Append(Only(s, S) \o Only(u, S), x) = Only(s, S) \o Append(Only(u, S), x)
        <3> DEFINE a == Only(s, S)
                   b == Only(u, S)
        <3>1. a \in Seq(E) /\ b \in Seq(E)
            BY <2>2
        <3> HIDE DEF a, b
        <3>2. a \o b \in Seq(E) /\ <<x>> \in Seq(E)
            BY <3>1
        <3>3. Append(a \o b, x) = (a \o b) \o <<x>> /\ Append(b, x) = b \o <<x>>
            BY <3>1, <3>2, AppendIsConcat
        <3>4. (a \o b) \o <<x>> = a \o (b \o <<x>>)
            BY <3>1, <3>2, ConcatAssociative
        <3> QED BY <3>3, <3>4 DEF a, b
    <2>7. Only(s \o Append(u, x), S) = Only(s, S) \o Only(Append(u, x), S)
        <3>1. CASE x \in S
            BY <2>1, <2>3, <2>4, <2>5, <2>6, <3>1, Zenon
        <3>2. CASE x \notin S
            BY <2>1, <2>3, <2>4, <2>5, <3>2, Zenon
        <3> QED BY <3>1, <3>2
    <2> QED BY <2>1, <2>7
<1>3. \A u \in Seq(E) : u \in P
    <2> HIDE DEF P
    <2> QED BY <1>1, <1>2, Longer, Zenon
<1> QED BY <1>3

\* Thinning out what is not in S.
LEMMA ThinKeeps ==
    ASSUME NEW E, NEW S, NEW s \in Seq(E), NEW I, \A i \in DOMAIN s : s[i] \in S => i \in I
    PROVE  Only(Thin(s, I), S) = Only(s, S)
<1> DEFINE Holds(u) == (\A i \in DOMAIN u : u[i] \in S => i \in I) => Only(Thin(u, I), S) = Only(u, S)
           P == {u \in Seq(E) : Holds(u)}
<1>1. <<>> \in P
    <2>1. Thin(<<>>, I) = <<>> /\ <<>> \in Seq(E)
        BY ThinEmpty
    <2> QED BY <2>1
<1>2. ASSUME NEW u \in Seq(E), NEW x \in E, u \in P PROVE Append(u, x) \in P
    <2> DEFINE w == Append(u, x)
               n == Len(u)
    <2>1. w \in Seq(E) /\ n \in Nat /\ DOMAIN u = 1..n /\ DOMAIN w = 1..(n + 1)
          /\ w[n + 1] = x /\ \A i \in 1..n : w[i] = u[i]
        OBVIOUS
    <2>4. Thin(w, I) = IF n + 1 \in I THEN Append(Thin(u, I), x) ELSE Thin(u, I)
        BY ThinAppend
    <2>5. Only(w, S) = IF x \in S THEN Append(Only(u, S), x) ELSE Only(u, S)
        BY OnlyAppend
    <2>6. Thin(u, I) \in Seq(E)
        BY ThinSeq, Zenon
    <2>7. Only(Append(Thin(u, I), x), S) =
              IF x \in S THEN Append(Only(Thin(u, I), S), x) ELSE Only(Thin(u, I), S)
        BY <2>6, OnlyAppend
    <2> HIDE DEF w
    <2>8. ASSUME \A i \in DOMAIN w : w[i] \in S => i \in I
          PROVE  Only(Thin(w, I), S) = Only(w, S)
        <3>1. \A i \in DOMAIN u : u[i] \in S => i \in I
            BY <2>1, <2>8
        <3>2. Only(Thin(u, I), S) = Only(u, S)
            BY <1>2, <3>1
        <3>3. x \in S => n + 1 \in I
            BY <2>1, <2>8
        <3>4. CASE n + 1 \in I /\ x \in S
            BY <2>4, <2>5, <2>7, <3>2, <3>4, Zenon
        <3>5. CASE n + 1 \in I /\ x \notin S
            BY <2>4, <2>5, <2>7, <3>2, <3>5, Zenon
        <3>6. CASE n + 1 \notin I
            BY <2>4, <2>5, <3>2, <3>3, <3>6, Zenon
        <3> QED BY <3>4, <3>5, <3>6
    <2>9. Append(u, x) \in Seq(E) /\ Holds(Append(u, x))
        BY <2>1, <2>8 DEF w
    <2> HIDE DEF Holds
    <2> QED BY <2>9
<1>3. \A u \in Seq(E) : u \in P
    <2> HIDE DEF P
    <2> QED BY <1>1, <1>2, Longer, Zenon
<1>4. Holds(s)
    <2> HIDE DEF Holds
    <2> QED BY <1>3
<1> QED BY <1>4

\* No two entries of s that are in S have one name.
Apart(s, S) ==
    \A i, j \in DOMAIN s : i # j /\ s[i] \in S /\ s[j] \in S => s[i].name # s[j].name

\* That is to say that every entry that is left has a name of its own.
LEMMA ApartIsOne ==
    ASSUME NEW E, NEW S, NEW s \in Seq(E) PROVE OneOfEach(Only(s, S)) <=> Apart(s, S)
<1> DEFINE P == {t \in Seq(E) : OneOfEach(Only(t, S)) <=> Apart(t, S)}
<1>1. <<>> \in P
    <2>1. Only(<<>>, S) = <<>> /\ <<>> \in Seq(E) /\ DOMAIN <<>> = {}
        BY OnlyEmpty
    <2>2. OneOfEach(Only(<<>>, S)) /\ Apart(<<>>, S)
        BY <2>1 DEF OneOfEach, Apart
    <2> QED BY <2>1, <2>2
<1>2. ASSUME NEW t \in Seq(E), NEW x \in E, t \in P PROVE Append(t, x) \in P
    <2> DEFINE n == Len(t)
               w == Append(t, x)
               left == Only(t, S)
    <2>1. w \in Seq(E) /\ n \in Nat /\ DOMAIN t = 1..n /\ DOMAIN w = 1..(n + 1)
          /\ w[n + 1] = x /\ \A i \in 1..n : w[i] = t[i]
        OBVIOUS
    <2>2. Only(w, S) = IF x \in S THEN Append(left, x) ELSE left
        BY OnlyAppend
    <2>0. left \in Seq(E)
        BY OnlySeq, Zenon
    <2>3. OneOfEach(left) <=> Apart(t, S)
        BY <1>2
    <2>4. Range(left) = Range(t) \cap S
        BY OnlyRange, Zenon
    <2> HIDE DEF left, w
    <2>5. CASE x \notin S
        <3>1. \A i \in DOMAIN w : w[i] \in S => i \in DOMAIN t /\ w[i] = t[i]
            BY <2>1, <2>5
        <3>2. Apart(w, S) <=> Apart(t, S)
            BY <2>1, <3>1 DEF Apart
        <3>3. OneOfEach(Only(w, S)) <=> Apart(w, S)
            BY <2>2, <2>3, <2>5, <3>2
        <3> QED BY <2>1, <3>3 DEF w
    <2>6. CASE x \in S
        <3> DEFINE m == Len(left)
                   v == Append(left, x)
                   New1(u) == \A i \in DOMAIN u : u[i] \in S => u[i].name # x.name
        <3>1. m \in Nat /\ DOMAIN left = 1..m /\ DOMAIN v = 1..(m + 1)
              /\ v[m + 1] = x /\ \A i \in 1..m : v[i] = left[i]
            BY <2>0
        <3> HIDE DEF v
        <3>2. OneOfEach(v) <=> OneOfEach(left) /\ \A i \in 1..m : left[i].name # x.name
            BY <3>1 DEF OneOfEach
        <3>3. Apart(w, S) <=> Apart(t, S) /\ New1(t)
            BY <2>1, <2>6 DEF Apart
        <3>4. (\A i \in 1..m : left[i].name # x.name) <=> New1(t)
            <4>1. (\A i \in 1..m : left[i].name # x.name) <=> \A r \in Range(left) : r.name # x.name
                BY <3>1 DEF Range
            <4>2. New1(t) <=> \A r \in Range(t) \cap S : r.name # x.name
                BY DEF Range
            <4> HIDE DEF New1
            <4> QED BY <2>4, <4>1, <4>2
        <3>5. Only(w, S) = v
            BY <2>2, <2>6 DEF v
        <3>6. OneOfEach(Only(w, S)) <=> Apart(w, S)
            BY <2>3, <3>2, <3>3, <3>4, <3>5
        <3> QED BY <2>1, <3>6 DEF w
    <2> QED BY <2>5, <2>6
<1>3. \A t \in Seq(E) : t \in P
    <2> HIDE DEF P
    <2> QED BY <1>1, <1>2, Longer, Zenon
<1> QED BY <1>3

-----------------------------------------------------------------------------
(***************************************************************************)
(* Names, records and lock records.                                        *)
(***************************************************************************)
\* A name ends in another one.
Ends(s, t) == Len(s) <= Len(t) /\ \A i \in 1..Len(s) : s[i] = t[Len(t) - Len(s) + i]

LEMMA SuffixEnds ==
    ASSUME NEW E, NEW s \in Seq(E), NEW t \in Seq(E) PROVE IsSuffix(s, t) <=> Ends(s, t)
<1> DEFINE m == Len(s)
           n == Len(t)
           rs == Reverse(s)
           rt == Reverse(t)
<1>1. m \in Nat /\ n \in Nat
    OBVIOUS
<1>2. /\ rs \in Seq(E) /\ Len(rs) = m /\ \A i \in 1..m : rs[i] = s[m - i + 1]
      /\ rt \in Seq(E) /\ Len(rt) = n /\ \A i \in 1..n : rt[i] = t[n - i + 1]
    <2>1. ASSUME NEW u \in Seq(E)
          PROVE  /\ Reverse(u) \in Seq(E) /\ Len(Reverse(u)) = Len(u)
                 /\ \A i \in 1..Len(u) : Reverse(u)[i] = u[Len(u) - i + 1]
        <3>1. \A i \in 1..Len(u) : Len(u) - i + 1 \in 1..Len(u)
            OBVIOUS
        <3>2. Reverse(u) \in [1..Len(u) -> E]
            BY <3>1 DEF Reverse
        <3> QED BY <3>2 DEF Reverse
    <2> QED BY <2>1
<1> HIDE DEF rs, rt
<1>3. IsSuffix(s, t) <=> m <= n /\ SubSeq(rs, 1, m) = SubSeq(rt, 1, m)
    BY <1>2 DEF IsSuffix, IsPrefix, rs, rt
<1>4. ASSUME m <= n
      PROVE  SubSeq(rs, 1, m) = SubSeq(rt, 1, m) <=> \A i \in 1..m : rs[i] = rt[i]
    <2>1. SubSeq(rs, 1, m) = [i \in 1..m |-> rs[i]]
        BY <1>1, <1>2
    <2>2. SubSeq(rt, 1, m) = [i \in 1..m |-> rt[i]]
        BY <1>1, <1>2, <1>4
    <2> QED BY <2>1, <2>2
<1>5. ASSUME m <= n, \A i \in 1..m : rs[i] = rt[i], NEW i \in 1..m PROVE s[i] = t[n - m + i]
    <2>1. m - i + 1 \in 1..m /\ m - i + 1 \in 1..n
        BY <1>1, <1>5
    <2>2. rs[m - i + 1] = rt[m - i + 1]
        BY <1>5, <2>1
    <2>3. rs[m - i + 1] = s[m - (m - i + 1) + 1] /\ rt[m - i + 1] = t[n - (m - i + 1) + 1]
        BY <1>2, <2>1
    <2>4. m - (m - i + 1) + 1 = i /\ n - (m - i + 1) + 1 = n - m + i
        BY <1>1
    <2> QED BY <2>2, <2>3, <2>4
<1>6. ASSUME m <= n, \A i \in 1..m : s[i] = t[n - m + i], NEW i \in 1..m PROVE rs[i] = rt[i]
    <2>1. m - i + 1 \in 1..m /\ i \in 1..n
        BY <1>1, <1>6
    <2>2. s[m - i + 1] = t[n - m + (m - i + 1)]
        BY <1>6, <2>1
    <2>3. n - m + (m - i + 1) = n - i + 1
        BY <1>1
    <2>4. rs[i] = s[m - i + 1] /\ rt[i] = t[n - i + 1]
        BY <1>2, <2>1
    <2> QED BY <2>2, <2>3, <2>4
<1> QED BY <1>3, <1>4, <1>5, <1>6 DEF Ends

\* A name ends in itself, and an item ends in another only when the numbers are the same
\* and the names of the histories end so.
LEMMA EndsItself == ASSUME NEW E, NEW s \in Seq(E) PROVE IsSuffix(s, s)
<1>1. \A i \in 1..Len(s) : Len(s) - Len(s) + i = i
    OBVIOUS
<1>2. Ends(s, s)
    BY <1>1 DEF Ends
<1> QED BY <1>2, SuffixEnds

LEMMA ItemEndsItem ==
    ASSUME NEW E, NEW m \in Seq(E), NEW n \in Seq(E), NEW j \in E, NEW k \in E,
           IsSuffix(Append(m, j), Append(n, k))
    PROVE  j = k /\ IsSuffix(m, n)
<1> DEFINE s == Append(m, j)
           t == Append(n, k)
           a == Len(m)
           b == Len(n)
<1>1. /\ a \in Nat /\ b \in Nat /\ s \in Seq(E) /\ t \in Seq(E) /\ Len(s) = a + 1 /\ Len(t) = b + 1
      /\ s[a + 1] = j /\ t[b + 1] = k
      /\ \A i \in 1..a : s[i] = m[i]
      /\ \A i \in 1..b : t[i] = n[i]
    OBVIOUS
<1> HIDE DEF s, t
<1>2. Ends(s, t)
    BY <1>1, SuffixEnds DEF s, t
<1>3. a <= b /\ \A i \in 1..(a + 1) : s[i] = t[b - a + i]
    <2>1. \A i : (b + 1) - (a + 1) + i = b - a + i \/ i \notin Int
        BY <1>1
    <2> QED BY <1>1, <1>2, <2>1 DEF Ends
<1>4. j = k
    <2>1. b - a + (a + 1) = b + 1 /\ a + 1 \in 1..(a + 1)
        BY <1>1
    <2>2. s[a + 1] = t[b - a + (a + 1)]
        BY <1>3, <2>1
    <2> QED BY <1>1, <2>1, <2>2
<1>5. ASSUME NEW i \in 1..a PROVE m[i] = n[b - a + i]
    <2>1. i \in 1..(a + 1) /\ b - a + i \in 1..b
        BY <1>1, <1>3
    <2> QED BY <1>1, <1>3, <2>1
<1>6. Ends(m, n)
    BY <1>3, <1>5 DEF Ends
<1> QED BY <1>4, <1>6, SuffixEnds

\* The first of the places.
LEMMA MinIs == ASSUME NEW S, S \subseteq Nat, S # {} PROVE Min(S) \in S /\ \A k \in S : Min(S) <= k
<1>1. \E m \in S : \A k \in S : m <= k
    BY FirstOf, Zenon
<1> QED BY <1>1 DEF Min

\* A set of numbers that is bounded has a greatest.
LEMMA MaxIs ==
    ASSUME NEW n \in Nat, NEW S, S \subseteq 0..n, S # {}
    PROVE  Max(S) \in S /\ \A k \in S : k <= Max(S)
<1>1. \E m \in S : \A k \in S : k <= m
    BY LastOf, Zenon
<1>2. \A j, k \in S : j <= k <=> k >= j
    OBVIOUS
<1>3. \E m \in S : \A k \in S : m >= k
    BY <1>1, <1>2
<1>4. Max(S) \in S /\ \A k \in S : Max(S) >= k
    BY <1>3 DEF Max
<1> QED BY <1>2, <1>4

-----------------------------------------------------------------------------
(***************************************************************************)
(* The files that calls leave.                                             *)
(***************************************************************************)
Payload     == Values \cup {NullLine}
FileRecords == [name : Seq(Parts), val : Seq(Payload)]
FileLines   == LockLines \cup {NullLine, BlankLine}
ItemsOf(n)  == {Append(n, k) : k \in Nat}
Histories   == UNION {[D -> Seq(Seq(Parts))] : D \in SUBSET StalkNames}
FileTypes   == [recs : Seq(FileRecords), lines : Seq(FileLines), hist : Histories, stray : BOOLEAN]

\* A history has only items of its own name.
OwnItems(f) == \A n \in DOMAIN f.hist : Range(f.hist[n]) \subseteq ItemsOf(n)

FileOK(f) == f \in FileTypes /\ f.lines # <<>> /\ OwnItems(f)

\* What the constants say of names.
LEMMA NamesAre ==
    /\ UserNames \subseteq Seq(Parts) /\ StalkNames \subseteq UserNames
    /\ Nat \subseteq Parts /\ Tilde \in Parts /\ RecentName \in Parts /\ Tilde \notin Nat
    /\ \A n \in UserNames : n # <<>> /\ Tilde \notin Range(n) /\ n # Recent
    /\ \A m, n \in StalkNames : IsSuffix(m, n) => m = n
<1> DEFINE own == UNION {Range(n) : n \in UserNames}
<1>1. own \subseteq Parts
    BY DEF Parts
<1>2. UserNames \subseteq Seq(own)
    BY LegacyConstantsOK DEF LegacyConstantsOK
<1> HIDE DEF own
<1>3. Seq(own) \subseteq Seq(Parts)
    BY <1>1
<1>4. UserNames \subseteq Seq(Parts)
    BY <1>2, <1>3
<1>5. StalkNames \subseteq UserNames /\ \A m, n \in StalkNames : IsSuffix(m, n) => m = n
    BY LegacyConstantsOK DEF LegacyConstantsOK
<1>6. \A n \in UserNames : n # <<>> /\ Tilde \notin Range(n) /\ n # Recent
    BY LegacyConstantsOK DEF LegacyConstantsOK, Recent
<1>7. Nat \subseteq Parts /\ Tilde \in Parts /\ RecentName \in Parts
    BY DEF Parts
<1>8. Tilde \notin Nat
    BY LegacyConstantsOK DEF LegacyConstantsOK
<1> QED BY <1>4, <1>5, <1>6, <1>7, <1>8

\* Items are names, and no item of one history ends in an item of another.
LEMMA ItemsAre ==
    ASSUME NEW n \in StalkNames
    PROVE  /\ ItemsOf(n) \subseteq Seq(Parts)
           /\ \A m \in StalkNames : \A i \in ItemsOf(m), j \in ItemsOf(n) :
                 IsSuffix(i, j) => i = j /\ m = n
<1>1. n \in Seq(Parts) /\ \A m \in StalkNames : m \in Seq(Parts)
    BY NamesAre
<1>2. ItemsOf(n) \subseteq Seq(Parts)
    BY <1>1, NamesAre DEF ItemsOf
<1>3. ASSUME NEW m \in StalkNames, NEW i \in ItemsOf(m), NEW j \in ItemsOf(n), IsSuffix(i, j)
      PROVE  i = j /\ m = n
    <2>1. PICK k \in Nat : i = Append(m, k)
        BY DEF ItemsOf
    <2>2. PICK l \in Nat : j = Append(n, l)
        BY DEF ItemsOf
    <2>3. k \in Parts /\ l \in Parts
        BY NamesAre
    <2>4. k = l /\ IsSuffix(m, n)
        BY <1>1, <1>3, <2>1, <2>2, <2>3, ItemEndsItem, Zenon
    <2>5. m = n
        BY <2>4, NamesAre, Zenon
    <2> QED BY <2>1, <2>2, <2>4, <2>5
<1> QED BY <1>2, <1>3

\* The first record that a name meets has its value.
LEMMA ValueIs ==
    ASSUME NEW f, f.recs \in Seq(FileRecords), NEW n, Found(f, n)
    PROVE  \E j \in DOMAIN f.recs :
              /\ Meets(n, f.recs[j]) /\ Value(f, n) = f.recs[j].val
              /\ \A i \in DOMAIN f.recs : i < j => ~Meets(n, f.recs[i])
<1> DEFINE s == f.recs
           I == {i \in 1..Len(s) : Meets(n, s[i])}
<1>1. I \subseteq Nat /\ DOMAIN s = 1..Len(s) /\ DOMAIN s \subseteq Nat
    OBVIOUS
<1>2. I # {}
    BY <1>1 DEF Found, Range
<1>3. SelectInSeq(s, LAMBDA r : Meets(n, r)) = IF I # {} THEN Min(I) ELSE 0
    BY DEF SelectInSeq
<1> HIDE DEF I
<1>4. Min(I) \in I /\ \A k \in I : Min(I) <= k
    BY <1>1, <1>2, MinIs, Zenon
<1>5. Value(f, n) = s[Min(I)].val
    BY <1>2, <1>3 DEF Value
<1>6. Min(I) \in DOMAIN s /\ Meets(n, s[Min(I)])
    BY <1>1, <1>4 DEF I
<1>7. ASSUME NEW i \in DOMAIN s, i < Min(I) PROVE ~Meets(n, s[i])
    <2>1. i \in Nat /\ Min(I) \in Nat
        BY <1>1, <1>4
    <2>2. i \notin I
        BY <1>4, <1>7, <2>1
    <2> QED BY <1>1, <2>2 DEF I
<1> QED BY <1>5, <1>6, <1>7

LEMMA ValueSeq ==
    ASSUME NEW f, f.recs \in Seq(FileRecords), NEW n, Found(f, n)
    PROVE  Value(f, n) \in Seq(Payload) /\ Value(f, n) # Core
<1>1. PICK j \in DOMAIN f.recs : Meets(n, f.recs[j]) /\ Value(f, n) = f.recs[j].val
    BY ValueIs
<1>2. f.recs[j] \in FileRecords
    OBVIOUS
<1> QED BY <1>1, <1>2 DEF FileRecords, Meets

\* The first lock record of a name.
LEMMA LockIs ==
    ASSUME NEW s \in Seq(FileLines), NEW n
    PROVE  /\ HasLock(s, n) <=> \E i \in DOMAIN s : IsLock(s[i]) /\ s[i].name = n
           /\ HasLock(s, n) =>
                 /\ LockIndex(s, n) \in DOMAIN s /\ LockOf(s, n) = s[LockIndex(s, n)]
                 /\ IsLock(LockOf(s, n)) /\ LockOf(s, n).name = n /\ LockOf(s, n) \in LockLines
                 /\ \A i \in DOMAIN s : i < LockIndex(s, n) => ~(IsLock(s[i]) /\ s[i].name = n)
<1> DEFINE I == {i \in 1..Len(s) : IsLock(s[i]) /\ s[i].name = n}
<1>1. I \subseteq Nat /\ DOMAIN s = 1..Len(s) /\ 0 \notin I /\ DOMAIN s \subseteq Nat
    OBVIOUS
<1>2. LockIndex(s, n) = IF I # {} THEN Min(I) ELSE 0
    BY DEF SelectInSeq, LockIndex
<1>3. I # {} <=> \E i \in DOMAIN s : IsLock(s[i]) /\ s[i].name = n
    BY <1>1
<1> HIDE DEF I
<1>4. ASSUME I # {} PROVE Min(I) \in I /\ \A k \in I : Min(I) <= k
    BY <1>1, <1>4, MinIs, Zenon
<1>5. HasLock(s, n) <=> I # {}
    BY <1>1, <1>2, <1>4 DEF HasLock
<1>6. ASSUME HasLock(s, n)
      PROVE  /\ LockIndex(s, n) \in DOMAIN s /\ LockOf(s, n) = s[LockIndex(s, n)]
             /\ IsLock(LockOf(s, n)) /\ LockOf(s, n).name = n /\ LockOf(s, n) \in LockLines
             /\ \A i \in DOMAIN s : i < LockIndex(s, n) => ~(IsLock(s[i]) /\ s[i].name = n)
    <2>1. LockIndex(s, n) \in I /\ \A k \in I : LockIndex(s, n) <= k
        BY <1>2, <1>4, <1>5, <1>6
    <2>2. LockIndex(s, n) \in DOMAIN s /\ IsLock(s[LockIndex(s, n)]) /\ s[LockIndex(s, n)].name = n
        BY <1>1, <2>1 DEF I
    <2>3. s[LockIndex(s, n)] \in LockLines
        BY <2>2 DEF IsLock, FileLines
    <2>4. ASSUME NEW i \in DOMAIN s, i < LockIndex(s, n) PROVE ~(IsLock(s[i]) /\ s[i].name = n)
        <3>1. i \in Nat /\ LockIndex(s, n) \in Nat
            BY <1>1, <2>1
        <3>2. i \notin I
            BY <2>1, <2>4, <3>1
        <3> QED BY <1>1, <3>2 DEF I
    <2> QED BY <2>2, <2>3, <2>4 DEF LockOf
<1> QED BY <1>3, <1>5, <1>6

-----------------------------------------------------------------------------
(***************************************************************************)
(* What taking out locks leaves.                                           *)
(***************************************************************************)
\* A sequence that is not empty is one with one more.
LEMMA LastOne ==
    ASSUME NEW E, NEW s \in Seq(E), s # <<>>
    PROVE  \E t \in Seq(E), x \in E : s = Append(t, x) /\ Len(s) = Len(t) + 1
<1> DEFINE n == Len(s)
           t == SubSeq(s, 1, n - 1)
<1>1. n \in Nat /\ n # 0 /\ n \in 1..n
    OBVIOUS
<1>2. t \in Seq(E) /\ s[n] \in E /\ Len(t) = n - 1
    <2>1. t = [i \in 1..(n - 1) |-> s[i]]
        BY <1>1
    <2>2. s \in [1..n -> E] /\ n - 1 \in Nat
        BY <1>1
    <2> HIDE DEF t
    <2> QED BY <1>1, <2>1, <2>2
<1>3. s = Append(t, s[n])
    BY <1>1
<1> HIDE DEF t
<1> QED BY <1>1, <1>2, <1>3

\* Runs of empty lines may become shorter, the rest of a section stays.
LEMMA CollapsedKeeps ==
    ASSUME NEW s \in Seq(FileLines), s # <<>>
    PROVE  /\ Collapsed(s) \in Seq(FileLines) /\ Collapsed(s) # <<>>
           /\ \A S : BlankLine \notin S => Only(Collapsed(s), S) = Only(s, S)
<1> DEFINE I == {i \in DOMAIN s : Kept(s, i)}
<1>1. Collapsed(s) = Thin(s, I)
    <2>1. \A i \in DOMAIN s : Kept(s, i) <=> i \in I
        OBVIOUS
    <2> HIDE DEF I
    <2> QED BY <2>1 DEF Collapsed, Thin
<1>2. \A i \in DOMAIN s : s[i] # BlankLine \/ i = Len(s) => i \in I
    BY DEF Kept
<1> HIDE DEF I
<1>3. Thin(s, I) \in Seq(FileLines)
    BY ThinSeq, Zenon
<1>4. Thin(s, I) # <<>>
    <2>1. PICK t \in Seq(FileLines), x \in FileLines : s = Append(t, x) /\ Len(s) = Len(t) + 1
        BY LastOne, Zenon
    <2>2. Len(s) \in DOMAIN s
        BY <2>1
    <2>3. Len(t) + 1 \in I
        BY <1>2, <2>1, <2>2
    <2>4. Thin(Append(t, x), I) = IF Len(t) + 1 \in I THEN Append(Thin(t, I), x) ELSE Thin(t, I)
        BY ThinAppend
    <2>5. Thin(t, I) \in Seq(FileLines)
        BY ThinSeq, Zenon
    <2>6. Append(Thin(t, I), x) # <<>>
        BY <2>5
    <2> QED BY <2>1, <2>3, <2>4, <2>6
<1>5. ASSUME NEW S, BlankLine \notin S PROVE Only(Thin(s, I), S) = Only(s, S)
    <2>1. \A i \in DOMAIN s : s[i] \in S => i \in I
        BY <1>2, <1>5
    <2> QED BY <2>1, ThinKeeps, Zenon
<1> QED BY <1>1, <1>3, <1>4, <1>5

\* Nor is there anything new in it.
LEMMA CollapsedRange ==
    ASSUME NEW s \in Seq(FileLines), s # <<>> PROVE Range(Collapsed(s)) \subseteq Range(s) \cup {BlankLine}
<1> DEFINE S == FileLines \ {BlankLine}
           t == Collapsed(s)
<1>1. t \in Seq(FileLines) /\ Only(t, S) = Only(s, S)
    BY CollapsedKeeps
<1> HIDE DEF S, t
<1>2. Range(Only(t, S)) = Range(t) \cap S /\ Range(Only(s, S)) = Range(s) \cap S
    BY <1>1, OnlyRange
<1>3. Range(t) \cap S = Range(s) \cap S
    BY <1>1, <1>2
<1>4. Range(t) \subseteq FileLines
    BY <1>1 DEF Range
<1>5. Range(t) \subseteq Range(s) \cup {BlankLine}
    BY <1>3, <1>4 DEF S
<1> QED BY <1>5 DEF t

\* Other lines stay where lines are replaced.
LEMMA ReplaceKeeps ==
    ASSUME NEW s \in Seq(FileLines), s # <<>>, NEW old, NEW new \in FileLines
    PROVE  /\ ReplaceAllLines(s, old, new) \in Seq(FileLines)
           /\ ReplaceAllLines(s, old, new) # <<>>
           /\ Range(ReplaceAllLines(s, old, new)) \subseteq Range(s) \cup {new}
           /\ \A S : old \notin S /\ new \notin S =>
                 Only(ReplaceAllLines(s, old, new), S) = Only(s, S)
<1> DEFINE t == ReplaceAllLines(s, old, new)
<1>1. DOMAIN s = 1..Len(s) /\ Len(s) \in Nat /\ Len(s) # 0 /\ \A i \in 1..Len(s) : s[i] \in FileLines
    OBVIOUS
<1>2. /\ t \in [1..Len(s) -> FileLines] /\ DOMAIN t = DOMAIN s
      /\ \A i \in DOMAIN s : t[i] = IF s[i] = old THEN new ELSE s[i]
    BY <1>1 DEF ReplaceAllLines
<1> HIDE DEF t
<1>3. t \in Seq(FileLines) /\ t # <<>>
    BY <1>1, <1>2
<1>4. ASSUME NEW S, old \notin S, new \notin S PROVE Only(t, S) = Only(s, S)
    <2>1. \A i \in DOMAIN s : s[i] = t[i] \/ (s[i] \notin S /\ t[i] \notin S)
        BY <1>2, <1>4
    <2> QED BY <1>2, <2>1, OnlySame, Zenon
<1>5. Range(t) \subseteq Range(s) \cup {new}
    BY <1>2 DEF Range
<1> QED BY <1>3, <1>4, <1>5 DEF t

\* The lines of S are not about any name of ns.
NotAbout(S, ns) == BlankLine \notin S /\ \A l \in S : IsLock(l) => l.name \notin ns

LEMMA WithoutLockKeeps ==
    ASSUME NEW s \in Seq(FileLines), s # <<>>, NEW n
    PROVE  /\ WithoutLock(s, n) \in Seq(FileLines) /\ WithoutLock(s, n) # <<>>
           /\ Range(WithoutLock(s, n)) \subseteq Range(s) \cup {BlankLine}
           /\ \A S : NotAbout(S, {n}) => Only(WithoutLock(s, n), S) = Only(s, S)
           /\ \A S : BlankLine \notin S /\ Apart(s, S) => Apart(WithoutLock(s, n), S)
           /\ Apart(s, LockLines) => \A l \in Range(WithoutLock(s, n)) : l \in LockLines => l.name # n
<1>0. \A l \in LockLines : IsLock(l) /\ l # BlankLine
    BY LegacyConstantsOK DEF LegacyConstantsOK, IsLock
<1>1. CASE ~HasLock(s, n)
    <2>1. \A i \in DOMAIN s : ~(IsLock(s[i]) /\ s[i].name = n)
        BY <1>1, LockIs
    <2>2. \A l \in Range(s) : l \in LockLines => l.name # n
        BY <1>0, <2>1 DEF Range
    <2> QED BY <1>1, <2>2 DEF WithoutLock
<1>2. CASE HasLock(s, n)
    <2> DEFINE t == ReplaceAllLines(s, LockOf(s, n), BlankLine)
    <2>1. IsLock(LockOf(s, n)) /\ LockOf(s, n).name = n
        BY <1>2, LockIs
    <2>2. BlankLine \in FileLines
        BY DEF FileLines
    <2>3. t \in Seq(FileLines) /\ t # <<>> /\ Range(t) \subseteq Range(s) \cup {BlankLine}
        BY <2>2, ReplaceKeeps, Zenon
    <2>4. ASSUME NEW S, NotAbout(S, {n}) PROVE Only(t, S) = Only(s, S)
        <3>1. LockOf(s, n) \notin S /\ BlankLine \notin S
            BY <2>1, <2>4 DEF NotAbout
        <3> QED BY <2>2, <3>1, ReplaceKeeps
    <2>5. WithoutLock(s, n) = Collapsed(t)
        BY <1>2 DEF WithoutLock
    <2> HIDE DEF t
    <2>6. Collapsed(t) \in Seq(FileLines) /\ Collapsed(t) # <<>>
        BY <2>3, CollapsedKeeps, Zenon
    <2>7. ASSUME NEW S, NotAbout(S, {n}) PROVE Only(Collapsed(t), S) = Only(s, S)
        <3>1. BlankLine \notin S
            BY <2>7 DEF NotAbout
        <3>2. Only(Collapsed(t), S) = Only(t, S)
            BY <2>3, <3>1, CollapsedKeeps, Zenon
        <3> QED BY <2>4, <2>7, <3>2
    <2>8. Range(Collapsed(t)) \subseteq Range(s) \cup {BlankLine}
        BY <2>3, CollapsedRange
    <2>9. ASSUME NEW S, BlankLine \notin S, Apart(s, S) PROVE Apart(Collapsed(t), S)
        <3>1. DOMAIN t = DOMAIN s /\ \A i \in DOMAIN s : t[i] = s[i] \/ t[i] = BlankLine
            BY DEF t, ReplaceAllLines
        <3>2. Apart(t, S)
            BY <2>9, <3>1 DEF Apart
        <3>3. Only(Collapsed(t), S) = Only(t, S)
            BY <2>3, <2>9, CollapsedKeeps, Zenon
        <3>4. OneOfEach(Only(t, S))
            BY <2>3, <3>2, ApartIsOne, Zenon
        <3>5. OneOfEach(Only(Collapsed(t), S))
            BY <3>3, <3>4
        <3> QED BY <2>6, <3>5, ApartIsOne, Zenon
    <2>10. ASSUME Apart(s, LockLines), NEW l \in Range(Collapsed(t)), l \in LockLines PROVE l.name # n
        <3>1. Range(Collapsed(t)) \subseteq Range(t) \cup {BlankLine}
            BY <2>3, CollapsedRange
        <3>2. PICK i \in DOMAIN s : t[i] = l
            BY <1>0, <2>10, <3>1 DEF Range, t, ReplaceAllLines
        <3>3. s[i] = l /\ s[i] # LockOf(s, n)
            BY <1>0, <2>10, <3>2 DEF t, ReplaceAllLines
        <3>4. /\ LockIndex(s, n) \in DOMAIN s /\ s[LockIndex(s, n)] = LockOf(s, n)
              /\ LockOf(s, n).name = n /\ LockOf(s, n) \in LockLines
            BY <1>2, LockIs
        <3> QED BY <2>10, <3>3, <3>4 DEF Apart
    <2> QED BY <2>5, <2>6, <2>7, <2>8, <2>9, <2>10
<1> QED BY <1>1, <1>2

\* One after the other.
LEMMA WithoutLocksKeep ==
    ASSUME NEW f \in FileTypes, f.lines # <<>>, NEW ns, DOMAIN ns = 1..Len(ns), Len(ns) \in Nat
    PROVE  \E s \in Seq(FileLines) :
              /\ WithoutLocks(f, ns) = [f EXCEPT !.lines = s] /\ s # <<>>
              /\ Range(s) \subseteq Range(f.lines) \cup {BlankLine}
              /\ \A S : NotAbout(S, Range(ns)) => Only(s, S) = Only(f.lines, S)
              /\ \A S : BlankLine \notin S /\ Apart(f.lines, S) => Apart(s, S)
              /\ Apart(f.lines, LockLines) => \A l \in Range(s) : l \in LockLines => l.name \notin Range(ns)
<1> DEFINE n == Len(ns)
           T == Seq(FileLines) \ {<<>>}
           Rec(g) == [k \in 0..n |-> IF k = 0 THEN f.lines ELSE WithoutLock(g[k - 1], ns[k])]
           lines == CHOOSE g : g = Rec(g)
<1>1. f.lines \in T
    BY DEF FileTypes
<1>2. \A s \in T : \A m : WithoutLock(s, m) \in T
    BY WithoutLockKeeps
<1>3. \E g : g = Rec(g)
    <2> DEFINE step == [p \in (1..n) \X T |-> WithoutLock(p[2], ns[p[1]])]
               base == f.lines
    <2>1. step \in [(1..n) \X T -> T]
        <3>1. \A p \in (1..n) \X T : p[2] \in T
            OBVIOUS
        <3> HIDE DEF T
        <3> QED BY <1>2, <3>1
    <2>2. \A i \in 1..n : \A t \in T : step[<<i, t>>] = WithoutLock(t, ns[i])
        <3> HIDE DEF T
        <3> QED OBVIOUS
    <2>3. base \in T
        BY <1>1
    <2> HIDE DEF step, T, base
    <2>4. PICK g \in [0..n -> T] : Recurs(g, n, base, step)
        BY <2>1, <2>3, RecursionExists, Zenon
    <2>5. ASSUME NEW k \in 0..n PROVE g[k] = IF k = 0 THEN base ELSE WithoutLock(g[k - 1], ns[k])
        <3>1. CASE k = 0
            BY <2>4, <3>1 DEF Recurs
        <3>2. CASE k # 0
            <4>1. k \in 1..n /\ k - 1 \in 0..n
                BY <3>2
            <4>2. g[k - 1] \in T /\ g[k] = step[<<k, g[k - 1]>>]
                BY <2>4, <4>1 DEF Recurs
            <4> QED BY <2>2, <3>2, <4>1, <4>2
        <3> QED BY <3>1, <3>2
    <2>6. g = Rec(g)
        BY <2>4, <2>5 DEF base
    <2> HIDE DEF Rec
    <2> QED BY <2>6
<1>4. lines = Rec(lines)
    <2> HIDE DEF Rec
    <2> QED BY <1>3, Zenon
<1>5. WithoutLocks(f, ns) = [f EXCEPT !.lines = lines[n]]
    BY DEF WithoutLocks
<1> HIDE DEF lines, T
<1>6. lines[0] = f.lines /\ \A k \in 1..n : lines[k] = WithoutLock(lines[k - 1], ns[k])
    <2>1. 0 \in 0..n /\ \A k \in 1..n : k \in 0..n /\ k # 0
        OBVIOUS
    <2> QED BY <1>4, <2>1
<1> DEFINE Good(s) == /\ s \in T /\ Range(s) \subseteq Range(f.lines) \cup {BlankLine}
                      /\ \A S : NotAbout(S, Range(ns)) => Only(s, S) = Only(f.lines, S)
                      /\ \A S : BlankLine \notin S /\ Apart(f.lines, S) => Apart(s, S)
           Gone(s, k) == Apart(f.lines, LockLines) =>
                            \A l \in Range(s) : l \in LockLines => \A j \in 1..k : l.name # ns[j]
           P == {k \in 0..n : Good(lines[k]) /\ Gone(lines[k], k)}
<1>b. BlankLine \notin LockLines
    BY LegacyConstantsOK DEF LegacyConstantsOK
<1>7. 0 \in P
    BY <1>1, <1>6
<1>8. ASSUME NEW k \in 1..n, k - 1 \in P PROVE k \in P
    <2>1. lines[k - 1] \in T /\ \A S : NotAbout(S, Range(ns)) => Only(lines[k - 1], S) = Only(f.lines, S)
        BY <1>8
    <2>2. lines[k] = WithoutLock(lines[k - 1], ns[k])
        BY <1>6
    <2>3. lines[k] \in T
        BY <1>2, <2>1, <2>2
    <2>4. ASSUME NEW S, NotAbout(S, Range(ns)) PROVE Only(lines[k], S) = Only(f.lines, S)
        <3>1. ns[k] \in Range(ns)
            BY DEF Range
        <3>2. NotAbout(S, {ns[k]})
            BY <2>4, <3>1 DEF NotAbout
        <3>3. lines[k - 1] \in Seq(FileLines) /\ lines[k - 1] # <<>>
            BY <2>1 DEF T
        <3>4. Only(WithoutLock(lines[k - 1], ns[k]), S) = Only(lines[k - 1], S)
            BY <3>2, <3>3, WithoutLockKeeps, Zenon
        <3> QED BY <2>1, <2>2, <2>4, <3>4
    <2>5. Range(lines[k]) \subseteq Range(f.lines) \cup {BlankLine}
        <3>1. lines[k - 1] \in Seq(FileLines) /\ lines[k - 1] # <<>>
            BY <2>1 DEF T
        <3>2. Range(WithoutLock(lines[k - 1], ns[k])) \subseteq Range(lines[k - 1]) \cup {BlankLine}
            BY <3>1, WithoutLockKeeps, Zenon
        <3>3. Range(lines[k - 1]) \subseteq Range(f.lines) \cup {BlankLine}
            BY <1>8
        <3> QED BY <2>2, <3>2, <3>3
    <2>6. ASSUME NEW S, BlankLine \notin S, Apart(f.lines, S) PROVE Apart(lines[k], S)
        <3>1. lines[k - 1] \in Seq(FileLines) /\ lines[k - 1] # <<>>
            BY <2>1 DEF T
        <3>2. Apart(lines[k - 1], S)
            BY <1>8, <2>6
        <3>3. Apart(WithoutLock(lines[k - 1], ns[k]), S)
            BY <2>6, <3>1, <3>2, WithoutLockKeeps, Zenon
        <3> QED BY <2>2, <3>3
    <2>7. k \in 0..n
        OBVIOUS
    <2>8. ASSUME Apart(f.lines, LockLines), NEW l \in Range(lines[k]), l \in LockLines, NEW j \in 1..k
          PROVE  l.name # ns[j]
        <3> DEFINE u == lines[k - 1]
        <3>1. u \in Seq(FileLines) /\ u # <<>>
            BY <2>1 DEF T
        <3>2. Apart(u, LockLines) /\ \A x \in Range(u) : x \in LockLines => \A i \in 1..(k - 1) : x.name # ns[i]
            BY <1>8, <1>b, <2>8
        <3> HIDE DEF u
        <3>3. /\ \A x \in Range(WithoutLock(u, ns[k])) : x \in LockLines => x.name # ns[k]
              /\ Range(WithoutLock(u, ns[k])) \subseteq Range(u) \cup {BlankLine}
            BY <3>1, <3>2, WithoutLockKeeps, Zenon
        <3>4. l \in Range(u) /\ l.name # ns[k]
            BY <1>b, <2>2, <2>8, <3>3 DEF u
        <3>5. j = k \/ j \in 1..(k - 1)
            BY <2>8
        <3> QED BY <2>8, <3>2, <3>4, <3>5
    <2> QED BY <2>3, <2>4, <2>5, <2>6, <2>7, <2>8
<1>9. n \in P
    <2> HIDE DEF P
    <2>1. \A k \in 0..n : k \in P
        BY <1>7, <1>8, CountUp, Zenon
    <2> QED BY <2>1
<1>10. /\ lines[n] \in T /\ Range(lines[n]) \subseteq Range(f.lines) \cup {BlankLine}
       /\ \A S : NotAbout(S, Range(ns)) => Only(lines[n], S) = Only(f.lines, S)
       /\ \A S : BlankLine \notin S /\ Apart(f.lines, S) => Apart(lines[n], S)
    BY <1>9
<1>11. Apart(f.lines, LockLines) => \A l \in Range(lines[n]) : l \in LockLines => l.name \notin Range(ns)
    <2>1. Gone(lines[n], n)
        BY <1>9
    <2> QED BY <2>1 DEF Range
<1> QED BY <1>5, <1>10, <1>11 DEF T

-----------------------------------------------------------------------------
(***************************************************************************)
(* Every call leaves a file of the form.                                   *)
(***************************************************************************)
\* The calls, each with its arguments.
LEMMA CallCases ==
    ASSUME NEW f, NEW c \in Calls(f), NEW g \in Results(f, c)
    PROVE  LET known == UserNames \cup AllItems(f)
               some  == SetToAllKPermutations(UserNames) IN
           \/ c.op = "addvar" /\ c.name \in UserNames /\ c.val \in Values /\ g \in AddVar(f, c.name, c.val)
           \/ c.op = "corevar" /\ c.name \in UserNames /\ g \in CoreVar(f, c.name)
           \/ /\ c.op = "appvar" /\ c.name \in some
              /\ c.val \in {<<>>} \cup {<<v>> : v \in Values} /\ g \in AppVar(f, c.name, c.val)
           \/ /\ c.op = "appvar_locks" /\ c.name \in some /\ c.on \in UserNames /\ c.lock \in LockOps
              /\ c.val \in {<<v>> : v \in Values} /\ g \in AppVarLocks(f, c.name, c.val, c.on, c.lock)
           \/ c.op = "changevar" /\ c.name \in known /\ c.val \in Values /\ g \in ChangeVar(f, c.name, c.val)
           \/ c.op = "removevar" /\ c.name \in known /\ g \in RemoveVar(f, c.name)
           \/ c.op = "renamevar_stx" /\ c.name \in known /\ c.to \in UserNames /\ g \in RenameVar(f, c.name, c.to)
           \/ c.op = "renumber" /\ c.name \in StalkNames /\ c.to \in {0, 1} /\ g \in Renumber(f, c.name, c.to)
           \/ c.op = "joinvars" /\ c.name \in UserNames /\ c.from \in some /\ g \in JoinVars(f, c.name, c.from)
           \/ /\ c.op = "lockvar" /\ c.name \in UserNames
              /\ c.locks \in SetToAllKPermutations(LockOps) \ {<<>>} /\ g \in LockVar(f, c.name, c.locks)
           \/ /\ c.op = "lockdel" /\ c.name \in UserNames /\ c.all \in BOOLEAN
              /\ c.locks \in {<<o>> : o \in LockOps} /\ g \in LockDel(f, c.name, c.all, c.locks)
           \/ c.op = "stalkvar" /\ c.name \in StalkNames /\ c.val \in Values /\ g \in Stalk(f, c.name, c.val)
<1> DEFINE known == UserNames \cup AllItems(f)
           some  == SetToAllKPermutations(UserNames)
<1>1. CASE c \in [op : Ops \cap {"addvar"}, name : UserNames, val : Values]
    BY <1>1 DEF Results
<1>2. CASE c \in [op : Ops \cap {"corevar"}, name : UserNames]
    BY <1>2 DEF Results
<1>3. CASE c \in [op : Ops \cap {"appvar"}, name : {ns \in some \ {<<>>} : Len(ns) <= 2}, val : {<<>>} \cup {<<v>> : v \in Values}]
    <2> HIDE DEF some
    <2>1. c.op = "appvar" /\ c.name \in some /\ c.val \in {<<>>} \cup {<<v>> : v \in Values}
        BY <1>3
    <2>2. g \in AppVar(f, c.name, c.val)
        BY <2>1 DEF Results
    <2> QED BY <2>1, <2>2 DEF some
<1>4. CASE c \in [op : Ops \cap {"appvar_locks"}, name : {ns \in some \ {<<>>} : Len(ns) = 1}, val : {<<v>> : v \in Values},
                  on : UserNames, lock : LockOps]
    <2> HIDE DEF some
    <2>1. c.op = "appvar_locks" /\ c.name \in some /\ c.val \in {<<v>> : v \in Values}
          /\ c.on \in UserNames /\ c.lock \in LockOps
        BY <1>4
    <2>2. g \in AppVarLocks(f, c.name, c.val, c.on, c.lock)
        BY <2>1 DEF Results
    <2> QED BY <2>1, <2>2 DEF some
<1>5. CASE c \in [op : Ops \cap {"changevar"}, name : known, val : Values]
    BY <1>5 DEF Results
<1>6. CASE c \in [op : Ops \cap {"removevar"}, name : known]
    BY <1>6 DEF Results
<1>7. CASE c \in [op : Ops \cap {"renamevar_stx"}, name : known, to : UserNames]
    BY <1>7 DEF Results
<1>8. CASE c \in [op : Ops \cap {"renumber"}, name : StalkNames, to : {0, 1}]
    BY <1>8 DEF Results
<1>9. CASE c \in [op : Ops \cap {"joinvars"}, name : UserNames, from : {ns \in some \ {<<>>} : Len(ns) <= 2}]
    <2> HIDE DEF some
    <2>1. c.op = "joinvars" /\ c.name \in UserNames /\ c.from \in some
        BY <1>9
    <2>2. g \in JoinVars(f, c.name, c.from)
        BY <2>1 DEF Results
    <2> QED BY <2>1, <2>2 DEF some
<1>10. CASE c \in [op : Ops \cap {"lockvar"}, name : UserNames, locks : SetToAllKPermutations(LockOps) \ {<<>>}]
    BY <1>10 DEF Results
<1>11. CASE c \in [op : Ops \cap {"lockdel"}, name : UserNames, all : BOOLEAN, locks : {<<o>> : o \in LockOps}]
    BY <1>11 DEF Results
<1>12. CASE c \in [op : Ops \cap {"stalkvar"}, name : StalkNames, val : Values]
    BY <1>12 DEF Results
<1>13. \/ c \in [op : Ops \cap {"addvar"}, name : UserNames, val : Values]
       \/ c \in [op : Ops \cap {"corevar"}, name : UserNames]
       \/ c \in [op : Ops \cap {"appvar"}, name : {ns \in some \ {<<>>} : Len(ns) <= 2}, val : {<<>>} \cup {<<v>> : v \in Values}]
       \/ c \in [op : Ops \cap {"appvar_locks"}, name : {ns \in some \ {<<>>} : Len(ns) = 1}, val : {<<v>> : v \in Values},
                 on : UserNames, lock : LockOps]
       \/ c \in [op : Ops \cap {"changevar"}, name : known, val : Values]
       \/ c \in [op : Ops \cap {"removevar"}, name : known]
       \/ c \in [op : Ops \cap {"renamevar_stx"}, name : known, to : UserNames]
       \/ c \in [op : Ops \cap {"renumber"}, name : StalkNames, to : {0, 1}]
       \/ c \in [op : Ops \cap {"joinvars"}, name : UserNames, from : {ns \in some \ {<<>>} : Len(ns) <= 2}]
       \/ c \in [op : Ops \cap {"lockvar"}, name : UserNames, locks : SetToAllKPermutations(LockOps) \ {<<>>}]
       \/ c \in [op : Ops \cap {"lockdel"}, name : UserNames, all : BOOLEAN, locks : {<<o>> : o \in LockOps}]
       \/ c \in [op : Ops \cap {"stalkvar"}, name : StalkNames, val : Values]
    BY Zenon DEF Calls
<1> QED BY <1>1, <1>2, <1>3, <1>4, <1>5, <1>6, <1>7, <1>8, <1>9, <1>10, <1>11, <1>12, <1>13

\* Sequences of some elements of a finite set, each once.
LEMMA SomeOf ==
    ASSUME NEW S, IsFiniteSet(S), NEW ns \in SetToAllKPermutations(S)
    PROVE  /\ ns \in Seq(S) /\ DOMAIN ns = 1..Len(ns) /\ Len(ns) \in Nat
           /\ \A i, j \in DOMAIN ns : i # j => ns[i] # ns[j]
<1>1. PICK s \in SUBSET S : ns \in SetToSeqs(s)
    BY Zenon DEF SetToAllKPermutations
<1>2. Cardinality(s) \in Nat
    BY FS_Subset, FS_CardinalityType, Zenon
<1>3. ns \in [1..Cardinality(s) -> s]
      /\ \A i, j \in 1..Cardinality(s) : i # j => ns[i] # ns[j]
    BY <1>1 DEF SetToSeqs
<1> QED BY <1>2, <1>3

\* Files with other records, lines or histories.
LEMMA NewRecords ==
    ASSUME NEW f, FileOK(f), NEW s \in Seq(FileRecords) PROVE FileOK([f EXCEPT !.recs = s])
<1>1. [f EXCEPT !.recs = s] \in FileTypes
    BY DEF FileOK, FileTypes
<1> QED BY <1>1 DEF FileOK, OwnItems, FileTypes

LEMMA NewLines ==
    ASSUME NEW f, FileOK(f), NEW s \in Seq(FileLines), s # <<>>, NEW b \in BOOLEAN
    PROVE  FileOK([f EXCEPT !.lines = s]) /\ FileOK([f EXCEPT !.lines = s, !.stray = b])
<1>1. [f EXCEPT !.lines = s] \in FileTypes /\ [f EXCEPT !.lines = s, !.stray = b] \in FileTypes
    BY DEF FileOK, FileTypes
<1> QED BY <1>1 DEF FileOK, OwnItems, FileTypes

LEMMA NewHistory ==
    ASSUME NEW f, FileOK(f), NEW h \in Histories, \A n \in DOMAIN h : Range(h[n]) \subseteq ItemsOf(n)
    PROVE  FileOK([f EXCEPT !.hist = h])
<1>1. [f EXCEPT !.hist = h] \in FileTypes
    BY DEF FileOK, FileTypes
<1> QED BY <1>1 DEF FileOK, OwnItems, FileTypes

\* The histories and their items.
LEMMA HistoryIs ==
    ASSUME NEW f, FileOK(f)
    PROVE  /\ DOMAIN f.hist \subseteq StalkNames
           /\ \A n \in DOMAIN f.hist : f.hist[n] \in Seq(Seq(Parts))
           /\ \A n : Items(f, n) \in Seq(Seq(Parts)) /\ Range(Items(f, n)) \subseteq ItemsOf(n)
           /\ AllItems(f) \subseteq Seq(Parts)
           /\ \A i \in AllItems(f) : \E n \in DOMAIN f.hist : i \in Range(f.hist[n]) /\ i \in ItemsOf(n)
<1>1. PICK D \in SUBSET StalkNames : f.hist \in [D -> Seq(Seq(Parts))]
    BY DEF FileOK, FileTypes, Histories
<1>2. \A n \in DOMAIN f.hist : Range(f.hist[n]) \subseteq ItemsOf(n)
    BY DEF FileOK, OwnItems
<1>3. \A n : Items(f, n) \in Seq(Seq(Parts)) /\ Range(Items(f, n)) \subseteq ItemsOf(n)
    <2> TAKE n
    <2>1. CASE n \in DOMAIN f.hist
        BY <1>1, <1>2, <2>1 DEF Items, IsRoot
    <2>2. CASE n \notin DOMAIN f.hist
        BY <2>2 DEF Items, IsRoot, Range
    <2> QED BY <2>1, <2>2
<1>4. \A i \in AllItems(f) : \E n \in DOMAIN f.hist : i \in Range(f.hist[n]) /\ i \in ItemsOf(n)
    BY <1>2 DEF AllItems
<1>5. AllItems(f) \subseteq Seq(Parts)
    <2>1. \A n \in DOMAIN f.hist : ItemsOf(n) \subseteq Seq(Parts)
        BY <1>1, ItemsAre
    <2> QED BY <1>4, <2>1
<1> QED BY <1>1, <1>3, <1>4, <1>5

\* The number of the next item.
LEMMA NextIs ==
    ASSUME NEW n, NEW items \in Seq(Seq(Parts)), Range(items) \subseteq ItemsOf(n), n \in Seq(Parts)
    PROVE  /\ NextNumber(items) \in Nat
           /\ \A i \in Range(items) : Number(i) \in Nat /\ i = Append(n, Number(i)) /\ Number(i) < NextNumber(items)
<1>1. ASSUME NEW i \in ItemsOf(n) PROVE Number(i) \in Nat /\ i = Append(n, Number(i))
    <2>1. PICK k \in Nat : i = Append(n, k)
        BY DEF ItemsOf
    <2>2. k \in Parts
        BY NamesAre
    <2>3. i[Len(i)] = k
        BY <2>1, <2>2
    <2> QED BY <2>1, <2>3 DEF Number, Last
<1> DEFINE P == {s \in Seq(Seq(Parts)) : Range(s) \subseteq ItemsOf(n) => \E m \in Nat : \A i \in Range(s) : Number(i) <= m}
<1>2. <<>> \in P
    <2>1. Range(<<>>) = {} /\ <<>> \in Seq(Seq(Parts)) /\ 0 \in Nat
        BY DEF Range
    <2> QED BY <2>1
<1>3. ASSUME NEW s \in Seq(Seq(Parts)), NEW x \in Seq(Parts), s \in P PROVE Append(s, x) \in P
    <2> DEFINE w == Append(s, x)
    <2>1. w \in Seq(Seq(Parts)) /\ DOMAIN s = 1..Len(s) /\ DOMAIN w = 1..(Len(s) + 1) /\ Len(s) \in Nat
          /\ w[Len(s) + 1] = x /\ \A i \in 1..Len(s) : w[i] = s[i]
        OBVIOUS
    <2> HIDE DEF w
    <2>2. Range(w) = Range(s) \cup {x}
        BY RangeAppend DEF w
    <2>3. ASSUME Range(w) \subseteq ItemsOf(n) PROVE \E m \in Nat : \A i \in Range(w) : Number(i) <= m
        <3>1. Range(s) \subseteq ItemsOf(n) /\ x \in ItemsOf(n)
            BY <2>2, <2>3
        <3>2. PICK m \in Nat : \A i \in Range(s) : Number(i) <= m
            BY <1>3, <3>1
        <3>3. Number(x) \in Nat /\ \A i \in Range(s) : Number(i) \in Nat
            BY <1>1, <3>1
        <3>4. \A i \in Range(w) : Number(i) <= m + Number(x)
            BY <2>2, <3>2, <3>3
        <3>5. m + Number(x) \in Nat
            BY <3>3
        <3> QED BY <3>4, <3>5
    <2> QED BY <2>1, <2>3 DEF w
<1>4. items \in P
    <2> HIDE DEF P
    <2>1. \A s \in Seq(Seq(Parts)) : s \in P
        BY <1>2, <1>3, Longer, Zenon
    <2> QED BY <2>1
<1>5. PICK m \in Nat : \A i \in Range(items) : Number(i) <= m
    BY <1>4
<1> DEFINE N == {1} \cup {Number(i) : i \in Range(items)}
           top == m + 1
<1>6. N \subseteq 0..top /\ N \subseteq Nat /\ N # {} /\ top \in Nat
    BY <1>1, <1>5
<1>7. 1 \in N /\ \A i \in Range(items) : Number(i) \in N
    OBVIOUS
<1>8. NextNumber(items) = IF items = <<>> THEN 1 ELSE Max(N) + 1
    BY DEF NextNumber
<1> HIDE DEF N, top
<1>9. Max(N) \in N /\ \A k \in N : k <= Max(N)
    BY <1>6, MaxIs
<1>10. Max(N) \in Nat
    BY <1>6, <1>9
<1>11. NextNumber(items) \in Nat
    BY <1>8, <1>10
<1>12. ASSUME NEW i \in Range(items)
       PROVE  Number(i) \in Nat /\ i = Append(n, Number(i)) /\ Number(i) < NextNumber(items)
    <2>1. Number(i) \in Nat /\ i = Append(n, Number(i))
        BY <1>1
    <2>2. items # <<>>
        BY DEF Range
    <2>3. Number(i) <= Max(N)
        BY <1>7, <1>9
    <2> QED BY <1>8, <1>10, <2>1, <2>2, <2>3
<1> QED BY <1>11, <1>12

\* The next item is a name of the history that the history does not have.
LEMMA StalkItemIs ==
    ASSUME NEW f, FileOK(f), NEW n \in StalkNames
    PROVE  StalkItem(f, n) \in ItemsOf(n) /\ StalkItem(f, n) \in Seq(Parts) /\ StalkItem(f, n) \notin AllItems(f)
<1> DEFINE items == Items(f, n)
           k == NextNumber(items)
<1>1. n \in Seq(Parts) /\ items \in Seq(Seq(Parts)) /\ Range(items) \subseteq ItemsOf(n)
    BY HistoryIs, NamesAre
<1>2. k \in Nat /\ \A i \in Range(items) : Number(i) \in Nat /\ Number(i) < k
    BY <1>1, NextIs
<1>3. StalkItem(f, n) = Append(n, k)
    BY DEF StalkItem
<1> HIDE DEF k
<1>4. Append(n, k) \in ItemsOf(n)
    BY <1>2 DEF ItemsOf
<1>5. Append(n, k) \in Seq(Parts)
    BY <1>4, ItemsAre
<1>6. Number(Append(n, k)) = k
    <2>1. k \in Parts
        BY <1>2, NamesAre
    <2>2. Append(n, k)[Len(Append(n, k))] = k
        BY <1>1, <2>1
    <2> QED BY <2>2 DEF Number, Last
<1>7. ASSUME Append(n, k) \in AllItems(f) PROVE FALSE
    <2>1. PICK m \in DOMAIN f.hist : Append(n, k) \in Range(f.hist[m]) /\ Append(n, k) \in ItemsOf(m)
        BY <1>7, HistoryIs
    <2>2. m \in StalkNames
        BY HistoryIs
    <2>3. IsSuffix(Append(n, k), Append(n, k))
        BY <1>5, EndsItself
    <2>4. m = n
        BY <1>4, <2>1, <2>2, <2>3, ItemsAre
    <2>5. Append(n, k) \in Range(items)
        BY <2>1, <2>4 DEF Items, IsRoot
    <2> QED BY <1>2, <1>6, <2>5
<1> QED BY <1>3, <1>4, <1>5, <1>7

\* Records, and locks, are what they should be.
LEMMA RecordIs ==
    ASSUME NEW n \in Seq(Parts), NEW p \in Seq(Payload)
    PROVE  Record(n, p) \in FileRecords /\ Record(n, p).name = n /\ Record(n, p).val = p
BY DEF Record, FileRecords

LEMMA PayloadsAre ==
    /\ Core \in Seq(Payload) /\ Missing \in Seq(Payload) /\ Missing # Core
    /\ \A v \in Values : <<v>> \in Seq(Payload) /\ <<v>> # Core
BY DEF Core, Missing, Payload

LEMMA LockIn ==
    ASSUME NEW n \in Seq(Parts), NEW ops \in Seq(LockOps \cup Seq(Parts))
    PROVE  /\ Lock(n, ops) \in FileLines /\ IsLock(Lock(n, ops))
           /\ Lock(n, ops).name = n /\ Lock(n, ops).ops = ops
<1>1. Lock(n, ops) \in LockLines /\ Lock(n, ops).name = n /\ Lock(n, ops).ops = ops
    BY DEF Lock, LockLines
<1>2. {NullLine, BlankLine} \cap LockLines = {}
    BY LegacyConstantsOK DEF LegacyConstantsOK
<1>3. Lock(n, ops) # NullLine /\ Lock(n, ops) # BlankLine
    BY <1>1, <1>2
<1>4. Lock(n, ops) \in FileLines /\ IsLock(Lock(n, ops))
    BY <1>1, <1>3 DEF FileLines, IsLock
<1> QED BY <1>1, <1>4

LEMMA LockOps1 ==
    ASSUME NEW op \in LockOps \cup Seq(Parts) PROVE <<op>> \in Seq(LockOps \cup Seq(Parts))
OBVIOUS

\* What is in a sequence is finite.
LEMMA RangeFinite == ASSUME NEW E, NEW s \in Seq(E) PROVE IsFiniteSet(Range(s))
<1>1. s \in Surjection(1..Len(s), Range(s))
    BY DEF Surjection, Range
<1>2. IsFiniteSet(1..Len(s))
    <2>1. 1 \in Int /\ Len(s) \in Int
        OBVIOUS
    <2> QED BY <2>1, FS_Interval, Zenon
<1> QED BY <1>1, <1>2, FS_Surjection, Zenon

\* Joined payloads.
LEMMA PayloadsSeq ==
    ASSUME NEW f, FileOK(f), NEW ns \in Seq(Seq(Parts)) PROVE Payloads(f, ns) \in Seq(Payload)
<1> DEFINE parts == [i \in DOMAIN ns |-> IF Found(f, ns[i]) THEN Value(f, ns[i]) ELSE <<>>]
<1>1. \A i \in DOMAIN ns : (IF Found(f, ns[i]) THEN Value(f, ns[i]) ELSE <<>>) \in Seq(Payload)
    <2>1. \A n : Found(f, n) => Value(f, n) \in Seq(Payload)
        BY ValueSeq DEF FileOK, FileTypes
    <2> QED BY <2>1
<1>2. parts \in Seq(Seq(Payload))
    <2>1. DOMAIN ns = 1..Len(ns) /\ Len(ns) \in Nat
        OBVIOUS
    <2> QED BY <1>1, <2>1
<1>3. FlattenSeq(parts) \in Seq(Payload)
    <2> HIDE DEF parts
    <2> QED BY <1>2, FlattenFacts
<1> QED BY <1>3 DEF Payloads

LEMMA JoinNameIs == ASSUME NEW n \in Seq(Parts) PROVE JoinName(n) \in Seq(Parts)
<1>1. Tilde \in Parts
    BY NamesAre
<1> QED BY <1>1 DEF JoinName

\* A name that ends in another one, with another ending.
LEMMA EndInIs ==
    ASSUME NEW n \in Seq(Parts), NEW m \in Seq(Parts), NEW x \in Seq(Parts), IsSuffix(n, x)
    PROVE  EndIn(n, m, x) \in Seq(Parts)
<1> DEFINE k == Len(x) - Len(n)
           u == SubSeq(x, 1, k)
<1>1. k \in Nat /\ k <= Len(x)
    <2>1. Len(n) <= Len(x) /\ Len(n) \in Nat /\ Len(x) \in Nat
        BY SuffixEnds DEF Ends
    <2> QED BY <2>1
<1>2. u \in Seq(Parts)
    <2>1. u = [i \in 1..k |-> x[i]]
        BY <1>1
    <2>2. \A i \in 1..k : x[i] \in Parts
        BY <1>1
    <2> HIDE DEF u, k
    <2> QED BY <1>1, <2>1, <2>2
<1> HIDE DEF u, k
<1>3. u \o m \in Seq(Parts)
    BY <1>2
<1> QED BY <1>3 DEF EndIn, u, k

\* Adding records, changing them one by one, and taking them out.
LEMMA AddForm ==
    ASSUME NEW f, FileOK(f), NEW n \in Seq(Parts), NEW p \in Seq(Payload) PROVE FileOK(Add(f, n, p))
<1>1. Append(f.recs, Record(n, p)) \in Seq(FileRecords)
    BY RecordIs DEF FileOK, FileTypes
<1>2. Add(f, n, p) = [f EXCEPT !.recs = Append(f.recs, Record(n, p))]
    BY DEF Add
<1> QED BY <1>1, <1>2, NewRecords

LEMMA WithoutForm ==
    ASSUME NEW f, FileOK(f), NEW gone
    PROVE  Without(f.recs, gone) \in Seq(FileRecords)
<1>1. f.recs \in Seq(FileRecords)
    BY DEF FileOK, FileTypes
<1> QED BY <1>1, OnlySeq DEF Without

LEMMA WithoutLocksForm ==
    ASSUME NEW f, FileOK(f), NEW ns, DOMAIN ns = 1..Len(ns), Len(ns) \in Nat
    PROVE  FileOK(WithoutLocks(f, ns)) /\ WithoutLocks(f, ns).recs = f.recs /\ WithoutLocks(f, ns).hist = f.hist
           /\ WithoutLocks(f, ns).stray = f.stray
<1>1. f \in FileTypes /\ f.lines # <<>>
    BY DEF FileOK
<1>2. PICK s \in Seq(FileLines) : WithoutLocks(f, ns) = [f EXCEPT !.lines = s] /\ s # <<>>
    BY <1>1, WithoutLocksKeep
<1>3. FileOK([f EXCEPT !.lines = s])
    BY <1>2, NewLines
<1> QED BY <1>1, <1>2, <1>3 DEF FileTypes

\* Items and their records taken out: g is what becomes of f.
TakesOut(f, n, items, g) ==
    /\ FileOK(g) /\ g.stray = f.stray
    /\ g.recs = Without(f.recs, {Record(i, Value(f, i)) : i \in items})
    /\ DOMAIN g.hist = DOMAIN f.hist
    /\ \A m \in DOMAIN f.hist : g.hist[m] = IF m = n THEN Without(f.hist[n], items) ELSE f.hist[m]

LEMMA UnstalkIs ==
    ASSUME NEW f, FileOK(f), NEW n \in DOMAIN f.hist, NEW items
    PROVE  TakesOut(f, n, items, Unstalk(f, n, items)) /\ Unstalk(f, n, items).lines = f.lines
<1> DEFINE r == Without(f.recs, {Record(i, Value(f, i)) : i \in items})
           w == Without(f.hist[n], items)
           h == [f.hist EXCEPT ![n] = w]
           f1 == [f EXCEPT !.recs = r]
<1>1. f \in FileTypes
    BY DEF FileOK
<1>2. r \in Seq(FileRecords)
    BY WithoutForm
<1>3. PICK D \in SUBSET StalkNames : f.hist \in [D -> Seq(Seq(Parts))]
    BY <1>1 DEF FileTypes, Histories
<1>4. w \in Seq(Seq(Parts)) /\ Range(w) \subseteq Range(f.hist[n])
    <2>1. f.hist[n] \in Seq(Seq(Parts))
        BY <1>3
    <2>2. w \in Seq(Seq(Parts))
        BY <2>1, OnlySeq DEF Without
    <2>3. Range(w) = Range(f.hist[n]) \cap (Range(f.hist[n]) \ items)
        BY <2>1, OnlyRange DEF Without
    <2> QED BY <2>2, <2>3
<1> HIDE DEF w, r
<1>5. /\ h \in [D -> Seq(Seq(Parts))] /\ DOMAIN h = DOMAIN f.hist
      /\ \A m \in DOMAIN f.hist : h[m] = IF m = n THEN w ELSE f.hist[m]
    BY <1>3, <1>4
<1>6. \A m \in DOMAIN h : Range(h[m]) \subseteq ItemsOf(m)
    BY <1>4, <1>5 DEF FileOK, OwnItems
<1>7. h \in Histories
    BY <1>5 DEF Histories
<1> HIDE DEF h
<1>8. FileOK(f1)
    BY <1>2, NewRecords
<1>9. FileOK([f1 EXCEPT !.hist = h])
    <2> HIDE DEF f1
    <2> QED BY <1>6, <1>7, <1>8, NewHistory
<1>10. Unstalk(f, n, items) = [f1 EXCEPT !.hist = h]
    BY <1>1, <1>3 DEF Unstalk, FileTypes, r, h, w
<1>11. /\ [f1 EXCEPT !.hist = h].lines = f.lines /\ [f1 EXCEPT !.hist = h].stray = f.stray
       /\ [f1 EXCEPT !.hist = h].recs = r /\ [f1 EXCEPT !.hist = h].hist = h
    BY <1>1 DEF FileTypes
<1> HIDE DEF f1
<1> QED BY <1>5, <1>9, <1>10, <1>11 DEF TakesOut, r, w

\* The records that appvar adds.
Appended(ns, vs) == [i \in DOMAIN ns |-> Record(ns[i], IF i \in DOMAIN vs THEN <<vs[i]>> ELSE Missing)]

LEMMA AppendedAre ==
    ASSUME NEW ns \in SetToAllKPermutations(UserNames), NEW vs \in {<<>>} \cup {<<v>> : v \in Values}
    PROVE  /\ ns \in Seq(UserNames) /\ Appended(ns, vs) \in Seq(FileRecords) /\ DOMAIN Appended(ns, vs) = DOMAIN ns
           /\ \A i \in DOMAIN ns : Appended(ns, vs)[i].name = ns[i] /\ Appended(ns, vs)[i].val # Core
           /\ \A i, j \in DOMAIN ns : i # j => ns[i] # ns[j]
<1>1. IsFiniteSet(UserNames)
    BY LegacyConstantsOK DEF LegacyConstantsOK
<1>2. /\ ns \in Seq(UserNames) /\ DOMAIN ns = 1..Len(ns) /\ Len(ns) \in Nat
      /\ \A i, j \in DOMAIN ns : i # j => ns[i] # ns[j]
    BY <1>1, SomeOf
<1>3. ASSUME NEW i \in DOMAIN ns
      PROVE  (IF i \in DOMAIN vs THEN <<vs[i]>> ELSE Missing) \in Seq(Payload)
             /\ (IF i \in DOMAIN vs THEN <<vs[i]>> ELSE Missing) # Core
    <2>1. i \in DOMAIN vs => vs[i] \in Values
        OBVIOUS
    <2> QED BY <2>1, PayloadsAre
<1>4. \A i \in DOMAIN ns : ns[i] \in Seq(Parts)
    BY <1>2, NamesAre
<1>5. ASSUME NEW i \in DOMAIN ns
      PROVE  /\ Appended(ns, vs)[i] \in FileRecords /\ Appended(ns, vs)[i].name = ns[i]
             /\ Appended(ns, vs)[i].val # Core
    <2> DEFINE p == IF i \in DOMAIN vs THEN <<vs[i]>> ELSE Missing
    <2>1. Appended(ns, vs)[i] = Record(ns[i], p)
        BY DEF Appended
    <2>2. p \in Seq(Payload) /\ p # Core
        BY <1>3
    <2> HIDE DEF p
    <2> QED BY <1>4, <2>1, <2>2, RecordIs
<1>6. DOMAIN Appended(ns, vs) = DOMAIN ns /\ Appended(ns, vs) = [i \in DOMAIN ns |-> Appended(ns, vs)[i]]
    BY DEF Appended
<1>7. Appended(ns, vs) \in Seq(FileRecords)
    <2> DEFINE s == Appended(ns, vs)
    <2> HIDE DEF s
    <2>1. s = [i \in 1..Len(ns) |-> s[i]] /\ \A i \in 1..Len(ns) : s[i] \in FileRecords
        BY <1>2, <1>5, <1>6 DEF s
    <2>2. s \in Seq(FileRecords)
        BY <1>2, <2>1
    <2> QED BY <2>2 DEF s
<1> QED BY <1>2, <1>5, <1>6, <1>7

\* Both appvar calls add records.
AppendsRecords(f, ns, vs, g) ==
    FileOK(g) /\ g.recs = f.recs \o Appended(ns, vs) /\ g.hist = f.hist

LEMMA AppVarForm ==
    ASSUME NEW f, FileOK(f), NEW ns \in SetToAllKPermutations(UserNames),
           NEW vs \in {<<>>} \cup {<<v>> : v \in Values}, NEW g \in AppVar(f, ns, vs)
    PROVE  /\ AppendsRecords(f, ns, vs, g)
           /\ g.lines = f.lines /\ g.stray = f.stray
           /\ Range(ns) \cap Names(f) = {}
<1>1. f.recs \in Seq(FileRecords) /\ Appended(ns, vs) \in Seq(FileRecords) /\ f \in FileTypes
    BY AppendedAre DEF FileOK, FileTypes
<1>2. f.recs \o Appended(ns, vs) \in Seq(FileRecords)
    BY <1>1
<1>3. g = [f EXCEPT !.recs = f.recs \o Appended(ns, vs)] /\ Range(ns) \cap Names(f) = {}
    BY DEF AppVar, When, Appended
<1>4. FileOK(g)
    BY <1>2, <1>3, NewRecords
<1> QED BY <1>1, <1>3, <1>4 DEF FileTypes, AppendsRecords

LEMMA AppVarLocksForm ==
    ASSUME NEW f, FileOK(f), NEW ns \in SetToAllKPermutations(UserNames),
           NEW vs \in {<<v>> : v \in Values}, NEW m \in UserNames, NEW op \in LockOps,
           NEW g \in AppVarLocks(f, ns, vs, m, op)
    PROVE  /\ AppendsRecords(f, ns, vs, g)
           /\ g.lines = Append(f.lines, Lock(m, <<op>>))
           /\ Range(ns) \cap Names(f) = {}
<1>1. PICK h \in AppVar(f, ns, vs) : g = [h EXCEPT !.lines = Append(@, Lock(m, <<op>>)), !.stray = TRUE]
    BY DEF AppVarLocks
<1>2. /\ FileOK(h) /\ h.recs = f.recs \o Appended(ns, vs) /\ h.lines = f.lines /\ h.hist = f.hist
      /\ Range(ns) \cap Names(f) = {}
    BY AppVarForm DEF AppendsRecords
<1>3. h.lines \in Seq(FileLines) /\ h \in FileTypes
    BY <1>2 DEF FileOK, FileTypes
<1>4. Lock(m, <<op>>) \in FileLines
    <2>1. <<op>> \in Seq(LockOps \cup Seq(Parts)) /\ m \in Seq(Parts)
        BY LockOps1, NamesAre
    <2> QED BY <2>1, LockIn
<1> DEFINE s == Append(h.lines, Lock(m, <<op>>))
<1>5. s \in Seq(FileLines) /\ s # <<>>
    <2>1. \A u \in Seq(FileLines), l \in FileLines : Append(u, l) \in Seq(FileLines) /\ Append(u, l) # <<>>
        OBVIOUS
    <2> QED BY <1>3, <1>4, <2>1
<1>6. g = [h EXCEPT !.lines = s, !.stray = TRUE]
    BY <1>1
<1> HIDE DEF s
<1>7. FileOK(g)
    BY <1>2, <1>5, <1>6, NewLines
<1>8. g.recs = h.recs /\ g.lines = s /\ g.hist = h.hist
    BY <1>3, <1>6 DEF FileTypes
<1> QED BY <1>2, <1>7, <1>8 DEF s, AppendsRecords

\* Records changed one by one.
LEMMA OneByOne ==
    ASSUME NEW f, FileOK(f), NEW s, DOMAIN s = DOMAIN f.recs, \A i \in DOMAIN f.recs : s[i] \in FileRecords,
           s = [i \in DOMAIN f.recs |-> s[i]]
    PROVE  s \in Seq(FileRecords)
<1>1. DOMAIN f.recs = 1..Len(f.recs) /\ Len(f.recs) \in Nat
    BY DEF FileOK, FileTypes
<1> QED BY <1>1

LEMMA ChangePlainForm ==
    ASSUME NEW f, FileOK(f), NEW n, NEW v \in Values, NEW g \in ChangePlain(f, n, v)
    PROVE  /\ FileOK(g) /\ Found(f, n) /\ g = [f EXCEPT !.recs = g.recs]
           /\ g.lines = f.lines /\ g.hist = f.hist /\ g.stray = f.stray
           /\ DOMAIN g.recs = DOMAIN f.recs
           /\ \A i \in DOMAIN f.recs :
                 g.recs[i] = IF Meets(n, f.recs[i]) /\ f.recs[i].val = Value(f, n)
                             THEN Record(f.recs[i].name, <<v>>) ELSE f.recs[i]
<1> DEFINE s == [i \in DOMAIN f.recs |->
                    IF Meets(n, f.recs[i]) /\ f.recs[i].val = Value(f, n)
                    THEN Record(f.recs[i].name, <<v>>) ELSE f.recs[i]]
<1>1. g = [f EXCEPT !.recs = s] /\ Found(f, n)
    BY DEF ChangePlain, When
<1>2. f \in FileTypes /\ \A i \in DOMAIN f.recs : f.recs[i] \in FileRecords
    BY DEF FileOK, FileTypes
<1>3. ASSUME NEW i \in DOMAIN f.recs PROVE s[i] \in FileRecords
    <2>1. f.recs[i].name \in Seq(Parts)
        BY <1>2 DEF FileRecords
    <2>2. Record(f.recs[i].name, <<v>>) \in FileRecords
        BY <2>1, RecordIs, PayloadsAre
    <2> QED BY <1>2, <2>2
<1>4. DOMAIN s = DOMAIN f.recs /\ s = [i \in DOMAIN f.recs |-> s[i]]
      /\ \A i \in DOMAIN f.recs : s[i] = IF Meets(n, f.recs[i]) /\ f.recs[i].val = Value(f, n)
                                          THEN Record(f.recs[i].name, <<v>>) ELSE f.recs[i]
    OBVIOUS
<1> HIDE DEF s
<1>5. s \in Seq(FileRecords)
    BY <1>3, <1>4, OneByOne
<1>6. FileOK(g)
    BY <1>1, <1>5, NewRecords
<1>7. g.recs = s /\ g.lines = f.lines /\ g.hist = f.hist /\ g.stray = f.stray /\ g = [f EXCEPT !.recs = g.recs]
    BY <1>1, <1>2 DEF FileTypes
<1> QED BY <1>1, <1>4, <1>6, <1>7

LEMMA RenameVarForm ==
    ASSUME NEW f, FileOK(f), NEW n \in Seq(Parts), NEW m \in UserNames, NEW g \in RenameVar(f, n, m)
    PROVE  /\ FileOK(g) /\ Found(f, n) /\ ~IsRoot(f, n) /\ g.hist = f.hist /\ g.stray = f.stray
           /\ DOMAIN g.recs = DOMAIN f.recs /\ DOMAIN g.lines = DOMAIN f.lines
           /\ \A i \in DOMAIN f.recs :
                 g.recs[i] = IF Meets(n, f.recs[i]) /\ f.recs[i].val = Value(f, n)
                             THEN Record(EndIn(n, m, f.recs[i].name), f.recs[i].val) ELSE f.recs[i]
           /\ \A i \in DOMAIN f.lines :
                 g.lines[i] = IF IsLock(f.lines[i]) /\ f.lines[i].name = n
                              THEN Lock(m, f.lines[i].ops) ELSE f.lines[i]
<1> DEFINE s == [i \in DOMAIN f.recs |->
                    IF Meets(n, f.recs[i]) /\ f.recs[i].val = Value(f, n)
                    THEN Record(EndIn(n, m, f.recs[i].name), f.recs[i].val) ELSE f.recs[i]]
           t == [i \in DOMAIN f.lines |->
                    IF IsLock(f.lines[i]) /\ f.lines[i].name = n THEN Lock(m, f.lines[i].ops) ELSE f.lines[i]]
<1>1. g = [f EXCEPT !.recs = s, !.lines = t] /\ Found(f, n) /\ ~IsRoot(f, n)
    BY DEF RenameVar, When
<1>2. f \in FileTypes /\ \A i \in DOMAIN f.recs : f.recs[i] \in FileRecords
    BY DEF FileOK, FileTypes
<1>3. ASSUME NEW i \in DOMAIN f.recs PROVE s[i] \in FileRecords
    <2>1. f.recs[i].name \in Seq(Parts) /\ f.recs[i].val \in Seq(Payload)
        BY <1>2 DEF FileRecords
    <2>2. CASE Meets(n, f.recs[i]) /\ f.recs[i].val = Value(f, n)
        <3>1. EndIn(n, m, f.recs[i].name) \in Seq(Parts)
            BY <2>1, <2>2, EndInIs, NamesAre DEF Meets
        <3> QED BY <2>1, <2>2, <3>1, RecordIs
    <2>3. CASE ~(Meets(n, f.recs[i]) /\ f.recs[i].val = Value(f, n))
        BY <1>2, <2>3
    <2> QED BY <2>2, <2>3
<1>4. DOMAIN s = DOMAIN f.recs /\ s = [i \in DOMAIN f.recs |-> s[i]]
      /\ \A i \in DOMAIN f.recs : s[i] = IF Meets(n, f.recs[i]) /\ f.recs[i].val = Value(f, n)
                                          THEN Record(EndIn(n, m, f.recs[i].name), f.recs[i].val) ELSE f.recs[i]
    OBVIOUS
<1>5. f.lines \in Seq(FileLines) /\ f.lines # <<>> /\ \A i \in DOMAIN f.lines : f.lines[i] \in FileLines
    BY DEF FileOK, FileTypes
<1>6. ASSUME NEW i \in DOMAIN f.lines PROVE t[i] \in FileLines
    <2>1. CASE IsLock(f.lines[i]) /\ f.lines[i].name = n
        <3>1. f.lines[i].ops \in Seq(LockOps \cup Seq(Parts))
            BY <1>5, <2>1 DEF IsLock, FileLines, LockLines
        <3> QED BY <2>1, <3>1, LockIn, NamesAre
    <2>2. CASE ~(IsLock(f.lines[i]) /\ f.lines[i].name = n)
        BY <1>5, <2>2
    <2> QED BY <2>1, <2>2
<1>7. DOMAIN t = DOMAIN f.lines /\ t = [i \in DOMAIN f.lines |-> t[i]]
      /\ \A i \in DOMAIN f.lines : t[i] = IF IsLock(f.lines[i]) /\ f.lines[i].name = n
                                           THEN Lock(m, f.lines[i].ops) ELSE f.lines[i]
    OBVIOUS
<1> HIDE DEF s, t
<1>8. s \in Seq(FileRecords)
    BY <1>3, <1>4, OneByOne
<1>9. t \in Seq(FileLines) /\ t # <<>>
    <2>1. DOMAIN f.lines = 1..Len(f.lines) /\ Len(f.lines) \in Nat /\ Len(f.lines) # 0
        BY <1>5
    <2>2. t = [i \in 1..Len(f.lines) |-> t[i]] /\ \A i \in 1..Len(f.lines) : t[i] \in FileLines
        BY <1>6, <1>7, <2>1
    <2> DEFINE k == Len(f.lines)
    <2>3. t \in [1..k -> FileLines] /\ k \in Nat /\ k # 0
        BY <2>1, <2>2
    <2> HIDE DEF k
    <2>4. t \in Seq(FileLines) /\ Len(t) = k
        BY <2>3
    <2> QED BY <2>3, <2>4
<1>10. FileOK(g)
    <2>1. FileOK([f EXCEPT !.recs = s])
        BY <1>8, NewRecords
    <2> DEFINE f1 == [f EXCEPT !.recs = s]
    <2>2. g = [f1 EXCEPT !.lines = t]
        BY <1>1, <1>2 DEF FileTypes
    <2> HIDE DEF f1
    <2>3. FileOK(f1)
        BY <2>1 DEF f1
    <2> QED BY <1>9, <2>2, <2>3, NewLines
<1>11. g.recs = s /\ g.lines = t /\ g.hist = f.hist /\ g.stray = f.stray
    BY <1>1, <1>2 DEF FileTypes
<1> QED BY <1>1, <1>4, <1>7, <1>10, <1>11

LEMMA RemoveVarForm ==
    ASSUME NEW f, FileOK(f), NEW n \in Seq(Parts), NEW g \in RemoveVar(f, n)
    PROVE  \/ g = f
           \/ LET h == WithoutRecord(f, n, Value(f, n)) IN
              /\ Found(f, n) /\ FileOK(h) /\ h.recs = Without(f.recs, {Record(n, Value(f, n))})
              /\ h.lines = f.lines /\ h.hist = f.hist /\ h.stray = f.stray
              /\ g = WithoutLocks(h, <<n>>) /\ FileOK(g)
              /\ g.recs = h.recs /\ g.hist = f.hist /\ g.stray = f.stray
<1>1. g = IF Found(f, n) THEN WithoutLocks(WithoutRecord(f, n, Value(f, n)), <<n>>) ELSE f
    BY DEF RemoveVar, When
<1>2. CASE ~Found(f, n)
    BY <1>1, <1>2
<1>3. CASE Found(f, n)
    <2> DEFINE r == Without(f.recs, {Record(n, Value(f, n))})
               h == WithoutRecord(f, n, Value(f, n))
    <2>1. r \in Seq(FileRecords)
        BY WithoutForm
    <2>2. h = [f EXCEPT !.recs = r] /\ f \in FileTypes
        BY DEF WithoutRecord, FileOK
    <2> HIDE DEF r, h
    <2>3. FileOK(h)
        BY <2>1, <2>2, NewRecords
    <2>4. h.recs = r /\ h.lines = f.lines /\ h.hist = f.hist /\ h.stray = f.stray
        BY <2>2 DEF FileTypes
    <2> DEFINE ns == <<n>>
    <2>5. DOMAIN ns = 1..Len(ns) /\ Len(ns) \in Nat
        OBVIOUS
    <2> HIDE DEF ns
    <2>6. /\ FileOK(WithoutLocks(h, ns)) /\ WithoutLocks(h, ns).recs = h.recs
          /\ WithoutLocks(h, ns).hist = h.hist /\ WithoutLocks(h, ns).stray = h.stray
        BY <2>3, <2>5, WithoutLocksForm
    <2>7. g = WithoutLocks(h, ns)
        BY <1>1, <1>3 DEF h, ns
    <2> QED BY <1>3, <2>3, <2>4, <2>6, <2>7 DEF r, h, ns
<1> QED BY <1>2, <1>3

\* Items taken out of a history, with their records and locks.
Unstalked(f, n, gone) == WithoutLocks(Unstalk(f, n, Range(gone)), gone)

LEMMA UnstalkedForm ==
    ASSUME NEW f, FileOK(f), NEW n \in DOMAIN f.hist, NEW gone \in Seq(Seq(Parts))
    PROVE  TakesOut(f, n, Range(gone), Unstalked(f, n, gone))
<1> DEFINE h == Unstalk(f, n, Range(gone))
<1>1. TakesOut(f, n, Range(gone), h)
    BY UnstalkIs, Zenon
<1>2. Unstalked(f, n, gone) = WithoutLocks(h, gone)
    BY DEF Unstalked
<1>3. DOMAIN gone = 1..Len(gone) /\ Len(gone) \in Nat
    OBVIOUS
<1> HIDE DEF h
<1>4. FileOK(h)
    BY <1>1 DEF TakesOut
<1>5. /\ FileOK(WithoutLocks(h, gone)) /\ WithoutLocks(h, gone).recs = h.recs
      /\ WithoutLocks(h, gone).hist = h.hist /\ WithoutLocks(h, gone).stray = h.stray
    BY <1>3, <1>4, WithoutLocksForm
<1> QED BY <1>1, <1>2, <1>5 DEF TakesOut

\* changevar and renumbering of a root both do that, with items that have records.
LEMMA ChangeRootForm ==
    ASSUME NEW f, FileOK(f), NEW n \in DOMAIN f.hist, NEW v \in Values, NEW g \in ChangeRoot(f, n, v)
    PROVE  \E gone \in Seq(Seq(Parts)) :
              /\ g = Unstalked(f, n, gone) /\ Range(gone) \subseteq Range(Items(f, n))
              /\ \A i \in Range(gone) : Found(f, i)
<1> DEFINE S == {i \in Range(Items(f, n)) : Found(f, i) /\ Value(f, i) = <<v>>}
           gone == EqualItems(f, n, v)
<1>1. gone = Only(Items(f, n), S)
    BY DEF EqualItems
<1>2. Items(f, n) \in Seq(Seq(Parts))
    BY HistoryIs
<1>3. gone \in Seq(Seq(Parts)) /\ Range(gone) = Range(Items(f, n)) \cap S
    BY <1>1, <1>2, OnlySeq, OnlyRange
<1>4. g = Unstalked(f, n, gone)
    BY DEF ChangeRoot, When, Unstalked
<1> HIDE DEF gone
<1> QED BY <1>3, <1>4

LEMMA RenumberForm ==
    ASSUME NEW f, FileOK(f), NEW n, NEW k, NEW g \in Renumber(f, n, k)
    PROVE  \E gone \in Seq(Seq(Parts)) :
              /\ n \in DOMAIN f.hist
              /\ g = Unstalked(f, n, gone) /\ Range(gone) \subseteq Range(Items(f, n))
              /\ \A i \in Range(gone) : Found(f, i)
<1>1. RenumberChecks(f, n, k)
    BY DEF Renumber
<1> DEFINE smaller(i) == {j \in Range(Items(f, n)) : Number(j) < Number(i)}
           least == {i \in Range(Items(f, n)) :
                       Cardinality(smaller(i)) < Min({1 - k, Len(Items(f, n)) - 1})}
           S == {i \in least : Found(f, i)}
           gone == Only(Items(f, n), S)
<1>2. g = Unstalked(f, n, gone)
    BY <1>1 DEF Renumber, Unstalked
<1> HIDE DEF least
<1>3. Items(f, n) \in Seq(Seq(Parts))
    BY HistoryIs
<1> HIDE DEF S
<1>4. gone \in Seq(Seq(Parts)) /\ Range(gone) = Range(Items(f, n)) \cap S
    BY <1>3, OnlySeq, OnlyRange
<1> HIDE DEF gone
<1>5. n \in DOMAIN f.hist
    BY <1>1 DEF RenumberChecks, IsRoot
<1> QED BY <1>2, <1>4, <1>5 DEF S

\* joinvars adds a record, or gives the record of a joined history another payload.
LEMMA JoinVarsForm ==
    ASSUME NEW f, FileOK(f), NEW n \in UserNames, NEW ns \in Seq(UserNames), NEW g \in JoinVars(f, n, ns)
    PROVE  \/ g = f
           \/ \E p \in Seq(Payload) : p # Core /\ ~IsRoot(f, n) /\ g = Add(f, n, p) /\ FileOK(g)
           \/ \E p \in Seq(Payload) : p # Core /\ IsRoot(f, n) /\ g = Add(f, JoinName(n), p) /\ FileOK(g)
              /\ \A i \in DOMAIN f.recs : f.recs[i].name # JoinName(n)
           \/ \E p \in Seq(Payload), i \in DOMAIN f.recs :
                 /\ p # Core /\ IsRoot(f, n) /\ f.recs[i].name = JoinName(n) /\ FileOK(g)
                 /\ g = [f EXCEPT !.recs[i] = Record(JoinName(n), p)]
<1> DEFINE from == IF IsRoot(f, n) THEN Items(f, n) ELSE ns
           p == Payloads(f, from)
<1>1. n \in Seq(Parts) /\ JoinName(n) \in Seq(Parts)
    BY NamesAre, JoinNameIs
<1>2. from \in Seq(Seq(Parts))
    BY HistoryIs, NamesAre
<1> HIDE DEF from
<1>3. p \in Seq(Payload)
    BY <1>2, PayloadsSeq
<1>4. g \in IF p = <<>> THEN {f} ELSE IF IsRoot(f, n) THEN JoinRoot(f, n) ELSE {Add(f, n, p)}
    BY DEF JoinVars, from
<1>5. CASE p = <<>>
    BY <1>4, <1>5
<1>6. CASE p # <<>> /\ ~IsRoot(f, n)
    <2> HIDE DEF p
    <2>1. g = Add(f, n, p) /\ p # Core
        BY <1>4, <1>6 DEF Core
    <2> QED BY <1>1, <1>3, <1>6, <2>1, AddForm
<1>7. CASE p # <<>> /\ IsRoot(f, n)
    <2> DEFINE I == {j \in 1..Len(f.recs) : f.recs[j].name = JoinName(n)}
               i == SelectInSeq(f.recs, LAMBDA r : r.name = JoinName(n))
    <2>1. p = Payloads(f, Items(f, n)) /\ g \in JoinRoot(f, n)
        BY <1>4, <1>7 DEF from
    <2>2. i = IF I # {} THEN Min(I) ELSE 0
        BY DEF SelectInSeq
    <2>3. g = IF i = 0 THEN Add(f, JoinName(n), p) ELSE [f EXCEPT !.recs[i] = Record(JoinName(n), p)]
        BY <2>1 DEF JoinRoot
    <2>4. f.recs \in Seq(FileRecords) /\ DOMAIN f.recs = 1..Len(f.recs) /\ f \in FileTypes
        BY DEF FileOK, FileTypes
    <2> HIDE DEF p, i
    <2>5. CASE I = {}
        <3>1. \A j \in DOMAIN f.recs : f.recs[j].name # JoinName(n)
            BY <2>4, <2>5
        <3>2. g = Add(f, JoinName(n), p) /\ p # Core
            BY <1>7, <2>2, <2>3, <2>5 DEF Core
        <3> QED BY <1>1, <1>3, <1>7, <3>1, <3>2, AddForm
    <2>6. CASE I # {}
        <3>1. I \subseteq Nat /\ 0 \notin I
            OBVIOUS
        <3> HIDE DEF I
        <3>2. Min(I) \in I
            BY <2>6, <3>1, MinIs, Zenon
        <3>3. i \in I /\ i # 0
            BY <2>2, <2>6, <3>1, <3>2
        <3>4. i \in DOMAIN f.recs /\ f.recs[i].name = JoinName(n)
            BY <2>4, <3>3 DEF I
        <3>5. g = [f EXCEPT !.recs[i] = Record(JoinName(n), p)] /\ p # Core
            BY <1>7, <2>3, <3>3 DEF Core
        <3> DEFINE s == [f.recs EXCEPT ![i] = Record(JoinName(n), p)]
        <3>6. s \in Seq(FileRecords)
            <4> DEFINE r == Record(JoinName(n), p)
            <4>1. r \in FileRecords
                BY <1>1, <1>3, RecordIs
            <4> HIDE DEF r
            <4>2. [f.recs EXCEPT ![i] = r] \in Seq(FileRecords)
                BY <2>4, <3>4, <4>1
            <4> QED BY <4>2 DEF r
        <3>7. g = [f EXCEPT !.recs = s]
            BY <3>5
        <3> HIDE DEF s
        <3>8. FileOK(g)
            BY <3>6, <3>7, NewRecords
        <3> QED BY <1>3, <1>7, <3>4, <3>5, <3>8
    <2> QED BY <2>5, <2>6
<1> QED BY <1>5, <1>6, <1>7

\* The locks: lockvar and lockdel write lines only.
WritesLines(f, g) == FileOK(g) /\ g.recs = f.recs /\ g.hist = f.hist

\* The lock record that lockvar writes anew.
OwnLocks(f, n)       == IF HasLock(f.lines, n) THEN {LockOf(f.lines, n)} ELSE {}
WrittenAgain(f, n, o) ==
    <<Head(f.lines)>> \o Append(Without(Tail(f.lines), OwnLocks(f, n)), Lock(n, o))

LEMMA LockVarForm ==
    ASSUME NEW f, FileOK(f), NEW n \in UserNames, NEW ops \in SetToAllKPermutations(LockOps) \ {<<>>},
           NEW g \in LockVar(f, n, ops)
    PROVE  /\ WritesLines(f, g)
           /\ \/ NullLine \in Range(f.lines) /\ g.lines = <<Lock(n, ops)>> /\ g.stray = FALSE
              \/ \E o \in Seq(LockOps \cup Seq(Parts)) :
                    o # <<>> /\ g.stray = f.stray /\ g.lines = WrittenAgain(f, n, o)
<1>1. f \in FileTypes /\ f.lines \in Seq(FileLines) /\ f.lines # <<>>
    BY DEF FileOK, FileTypes
<1>2. n \in Seq(Parts)
    BY NamesAre
<1>3. ops \in Seq(LockOps) /\ ops # <<>>
    <2>1. IsFiniteSet(LockOps)
        BY LegacyConstantsOK DEF LegacyConstantsOK
    <2> QED BY <2>1, SomeOf
<1>4. CASE NullLine \in Range(f.lines)
    <2>1. g = [f EXCEPT !.lines = <<Lock(n, ops)>>, !.stray = FALSE]
        BY <1>4 DEF LockVar, LockFirst
    <2>2. ops \in Seq(LockOps \cup Seq(Parts))
        BY <1>3
    <2> DEFINE s == <<Lock(n, ops)>>
    <2>3. s \in Seq(FileLines) /\ s # <<>>
        <3>1. Lock(n, ops) \in FileLines
            BY <1>2, <2>2, LockIn
        <3> QED BY <3>1
    <2> HIDE DEF s
    <2>4. FileOK([f EXCEPT !.lines = s, !.stray = FALSE])
        BY <2>3, NewLines
    <2>5. [f EXCEPT !.lines = s, !.stray = FALSE].lines = s
          /\ [f EXCEPT !.lines = s, !.stray = FALSE].recs = f.recs
          /\ [f EXCEPT !.lines = s, !.stray = FALSE].hist = f.hist
          /\ [f EXCEPT !.lines = s, !.stray = FALSE].stray = FALSE
        BY <1>1 DEF FileTypes
    <2> QED BY <1>4, <2>1, <2>4, <2>5 DEF s, WritesLines
<1>5. CASE NullLine \notin Range(f.lines)
    <2> DEFINE mine == IF HasLock(f.lines, n) THEN {LockOf(f.lines, n)} ELSE {}
               all  == Range(ops) \cup UNION {Range(l.ops) : l \in mine}
               old  == Without(Tail(f.lines), mine)
    <2>1. PICK o \in SetToSeqs(all) :
             g = [f EXCEPT !.lines = <<Head(@)>> \o Append(old, Lock(n, o))]
        BY <1>5 DEF LockVar, LockAgain
    <2>2. /\ all \subseteq LockOps \cup Seq(Parts) /\ IsFiniteSet(all) /\ all # {}
        <3>1. Range(ops) \subseteq LockOps /\ Range(ops) # {} /\ IsFiniteSet(Range(ops))
            <4>1. IsFiniteSet(Range(ops))
                BY <1>3, RangeFinite, Zenon
            <4>2. ops[1] \in Range(ops) /\ Range(ops) \subseteq LockOps
                BY <1>3 DEF Range
            <4> QED BY <4>1, <4>2
        <3>2. CASE ~HasLock(f.lines, n)
            <4>1. mine = {}
                BY <3>2
            <4>2. all = Range(ops)
                BY <4>1
            <4> QED BY <3>1, <4>2
        <3>3. CASE HasLock(f.lines, n)
            <4>1. LockOf(f.lines, n) \in LockLines
                BY <1>1, <3>3, LockIs
            <4>2. LockOf(f.lines, n).ops \in Seq(LockOps \cup Seq(Parts))
                BY <4>1 DEF LockLines
            <4>3. IsFiniteSet(Range(LockOf(f.lines, n).ops))
                BY <4>2, RangeFinite, Zenon
            <4>4. Range(LockOf(f.lines, n).ops) \subseteq LockOps \cup Seq(Parts)
                BY <4>2 DEF Range
            <4>5. all = Range(ops) \cup Range(LockOf(f.lines, n).ops)
                BY <3>3
            <4>6. IsFiniteSet(Range(ops) \cup Range(LockOf(f.lines, n).ops))
                BY <3>1, <4>3, FS_Union, Zenon
            <4> QED BY <3>1, <4>4, <4>5, <4>6
        <3> QED BY <3>2, <3>3
    <2> HIDE DEF all
    <2>3. o \in Seq(LockOps \cup Seq(Parts)) /\ o # <<>>
        <3>1. Cardinality(all) \in Nat /\ Cardinality(all) # 0
            BY <2>2, FS_CardinalityType, FS_EmptySet
        <3>2. o \in [1..Cardinality(all) -> all]
            BY <2>1 DEF SetToSeqs
        <3>3. o \in [1..Cardinality(all) -> LockOps \cup Seq(Parts)]
            BY <2>2, <3>2
        <3> DEFINE k == Cardinality(all)
        <3> HIDE DEF k
        <3>4. o \in Seq(LockOps \cup Seq(Parts)) /\ Len(o) = k
            BY <3>1, <3>3 DEF k
        <3> QED BY <3>1, <3>4 DEF k
    <2>4. Head(f.lines) \in FileLines /\ Tail(f.lines) \in Seq(FileLines)
        BY <1>1, HeadTailProperties
    <2> HIDE DEF mine
    <2>5. old \in Seq(FileLines)
        BY <2>4, OnlySeq DEF Without
    <2>6. Lock(n, o) \in FileLines
        BY <1>2, <2>3, LockIn
    <2> HIDE DEF old
    <2> DEFINE s == <<Head(f.lines)>> \o Append(old, Lock(n, o))
    <2>7. s \in Seq(FileLines) /\ s # <<>>
        <3> DEFINE h == Head(f.lines)
                   l == Lock(n, o)
        <3>1. h \in FileLines /\ l \in FileLines
            BY <2>4, <2>6
        <3> HIDE DEF h, l
        <3>2. <<h>> \o Append(old, l) \in Seq(FileLines) /\ Len(<<h>> \o Append(old, l)) = Len(old) + 2
            BY <2>5, <3>1
        <3>3. Len(old) + 2 # 0
            BY <2>5
        <3>4. <<h>> \o Append(old, l) # <<>>
            BY <3>2, <3>3
        <3> QED BY <3>2, <3>4 DEF h, l
    <2>8. g = [f EXCEPT !.lines = s]
        BY <2>1
    <2> HIDE DEF s
    <2>9. FileOK(g)
        BY <2>7, <2>8, NewLines
    <2>10. g.lines = s /\ g.recs = f.recs /\ g.hist = f.hist /\ g.stray = f.stray
        BY <1>1, <2>8 DEF FileTypes
    <2> QED BY <2>3, <2>9, <2>10 DEF s, old, mine, WritesLines, WrittenAgain, OwnLocks
<1> QED BY <1>4, <1>5

LEMMA LockDelForm ==
    ASSUME NEW f, FileOK(f), NEW n \in UserNames, NEW all, NEW ops, NEW g \in LockDel(f, n, all, ops)
    PROVE  /\ WritesLines(f, g) /\ g.stray = f.stray /\ HasLock(f.lines, n)
           /\ \/ g = WithoutLocks(f, <<n>>)
              \/ \E o \in Seq(LockOps \cup Seq(Parts)) :
                    o # <<>> /\ g.lines = ReplaceAllLines(f.lines, LockOf(f.lines, n), Lock(n, o))
<1>1. f \in FileTypes /\ f.lines \in Seq(FileLines) /\ f.lines # <<>>
    BY DEF FileOK, FileTypes
<1>2. HasLock(f.lines, n)
    BY DEF LockDel
<1> DEFINE left == Without(LockOf(f.lines, n).ops, Range(ops))
<1>3. left \in Seq(LockOps \cup Seq(Parts))
    <2>1. LockOf(f.lines, n).ops \in Seq(LockOps \cup Seq(Parts))
        BY <1>1, <1>2, LockIs DEF LockLines
    <2> QED BY <2>1, OnlySeq DEF Without
<1>4. \/ g = WithoutLocks(f, <<n>>)
      \/ left # <<>> /\ g = [f EXCEPT !.lines = ReplaceAllLines(@, LockOf(f.lines, n), Lock(n, left))]
    BY <1>2 DEF LockDel
<1> HIDE DEF left
<1>5. CASE g = WithoutLocks(f, <<n>>)
    <2> DEFINE ns == <<n>>
    <2>1. DOMAIN ns = 1..Len(ns) /\ Len(ns) \in Nat
        OBVIOUS
    <2> HIDE DEF ns
    <2>2. /\ FileOK(WithoutLocks(f, ns)) /\ WithoutLocks(f, ns).recs = f.recs
          /\ WithoutLocks(f, ns).hist = f.hist /\ WithoutLocks(f, ns).stray = f.stray
        BY <2>1, WithoutLocksForm
    <2> QED BY <1>2, <1>5, <2>2 DEF ns, WritesLines
<1>6. CASE left # <<>> /\ g = [f EXCEPT !.lines = ReplaceAllLines(@, LockOf(f.lines, n), Lock(n, left))]
    <2> DEFINE s == ReplaceAllLines(f.lines, LockOf(f.lines, n), Lock(n, left))
    <2>1. Lock(n, left) \in FileLines
        BY <1>3, LockIn, NamesAre
    <2>2. s \in Seq(FileLines) /\ s # <<>>
        BY <1>1, <2>1, ReplaceKeeps, Zenon
    <2>3. g = [f EXCEPT !.lines = s]
        BY <1>6
    <2> HIDE DEF s
    <2>4. FileOK(g)
        BY <2>2, <2>3, NewLines
    <2>5. g.lines = s /\ g.recs = f.recs /\ g.hist = f.hist /\ g.stray = f.stray
        BY <1>1, <2>3 DEF FileTypes
    <2> QED BY <1>2, <1>3, <1>6, <2>4, <2>5 DEF s, WritesLines
<1> QED BY <1>4, <1>5, <1>6

\* The histories: a new item ends its history.
LEMMA WithHistoryForm ==
    ASSUME NEW f, FileOK(f), NEW n \in StalkNames, NEW item \in ItemsOf(n)
    PROVE  LET g == WithHistory(f, n, item) IN
           /\ FileOK(g) /\ g.recs = f.recs /\ g.lines = f.lines /\ g.stray = f.stray
           /\ DOMAIN g.hist = DOMAIN f.hist \cup {n}
           /\ \A m \in DOMAIN f.hist \cup {n} :
                 g.hist[m] = IF m = n THEN Append(Items(f, n), item) ELSE f.hist[m]
<1> DEFINE more == Append(Items(f, n), item)
           h == [m \in DOMAIN f.hist \cup {n} |-> IF m = n THEN more ELSE f.hist[m]]
           g == WithHistory(f, n, item)
<1>1. f \in FileTypes
    BY DEF FileOK
<1>2. PICK D \in SUBSET StalkNames : f.hist \in [D -> Seq(Seq(Parts))]
    BY <1>1 DEF FileTypes, Histories
<1>3. item \in Seq(Parts) /\ Items(f, n) \in Seq(Seq(Parts)) /\ Range(Items(f, n)) \subseteq ItemsOf(n)
    BY HistoryIs, ItemsAre
<1>4. more \in Seq(Seq(Parts)) /\ Range(more) = Range(Items(f, n)) \cup {item}
    BY <1>3, RangeAppend
<1>5. g = [f EXCEPT !.hist = h]
    BY DEF WithHistory
<1> HIDE DEF more
<1>6. DOMAIN h = D \cup {n} /\ \A m \in D \cup {n} : h[m] = IF m = n THEN more ELSE f.hist[m]
    BY <1>2
<1>7. h = [m \in D \cup {n} |-> h[m]]
    BY <1>2
<1> HIDE DEF h, g
<1>8. \A m \in D \cup {n} : h[m] \in Seq(Seq(Parts)) /\ Range(h[m]) \subseteq ItemsOf(m)
    BY <1>2, <1>3, <1>4, <1>6 DEF FileOK, OwnItems
<1>9. h \in Histories
    <2>1. h \in [D \cup {n} -> Seq(Seq(Parts))]
        BY <1>7, <1>8
    <2> QED BY <2>1 DEF Histories
<1>10. FileOK(g)
    BY <1>5, <1>6, <1>8, <1>9, NewHistory
<1>11. g.recs = f.recs /\ g.lines = f.lines /\ g.stray = f.stray /\ g.hist = h
    BY <1>1, <1>5 DEF FileTypes
<1> QED BY <1>2, <1>6, <1>10, <1>11 DEF g, more

\* The lock record of the item added last.
LEMMA WithRecentForm ==
    ASSUME NEW f, FileOK(f), NEW item \in Seq(Parts)
    PROVE  LET g == WithRecent(f, item) IN
           /\ FileOK(g) /\ g.recs = f.recs /\ g.hist = f.hist
           /\ \/ /\ HasLock(f.lines, Recent) /\ g.stray = f.stray
                 /\ g.lines = ReplaceAllLines(f.lines, LockOf(f.lines, Recent), Lock(Recent, <<item>>))
              \/ /\ ~HasLock(f.lines, Recent) /\ g.stray = FALSE
                 /\ g.lines = Append(f.lines, Lock(Recent, <<item>>))
<1> DEFINE new == Lock(Recent, <<item>>)
           g == WithRecent(f, item)
<1>1. f \in FileTypes /\ f.lines \in Seq(FileLines) /\ f.lines # <<>>
    BY DEF FileOK, FileTypes
<1>2. new \in FileLines
    <2>1. Recent \in Seq(Parts) /\ <<item>> \in Seq(LockOps \cup Seq(Parts))
        BY NamesAre, LockOps1 DEF Recent
    <2> QED BY <2>1, LockIn
<1>3. CASE HasLock(f.lines, Recent)
    <2> DEFINE s == ReplaceAllLines(f.lines, LockOf(f.lines, Recent), new)
    <2>1. g = [f EXCEPT !.lines = s]
        BY <1>3 DEF WithRecent
    <2> HIDE DEF new
    <2>2. s \in Seq(FileLines) /\ s # <<>>
        BY <1>1, <1>2, ReplaceKeeps, Zenon
    <2> HIDE DEF s, g
    <2>3. FileOK(g)
        BY <2>1, <2>2, NewLines
    <2>4. g.lines = s /\ g.recs = f.recs /\ g.hist = f.hist /\ g.stray = f.stray
        BY <1>1, <2>1 DEF FileTypes
    <2> QED BY <1>3, <2>3, <2>4 DEF s, g, new
<1>4. CASE ~HasLock(f.lines, Recent)
    <2> DEFINE s == Append(f.lines, new)
    <2>1. g = [f EXCEPT !.lines = s, !.stray = FALSE]
        BY <1>4 DEF WithRecent
    <2> HIDE DEF new
    <2>2. s \in Seq(FileLines) /\ s # <<>>
        <3>1. \A u \in Seq(FileLines), l \in FileLines : Append(u, l) \in Seq(FileLines) /\ Append(u, l) # <<>>
            OBVIOUS
        <3> QED BY <1>1, <1>2, <3>1
    <2> HIDE DEF s, g
    <2>3. FileOK(g)
        BY <2>1, <2>2, NewLines
    <2>4. g.lines = s /\ g.recs = f.recs /\ g.hist = f.hist /\ g.stray = FALSE
        BY <1>1, <2>1 DEF FileTypes
    <2> QED BY <1>4, <2>3, <2>4 DEF s, g, new
<1> QED BY <1>3, <1>4

\* A history without its end: items are lost, records stay.
LEMMA ForgetForm ==
    ASSUME NEW f, FileOK(f), NEW n
    PROVE  LET g == Forget(f, n) IN
           /\ FileOK(g) /\ g.recs = f.recs /\ g.lines = f.lines /\ g.stray = f.stray
           /\ DOMAIN g.hist = DOMAIN f.hist \ {n} /\ \A m \in DOMAIN f.hist \ {n} : g.hist[m] = f.hist[m]
<1> DEFINE h == [m \in DOMAIN f.hist \ {n} |-> f.hist[m]]
           g == Forget(f, n)
<1>1. f \in FileTypes
    BY DEF FileOK
<1>2. PICK D \in SUBSET StalkNames : f.hist \in [D -> Seq(Seq(Parts))]
    BY <1>1 DEF FileTypes, Histories
<1>3. g = [f EXCEPT !.hist = h]
    BY DEF Forget
<1>4. h \in [D \ {n} -> Seq(Seq(Parts))] /\ \A m \in DOMAIN h : Range(h[m]) \subseteq ItemsOf(m)
    BY <1>2 DEF FileOK, OwnItems
<1>4a. DOMAIN h = DOMAIN f.hist \ {n} /\ \A m \in DOMAIN f.hist \ {n} : h[m] = f.hist[m]
    OBVIOUS
<1> HIDE DEF h, g
<1>5. h \in Histories
    <2>1. D \ {n} \in SUBSET StalkNames
        OBVIOUS
    <2> QED BY <1>4, <2>1 DEF Histories
<1>6. FileOK(g)
    BY <1>3, <1>4, <1>5, NewHistory
<1>7. g.recs = f.recs /\ g.lines = f.lines /\ g.stray = f.stray /\ g.hist = h
    BY <1>1, <1>3 DEF FileTypes
<1>8. DOMAIN g.hist = DOMAIN f.hist \ {n} /\ \A m \in DOMAIN f.hist \ {n} : g.hist[m] = f.hist[m]
    BY <1>7, <1>4a, Zenon
<1> QED BY <1>6, <1>7, <1>8 DEF g

\* stalkvar adds an item to the history, its record and the lock record.
AddsItem(f, n, item, v, g) ==
    /\ FileOK(g) /\ g.recs = Append(f.recs, Record(item, <<v>>))
    /\ DOMAIN g.hist = DOMAIN f.hist \cup {n}
    /\ \A m \in DOMAIN f.hist \cup {n} :
          g.hist[m] = IF m = n THEN Append(Items(f, n), item) ELSE f.hist[m]
    /\ \/ /\ HasLock(f.lines, Recent) /\ g.stray = f.stray
          /\ g.lines = ReplaceAllLines(f.lines, LockOf(f.lines, Recent), Lock(Recent, <<item>>))
       \/ /\ ~HasLock(f.lines, Recent) /\ g.stray = FALSE
          /\ g.lines = Append(f.lines, Lock(Recent, <<item>>))

LEMMA StalkForm ==
    ASSUME NEW f, FileOK(f), NEW n \in StalkNames, NEW v \in Values, NEW g \in Stalk(f, n, v)
    PROVE  g = Forget(f, n) \/ AddsItem(f, n, StalkItem(f, n), v, g)
<1> DEFINE item == StalkItem(f, n)
           f1 == WithHistory(f, n, item)
           f2 == Add(f1, item, <<v>>)
<1>1. g = Forget(f, n) \/ g = WithRecent(f2, item)
    BY DEF Stalk, StalkNew, When
<1>2. item \in ItemsOf(n) /\ item \in Seq(Parts)
    BY StalkItemIs
<1> HIDE DEF item
<1>3. /\ FileOK(f1) /\ f1.recs = f.recs /\ f1.lines = f.lines /\ f1.stray = f.stray
      /\ DOMAIN f1.hist = DOMAIN f.hist \cup {n}
      /\ \A m \in DOMAIN f.hist \cup {n} :
            f1.hist[m] = IF m = n THEN Append(Items(f, n), item) ELSE f.hist[m]
    BY <1>2, WithHistoryForm
<1> HIDE DEF f1
<1>4. FileOK(f2)
    BY <1>2, <1>3, AddForm, PayloadsAre
<1>5. f2.recs = Append(f.recs, Record(item, <<v>>)) /\ f2.lines = f.lines /\ f2.stray = f.stray /\ f2.hist = f1.hist
    <2>1. f1 \in FileTypes
        BY <1>3 DEF FileOK
    <2> QED BY <1>3, <2>1 DEF Add, FileTypes
<1> HIDE DEF f2
<1>6. CASE g = WithRecent(f2, item)
    <2>1. /\ FileOK(g) /\ g.recs = f2.recs /\ g.hist = f2.hist
          /\ \/ /\ HasLock(f2.lines, Recent) /\ g.stray = f2.stray
                /\ g.lines = ReplaceAllLines(f2.lines, LockOf(f2.lines, Recent), Lock(Recent, <<item>>))
             \/ /\ ~HasLock(f2.lines, Recent) /\ g.stray = FALSE
                /\ g.lines = Append(f2.lines, Lock(Recent, <<item>>))
        BY <1>2, <1>4, <1>6, WithRecentForm
    <2> QED BY <1>3, <1>5, <2>1 DEF item, AddsItem
<1> QED BY <1>1, <1>6

LEMMA StalkCutForm ==
    ASSUME NEW f, FileOK(f), NEW n \in StalkNames, NEW v \in Values, NEW g \in StalkCut(f, n, v)
    PROVE  FileOK(g) /\ g.recs = f.recs /\ g.lines = f.lines
<1>1. g = WithHistory(f, n, StalkItem(f, n))
    BY DEF StalkCut, When
<1>2. StalkItem(f, n) \in ItemsOf(n)
    BY StalkItemIs
<1> DEFINE item == StalkItem(f, n)
<1> HIDE DEF item
<1>3. FileOK(WithHistory(f, n, item)) /\ WithHistory(f, n, item).recs = f.recs
      /\ WithHistory(f, n, item).lines = f.lines
    BY <1>2, WithHistoryForm DEF item
<1> QED BY <1>1, <1>3 DEF item

\* Whatever the call.
LEMMA FormStays ==
    ASSUME NEW f, FileOK(f), NEW c \in Calls(f), NEW g \in Results(f, c) PROVE FileOK(g)
<1>0. UserNames \cup AllItems(f) \subseteq Seq(Parts) /\ StalkNames \subseteq UserNames /\ UserNames \subseteq Seq(Parts)
    BY HistoryIs, NamesAre
<1>1. CASE c.op = "addvar" /\ c.name \in UserNames /\ c.val \in Values /\ g \in AddVar(f, c.name, c.val)
    <2>1. g = Add(f, c.name, <<c.val>>)
        BY <1>1 DEF AddVar, When
    <2> QED BY <1>0, <1>1, <2>1, AddForm, PayloadsAre
<1>2. CASE c.op = "corevar" /\ c.name \in UserNames /\ g \in CoreVar(f, c.name)
    <2>1. g = Add(f, c.name, Core)
        BY <1>2 DEF CoreVar, When
    <2> QED BY <1>0, <1>2, <2>1, AddForm, PayloadsAre
<1>3. CASE /\ c.op = "appvar" /\ c.name \in SetToAllKPermutations(UserNames)
           /\ c.val \in {<<>>} \cup {<<v>> : v \in Values} /\ g \in AppVar(f, c.name, c.val)
    BY <1>3, AppVarForm DEF AppendsRecords
<1>4. CASE /\ c.op = "appvar_locks" /\ c.name \in SetToAllKPermutations(UserNames)
           /\ c.on \in UserNames /\ c.lock \in LockOps
           /\ c.val \in {<<v>> : v \in Values} /\ g \in AppVarLocks(f, c.name, c.val, c.on, c.lock)
    BY <1>4, AppVarLocksForm DEF AppendsRecords
<1>5. CASE c.op = "changevar" /\ c.val \in Values /\ g \in ChangeVar(f, c.name, c.val)
    <2>1. CASE IsRoot(f, c.name)
        <3>1. c.name \in DOMAIN f.hist /\ g \in ChangeRoot(f, c.name, c.val)
            BY <1>5, <2>1 DEF ChangeVar, IsRoot
        <3>2. PICK gone \in Seq(Seq(Parts)) : g = Unstalked(f, c.name, gone)
            BY <1>5, <3>1, ChangeRootForm
        <3> QED BY <3>1, <3>2, UnstalkedForm DEF TakesOut
    <2>2. CASE ~IsRoot(f, c.name)
        BY <1>5, <2>2, ChangePlainForm DEF ChangeVar
    <2> QED BY <2>1, <2>2
<1>6. CASE c.op = "removevar" /\ c.name \in UserNames \cup AllItems(f) /\ g \in RemoveVar(f, c.name)
    BY <1>0, <1>6, RemoveVarForm
<1>7. CASE /\ c.op = "renamevar_stx" /\ c.name \in UserNames \cup AllItems(f) /\ c.to \in UserNames
           /\ g \in RenameVar(f, c.name, c.to)
    BY <1>0, <1>7, RenameVarForm
<1>8. CASE c.op = "renumber" /\ g \in Renumber(f, c.name, c.to)
    <2>1. PICK gone \in Seq(Seq(Parts)) : c.name \in DOMAIN f.hist /\ g = Unstalked(f, c.name, gone)
        BY <1>8, RenumberForm
    <2> QED BY <2>1, UnstalkedForm DEF TakesOut
<1>9. CASE /\ c.op = "joinvars" /\ c.name \in UserNames /\ c.from \in SetToAllKPermutations(UserNames)
           /\ g \in JoinVars(f, c.name, c.from)
    <2>1. c.from \in Seq(UserNames)
        BY <1>9, SomeOf, LegacyConstantsOK DEF LegacyConstantsOK
    <2> QED BY <1>9, <2>1, JoinVarsForm
<1>10. CASE /\ c.op = "lockvar" /\ c.name \in UserNames
            /\ c.locks \in SetToAllKPermutations(LockOps) \ {<<>>} /\ g \in LockVar(f, c.name, c.locks)
    BY <1>10, LockVarForm DEF WritesLines
<1>11. CASE c.op = "lockdel" /\ c.name \in UserNames /\ g \in LockDel(f, c.name, c.all, c.locks)
    BY <1>11, LockDelForm DEF WritesLines
<1>12. CASE c.op = "stalkvar" /\ c.name \in StalkNames /\ c.val \in Values /\ g \in Stalk(f, c.name, c.val)
    <2>1. g = Forget(f, c.name) \/ FileOK(g)
        BY <1>12, StalkForm DEF AddsItem
    <2>2. FileOK(Forget(f, c.name))
        BY ForgetForm
    <2> QED BY <2>1, <2>2
<1> QED BY CallCases, <1>1, <1>2, <1>3, <1>4, <1>5, <1>6, <1>7, <1>8, <1>9, <1>10, <1>11, <1>12

-----------------------------------------------------------------------------
(***************************************************************************)
(* Histories keep their records.                                           *)
(***************************************************************************)
\* No caller's name is the ending of an item, unless it is the item: a variable 1 would be
\* met in every b_1.
NamesEndNoItem ==
    \A n \in UserNames : \A m \in StalkNames : \A i \in ItemsOf(m) : IsSuffix(n, i) => n = i

\* Whoever had a record has one.
ExistStay(f, g) == \A i : Exists(f, i) => Exists(g, i)

LEMMA MoreExist == ASSUME NEW f, NEW g, Range(f.recs) \subseteq Range(g.recs) PROVE ExistStay(f, g)
BY DEF ExistStay, Exists

LEMMA ChangedExist ==
    ASSUME NEW f, NEW g, DOMAIN f.recs = DOMAIN g.recs,
           \A j \in DOMAIN f.recs : f.recs[j].val # Core =>
              g.recs[j].name = f.recs[j].name /\ g.recs[j].val # Core
    PROVE  ExistStay(f, g)
<1> SUFFICES ASSUME NEW i, Exists(f, i) PROVE Exists(g, i)
    BY DEF ExistStay
<1>1. PICK j \in DOMAIN f.recs : f.recs[j].name = i /\ f.recs[j].val # Core
    BY DEF Exists, Range
<1>2. j \in DOMAIN g.recs /\ g.recs[j].name = i /\ g.recs[j].val # Core
    BY <1>1
<1> QED BY <1>2 DEF Exists, Range

\* So a call that adds no items leaves none without a record.
LEMMA NoneDangles ==
    ASSUME NEW f, NEW g, ExistStay(f, g), g.hist = f.hist PROVE Dangling(g) \subseteq Dangling(f)
BY DEF ExistStay, Dangling, AllItems

LEMMA AddKeeps ==
    ASSUME NEW f, FileOK(f), NEW n \in Seq(Parts), NEW p \in Seq(Payload)
    PROVE  /\ Add(f, n, p).recs = Append(f.recs, Record(n, p)) /\ Add(f, n, p).hist = f.hist
           /\ Add(f, n, p).lines = f.lines /\ Add(f, n, p).stray = f.stray
           /\ Range(Add(f, n, p).recs) = Range(f.recs) \cup {Record(n, p)}
<1>1. f \in FileTypes /\ f.recs \in Seq(FileRecords)
    BY DEF FileOK, FileTypes
<1>2. Record(n, p) \in FileRecords
    BY RecordIs
<1>3. /\ Add(f, n, p).recs = Append(f.recs, Record(n, p)) /\ Add(f, n, p).hist = f.hist
      /\ Add(f, n, p).lines = f.lines /\ Add(f, n, p).stray = f.stray
    BY <1>1 DEF Add, FileTypes
<1>4. Range(Append(f.recs, Record(n, p))) = Range(f.recs) \cup {Record(n, p)}
    BY <1>1, <1>2, RangeAppend
<1> QED BY <1>3, <1>4

LEMMA ConcatRange ==
    ASSUME NEW E, NEW s \in Seq(E), NEW t \in Seq(E) PROVE Range(s \o t) = Range(s) \cup Range(t)
<1> DEFINE u == s \o t
           a == Len(s)
           b == Len(t)
<1>1. /\ a \in Nat /\ b \in Nat /\ DOMAIN s = 1..a /\ DOMAIN t = 1..b /\ DOMAIN u = 1..(a + b)
      /\ \A i \in 1..a : u[i] = s[i]
      /\ \A i \in 1..(a + b) : i > a => u[i] = t[i - a]
    OBVIOUS
<1>2. \A i \in 1..b : u[a + i] = t[i]
    <2> TAKE i \in 1..b
    <2>1. a + i \in 1..(a + b) /\ a + i > a /\ a + i - a = i
        BY <1>1
    <2> HIDE DEF u
    <2>2. u[a + i] = t[a + i - a]
        BY <1>1, <2>1
    <2> QED BY <2>1, <2>2
<1> HIDE DEF u
<1>3. Range(u) \subseteq Range(s) \cup Range(t)
    <2> SUFFICES ASSUME NEW i \in 1..(a + b) PROVE u[i] \in Range(s) \cup Range(t)
        BY <1>1 DEF Range
    <2>1. CASE i <= a
        BY <1>1, <2>1 DEF Range
    <2>2. CASE i > a
        <3>1. i - a \in 1..b
            BY <1>1, <2>2
        <3> QED BY <1>1, <2>2, <3>1 DEF Range
    <2> QED BY <1>1, <2>1, <2>2
<1>4. Range(s) \subseteq Range(u)
    <2>1. \A i \in 1..a : i \in 1..(a + b)
        BY <1>1
    <2> QED BY <1>1, <2>1 DEF Range
<1>5. Range(t) \subseteq Range(u)
    <2>1. \A i \in 1..b : a + i \in 1..(a + b)
        BY <1>1
    <2> QED BY <1>1, <1>2, <2>1 DEF Range
<1> QED BY <1>3, <1>4, <1>5 DEF u

\* Items that are taken out take their records with them, and no others.
LEMMA UnstalkedKeeps ==
    ASSUME NEW f, FileOK(f), NEW n \in DOMAIN f.hist, NEW items, items \subseteq Range(f.hist[n]),
           NEW g, TakesOut(f, n, items, g)
    PROVE  Dangling(g) \subseteq Dangling(f)
<1> DEFINE gone == {Record(i, Value(f, i)) : i \in items}
<1>1. f.recs \in Seq(FileRecords) /\ f.hist[n] \in Seq(Seq(Parts)) /\ n \in StalkNames
    BY HistoryIs DEF FileOK, FileTypes
<1>2. Range(g.recs) = Range(f.recs) \ gone
    <2>1. g.recs = Only(f.recs, Range(f.recs) \ gone)
        BY DEF TakesOut, Without
    <2>2. Range(Only(f.recs, Range(f.recs) \ gone)) = Range(f.recs) \cap (Range(f.recs) \ gone)
        BY <1>1, OnlyRange, Zenon
    <2> HIDE DEF gone
    <2> QED BY <2>1, <2>2
<1>3. Range(Without(f.hist[n], items)) = Range(f.hist[n]) \ items
    <2>1. Range(Only(f.hist[n], Range(f.hist[n]) \ items)) = Range(f.hist[n]) \cap (Range(f.hist[n]) \ items)
        BY <1>1, OnlyRange, Zenon
    <2> QED BY <2>1 DEF Without
<1>4. ASSUME NEW i \in AllItems(g) PROVE i \in AllItems(f) \ items
    <2>1. PICK m \in DOMAIN g.hist : i \in Range(g.hist[m])
        BY DEF AllItems
    <2>2. m \in DOMAIN f.hist /\ g.hist[m] = IF m = n THEN Without(f.hist[n], items) ELSE f.hist[m]
        BY DEF TakesOut
    <2>3. CASE m = n
        BY <1>3, <2>1, <2>2, <2>3 DEF AllItems
    <2>4. CASE m # n
        <3>1. i \in Range(f.hist[m])
            BY <2>1, <2>2, <2>4
        <3>2. m \in StalkNames /\ i \in ItemsOf(m)
            BY <2>2, <3>1, HistoryIs DEF FileOK, OwnItems
        <3>3. i \notin items
            <4>1. SUFFICES ASSUME i \in ItemsOf(n) PROVE FALSE
                BY DEF FileOK, OwnItems
            <4>2. i \in Seq(Parts)
                BY <1>1, <4>1, ItemsAre
            <4>3. IsSuffix(i, i)
                BY <4>2, EndsItself
            <4> QED BY <1>1, <2>4, <3>2, <4>1, <4>3, ItemsAre
        <3> QED BY <2>2, <3>1, <3>3 DEF AllItems
    <2> QED BY <2>3, <2>4
<1>5. ASSUME NEW i, i \notin items, Exists(f, i) PROVE Exists(g, i)
    <2>1. PICK r \in Range(f.recs) : r.name = i /\ r.val # Core
        BY <1>5 DEF Exists
    <2>2. r \notin gone
        BY <1>5, <2>1 DEF Record
    <2> QED BY <1>2, <2>1, <2>2 DEF Exists
<1> QED BY <1>4, <1>5 DEF Dangling

\* A new item comes with its record.
LEMMA StalkKeeps ==
    ASSUME NEW f, FileOK(f), NEW n \in StalkNames, NEW v \in Values, NEW g \in Stalk(f, n, v)
    PROVE  Dangling(g) \subseteq Dangling(f)
<1>1. CASE g = Forget(f, n)
    <2>1. /\ g.recs = f.recs /\ DOMAIN g.hist = DOMAIN f.hist \ {n}
          /\ \A m \in DOMAIN f.hist \ {n} : g.hist[m] = f.hist[m]
        BY <1>1, ForgetForm
    <2>2. AllItems(g) \subseteq AllItems(f)
        BY <2>1 DEF AllItems
    <2> QED BY <2>1, <2>2 DEF Dangling, Exists
<1>2. CASE g # Forget(f, n)
    <2> DEFINE item == StalkItem(f, n)
               new == Record(item, <<v>>)
    <2>1. /\ g.recs = Append(f.recs, new) /\ DOMAIN g.hist = DOMAIN f.hist \cup {n}
          /\ \A m \in DOMAIN f.hist \cup {n} :
                g.hist[m] = IF m = n THEN Append(Items(f, n), item) ELSE f.hist[m]
        <3>1. AddsItem(f, n, item, v, g)
            BY <1>2, StalkForm
        <3> HIDE DEF item
        <3> QED BY <3>1 DEF AddsItem
    <2>9. item \in Seq(Parts) /\ <<v>> \in Seq(Payload) /\ <<v>> # Core
        BY StalkItemIs, PayloadsAre
    <2>2. new \in FileRecords /\ new.name = item /\ new.val # Core
        <3> HIDE DEF item
        <3> QED BY <2>9, RecordIs
    <2>3. f.recs \in Seq(FileRecords) /\ Items(f, n) \in Seq(Seq(Parts))
        BY HistoryIs DEF FileOK, FileTypes
    <2> HIDE DEF item, new
    <2>4. Range(g.recs) = Range(f.recs) \cup {new}
        BY <2>1, <2>2, <2>3, RangeAppend
    <2>5. Range(Append(Items(f, n), item)) = Range(Items(f, n)) \cup {item}
        BY <2>3, <2>9, RangeAppend
    <2>6. AllItems(g) \subseteq AllItems(f) \cup {item}
        <3> SUFFICES ASSUME NEW m \in DOMAIN g.hist, NEW i \in Range(g.hist[m])
                     PROVE  i \in AllItems(f) \cup {item}
            BY DEF AllItems
        <3>1. CASE m = n
            <4>1. i \in Range(Items(f, n)) \cup {item}
                BY <2>1, <2>5, <3>1
            <4>2. Range(Items(f, n)) \subseteq AllItems(f)
                BY DEF Items, IsRoot, AllItems, Range
            <4> QED BY <4>1, <4>2
        <3>2. CASE m # n
            BY <2>1, <3>2 DEF AllItems
        <3> QED BY <3>1, <3>2
    <2>7. Exists(g, item)
        BY <2>2, <2>4 DEF Exists
    <2>8. ExistStay(f, g)
        BY <2>4, MoreExist
    <2> QED BY <2>6, <2>7, <2>8 DEF Dangling, ExistStay
<1> QED BY <1>1, <1>2

\* Removing or renaming a name leaves the records of others, in the histories at least.
LEMMA RemoveKeeps ==
    ASSUME NEW f, FileOK(f), NEW n \in Seq(Parts), NEW g \in RemoveVar(f, n)
    PROVE  Dangling(g) \subseteq Dangling(f) \cup {n}
<1>1. CASE g = f
    BY <1>1
<1>2. CASE g # f
    <2> DEFINE gone == {Record(n, Value(f, n))}
    <2>1. g.recs = Without(f.recs, gone) /\ g.hist = f.hist
        BY <1>2, RemoveVarForm
    <2>2. f.recs \in Seq(FileRecords)
        BY DEF FileOK, FileTypes
    <2>3. \A r \in gone : r.name = n
        BY DEF Record
    <2> HIDE DEF gone
    <2>4. Range(g.recs) = Range(f.recs) \ gone
        <3>1. Range(Only(f.recs, Range(f.recs) \ gone)) = Range(f.recs) \cap (Range(f.recs) \ gone)
            BY <2>2, OnlyRange, Zenon
        <3> QED BY <2>1, <3>1 DEF Without
    <2>5. ASSUME NEW i, i # n, Exists(f, i) PROVE Exists(g, i)
        BY <2>3, <2>4, <2>5 DEF Exists
    <2> QED BY <2>1, <2>5 DEF Dangling, AllItems
<1> QED BY <1>1, <1>2

LEMMA RenameKeeps ==
    ASSUME NEW f, FileOK(f), NamesEndNoItem, NEW n \in UserNames \cup AllItems(f), NEW m \in UserNames,
           NEW g \in RenameVar(f, n, m)
    PROVE  Dangling(g) \subseteq Dangling(f) \cup {n}
<1>1. n \in Seq(Parts)
    BY HistoryIs, NamesAre
<1>2. /\ g.hist = f.hist /\ DOMAIN g.recs = DOMAIN f.recs
      /\ \A j \in DOMAIN f.recs :
            g.recs[j] = IF Meets(n, f.recs[j]) /\ f.recs[j].val = Value(f, n)
                        THEN Record(EndIn(n, m, f.recs[j].name), f.recs[j].val) ELSE f.recs[j]
    BY <1>1, RenameVarForm
<1>3. ASSUME NEW i \in AllItems(f), i # n PROVE ~IsSuffix(n, i)
    <2>1. PICK k \in DOMAIN f.hist : i \in ItemsOf(k)
        BY HistoryIs
    <2>2. k \in StalkNames
        BY HistoryIs
    <2>3. CASE n \in UserNames
        BY <1>3, <2>1, <2>2, <2>3 DEF NamesEndNoItem
    <2>4. CASE n \in AllItems(f)
        <3>1. PICK l \in DOMAIN f.hist : n \in ItemsOf(l)
            BY <2>4, HistoryIs
        <3>2. l \in StalkNames
            BY HistoryIs
        <3> QED BY <1>3, <2>1, <2>2, <3>1, <3>2, ItemsAre
    <2> QED BY <2>3, <2>4
<1>4. ASSUME NEW i \in AllItems(f), i # n, Exists(f, i) PROVE Exists(g, i)
    <2>1. PICK j \in DOMAIN f.recs : f.recs[j].name = i /\ f.recs[j].val # Core
        BY <1>4 DEF Exists, Range
    <2>2. ~Meets(n, f.recs[j])
        BY <1>3, <1>4, <2>1 DEF Meets
    <2>3. g.recs[j] = f.recs[j]
        BY <1>2, <2>2
    <2> QED BY <1>2, <2>1, <2>3 DEF Exists, Range
<1> QED BY <1>2, <1>4 DEF Dangling, AllItems

\* Whatever the call.
LEMMA CallKeepsRecords ==
    ASSUME NEW f, FileOK(f), NamesEndNoItem, NEW c \in Calls(f), NEW g \in Results(f, c)
    PROVE  \/ Dangling(g) \subseteq Dangling(f)
           \/ c.op \in {"removevar", "renamevar_stx"} /\ Dangling(g) \subseteq Dangling(f) \cup {c.name}
<1>0. UserNames \cup AllItems(f) \subseteq Seq(Parts) /\ StalkNames \subseteq UserNames /\ UserNames \subseteq Seq(Parts)
    BY HistoryIs, NamesAre
<1>t. f \in FileTypes /\ f.recs \in Seq(FileRecords)
    BY DEF FileOK, FileTypes
<1>a. ASSUME NEW n \in Seq(Parts), NEW p \in Seq(Payload), g = Add(f, n, p) PROVE Dangling(g) \subseteq Dangling(f)
    <2> DEFINE h == Add(f, n, p)
    <2>0. h.hist = f.hist /\ Range(h.recs) = Range(f.recs) \cup {Record(n, p)}
        BY AddKeeps
    <2> HIDE DEF h
    <2>1. g.hist = f.hist /\ Range(f.recs) \subseteq Range(g.recs)
        BY <1>a, <2>0 DEF h
    <2> QED BY <2>1, MoreExist, NoneDangles
<1>u. ASSUME NEW n \in DOMAIN f.hist, NEW gone \in Seq(Seq(Parts)), Range(gone) \subseteq Range(Items(f, n)),
             g = Unstalked(f, n, gone)
      PROVE  Dangling(g) \subseteq Dangling(f)
    <2>1. Items(f, n) = f.hist[n]
        BY DEF Items, IsRoot
    <2> DEFINE items == Range(gone)
    <2>2. items \subseteq Range(f.hist[n]) /\ TakesOut(f, n, items, g)
        BY <1>u, <2>1, UnstalkedForm
    <2> HIDE DEF items
    <2> QED BY <2>2, UnstalkedKeeps
<1>1. CASE c.op = "addvar" /\ c.name \in UserNames /\ c.val \in Values /\ g \in AddVar(f, c.name, c.val)
    <2>1. g = Add(f, c.name, <<c.val>>)
        BY <1>1 DEF AddVar, When
    <2> QED BY <1>0, <1>1, <1>a, <2>1, PayloadsAre
<1>2. CASE c.op = "corevar" /\ c.name \in UserNames /\ g \in CoreVar(f, c.name)
    <2>1. g = Add(f, c.name, Core)
        BY <1>2 DEF CoreVar, When
    <2> QED BY <1>0, <1>2, <1>a, <2>1, PayloadsAre
<1>3. CASE /\ c.name \in SetToAllKPermutations(UserNames) /\ g.hist = f.hist
           /\ g.recs = f.recs \o Appended(c.name, c.val) /\ c.val \in {<<>>} \cup {<<v>> : v \in Values}
    <2>1. Appended(c.name, c.val) \in Seq(FileRecords)
        BY <1>3, AppendedAre
    <2>2. Range(f.recs) \subseteq Range(g.recs)
        BY <1>3, <1>t, <2>1, ConcatRange
    <2> QED BY <1>3, <2>2, MoreExist, NoneDangles
<1>4. CASE c.op = "changevar" /\ c.val \in Values /\ g \in ChangeVar(f, c.name, c.val)
    <2>1. CASE IsRoot(f, c.name)
        <3>1. c.name \in DOMAIN f.hist /\ g \in ChangeRoot(f, c.name, c.val)
            BY <1>4, <2>1 DEF ChangeVar, IsRoot
        <3>2. PICK gone \in Seq(Seq(Parts)) :
                 g = Unstalked(f, c.name, gone) /\ Range(gone) \subseteq Range(Items(f, c.name))
            BY <1>4, <3>1, ChangeRootForm
        <3> QED BY <1>u, <3>1, <3>2
    <2>2. CASE ~IsRoot(f, c.name)
        <3>1. /\ g.hist = f.hist /\ DOMAIN g.recs = DOMAIN f.recs
              /\ \A i \in DOMAIN f.recs :
                    g.recs[i] = IF Meets(c.name, f.recs[i]) /\ f.recs[i].val = Value(f, c.name)
                                THEN Record(f.recs[i].name, <<c.val>>) ELSE f.recs[i]
            BY <1>4, <2>2, ChangePlainForm DEF ChangeVar
        <3>2. \A j \in DOMAIN f.recs : f.recs[j].val # Core =>
                  g.recs[j].name = f.recs[j].name /\ g.recs[j].val # Core
            <4>1. <<c.val>> # Core
                BY <1>4, PayloadsAre
            <4>2. \A n, q : Record(n, q).name = n /\ Record(n, q).val = q
                BY DEF Record
            <4> QED BY <3>1, <4>1, <4>2
        <3>3. ExistStay(f, g)
            BY <3>1, <3>2, ChangedExist
        <3> QED BY <3>1, <3>3, NoneDangles
    <2> QED BY <2>1, <2>2
<1>5. CASE c.op = "removevar" /\ c.name \in UserNames \cup AllItems(f) /\ g \in RemoveVar(f, c.name)
    BY <1>0, <1>5, RemoveKeeps
<1>6. CASE /\ c.op = "renamevar_stx" /\ c.name \in UserNames \cup AllItems(f) /\ c.to \in UserNames
           /\ g \in RenameVar(f, c.name, c.to)
    BY <1>6, RenameKeeps
<1>7. CASE c.op = "renumber" /\ g \in Renumber(f, c.name, c.to)
    <2>1. PICK gone \in Seq(Seq(Parts)) :
             /\ c.name \in DOMAIN f.hist /\ g = Unstalked(f, c.name, gone)
             /\ Range(gone) \subseteq Range(Items(f, c.name))
        BY <1>7, RenumberForm
    <2> QED BY <1>u, <2>1
<1>8. CASE /\ c.op = "joinvars" /\ c.name \in UserNames /\ c.from \in SetToAllKPermutations(UserNames)
           /\ g \in JoinVars(f, c.name, c.from)
    <2>1. c.from \in Seq(UserNames) /\ JoinName(c.name) \in Seq(Parts) /\ c.name \in Seq(Parts)
        BY <1>0, <1>8, SomeOf, JoinNameIs, LegacyConstantsOK DEF LegacyConstantsOK
    <2>2. CASE g = f
        BY <2>2
    <2>3. CASE \E p \in Seq(Payload) : g = Add(f, c.name, p) \/ g = Add(f, JoinName(c.name), p)
        BY <1>a, <2>1, <2>3
    <2>4. CASE \E p \in Seq(Payload), i \in DOMAIN f.recs :
                 /\ p # Core /\ f.recs[i].name = JoinName(c.name)
                 /\ g = [f EXCEPT !.recs[i] = Record(JoinName(c.name), p)]
        <3>1. PICK p \in Seq(Payload), i \in DOMAIN f.recs :
                 /\ p # Core /\ f.recs[i].name = JoinName(c.name)
                 /\ g = [f EXCEPT !.recs[i] = Record(JoinName(c.name), p)]
            BY <2>4
        <3>2. g.hist = f.hist /\ g.recs = [f.recs EXCEPT ![i] = Record(JoinName(c.name), p)]
            BY <1>t, <3>1 DEF FileTypes
        <3>3. DOMAIN f.recs = DOMAIN g.recs
            BY <3>2
        <3>4. \A j \in DOMAIN f.recs : f.recs[j].val # Core =>
                  g.recs[j].name = f.recs[j].name /\ g.recs[j].val # Core
            BY <3>1, <3>2 DEF Record
        <3>5. ExistStay(f, g)
            BY <3>3, <3>4, ChangedExist
        <3> QED BY <3>2, <3>5, NoneDangles
    <2> QED BY <1>8, <2>1, <2>2, <2>3, <2>4, JoinVarsForm
<1>9. CASE g.recs = f.recs /\ g.hist = f.hist
    BY <1>9 DEF Dangling, AllItems, Exists
<1>10. CASE c.op = "stalkvar" /\ c.name \in StalkNames /\ c.val \in Values /\ g \in Stalk(f, c.name, c.val)
    BY <1>10, StalkKeeps
<1>11. CASE /\ c.op = "appvar" /\ c.name \in SetToAllKPermutations(UserNames)
            /\ c.val \in {<<>>} \cup {<<v>> : v \in Values} /\ g \in AppVar(f, c.name, c.val)
    <2>1. AppendsRecords(f, c.name, c.val, g)
        BY <1>11, AppVarForm
    <2> QED BY <1>3, <1>11, <2>1 DEF AppendsRecords
<1>12. CASE /\ c.op = "appvar_locks" /\ c.name \in SetToAllKPermutations(UserNames)
            /\ c.on \in UserNames /\ c.lock \in LockOps
            /\ c.val \in {<<v>> : v \in Values} /\ g \in AppVarLocks(f, c.name, c.val, c.on, c.lock)
    <2>1. AppendsRecords(f, c.name, c.val, g)
        BY <1>12, AppVarLocksForm
    <2> QED BY <1>3, <1>12, <2>1 DEF AppendsRecords
<1>13. CASE /\ c.op = "lockvar" /\ c.name \in UserNames
            /\ c.locks \in SetToAllKPermutations(LockOps) \ {<<>>} /\ g \in LockVar(f, c.name, c.locks)
    <2>1. WritesLines(f, g)
        BY <1>13, LockVarForm
    <2> QED BY <1>9, <2>1 DEF WritesLines
<1>14. CASE c.op = "lockdel" /\ c.name \in UserNames /\ g \in LockDel(f, c.name, c.all, c.locks)
    <2>1. WritesLines(f, g)
        BY <1>14, LockDelForm
    <2> QED BY <1>9, <2>1 DEF WritesLines
<1> QED BY CallCases, <1>1, <1>2, <1>4, <1>5, <1>6, <1>7, <1>8, <1>10, <1>11, <1>12, <1>13, <1>14

-----------------------------------------------------------------------------
(***************************************************************************)
(* A call leaves alone what it is not about.                               *)
(***************************************************************************)
\* Nothing is left of what is not in S.
LEMMA OnlyNone == ASSUME NEW E, NEW S, NEW s \in Seq(E), Range(s) \cap S = {} PROVE Only(s, S) = <<>>
<1>1. Only(s, S) \in Seq(E)
    BY OnlySeq, Zenon
<1>2. Range(Only(s, S)) = {}
    BY OnlyRange, Zenon
<1>3. \A t \in Seq(E) : Range(t) = {} => t = <<>>
    <2>1. \A t \in Seq(E) : t # <<>> => 1 \in DOMAIN t
        OBVIOUS
    <2> QED BY <2>1 DEF Range
<1> QED BY <1>1, <1>2, <1>3

\* Taking out what is not in S.
LEMMA OnlyWithout ==
    ASSUME NEW E, NEW S, NEW s \in Seq(E), NEW gone, gone \cap S = {} PROVE Only(Without(s, gone), S) = Only(s, S)
<1> DEFINE T == Range(s) \ gone
<1>1. (S \cap T) \cap Range(s) = S \cap Range(s)
    OBVIOUS
<1> HIDE DEF T
<1>2. Only(Only(s, T), S) = Only(s, S \cap T)
    BY OnlyTwice
<1>3. Only(s, S \cap T) = Only(s, S)
    BY <1>1, OnlyOfRange
<1> QED BY <1>2, <1>3 DEF T, Without

\* A renamed variable ends in its new name.
LEMMA EndInEnds ==
    ASSUME NEW n \in Seq(Parts), NEW m \in Seq(Parts), NEW x \in Seq(Parts), IsSuffix(n, x)
    PROVE  IsSuffix(m, EndIn(n, m, x))
<1> DEFINE k == Len(x) - Len(n)
           u == SubSeq(x, 1, k)
           y == u \o m
<1>1. k \in Nat /\ k <= Len(x)
    <2>1. Len(n) <= Len(x) /\ Len(n) \in Nat /\ Len(x) \in Nat
        BY SuffixEnds DEF Ends
    <2> QED BY <2>1
<1>2. u \in Seq(Parts)
    <2>1. u = [i \in 1..k |-> x[i]]
        BY <1>1
    <2>2. \A i \in 1..k : x[i] \in Parts
        BY <1>1
    <2> HIDE DEF u, k
    <2> QED BY <1>1, <2>1, <2>2
<1>3. EndIn(n, m, x) = y
    BY DEF EndIn
<1> HIDE DEF u, k
<1>4. y \in Seq(Parts) /\ Len(y) = Len(u) + Len(m) /\ Len(u) \in Nat /\ Len(m) \in Nat
      /\ \A i \in 1..Len(m) : y[Len(u) + i] = m[i]
    BY <1>2
<1>5. Len(m) <= Len(y) /\ Len(y) - Len(m) = Len(u)
    BY <1>4
<1> HIDE DEF y
<1>6. Ends(m, y)
    BY <1>4, <1>5 DEF Ends
<1> QED BY <1>3, <1>4, <1>6, SuffixEnds

\* The records that a call is not about: none that it is about is among them.
Aside(aims, c) == {r \in FileRecords : ~IsAim(aims, c, r)}

\* What is seen of the records is what is left of those.
LEMMA AsideIs ==
    ASSUME NEW f, f.recs \in Seq(FileRecords), NEW g, g.recs \in Seq(FileRecords), NEW c,
           Only(g.recs, Aside(Aims(f, c), c)) = Only(f.recs, Aside(Aims(f, c), c))
    PROVE  OthersKeepRecords(f, c, g)
<1> DEFINE S == Aside(Aims(f, c), c)
           others(h) == Only(h.recs, {r \in Range(h.recs) : ~IsAim(Aims(f, c), c, r)})
<1>1. ASSUME NEW h, h.recs \in Seq(FileRecords) PROVE others(h) = Only(h.recs, S)
    <2> DEFINE T == {r \in Range(h.recs) : ~IsAim(Aims(f, c), c, r)}
    <2>1. Range(h.recs) \subseteq FileRecords
        BY <1>1 DEF Range
    <2>2. T \cap Range(h.recs) = S \cap Range(h.recs)
        BY <2>1 DEF Aside
    <2> HIDE DEF T, S
    <2>3. Only(h.recs, T) = Only(h.recs, S)
        BY <2>2, OnlyOfRange, Zenon
    <2> QED BY <2>3 DEF T
<1> QED BY <1>1 DEF OthersKeepRecords

\* A name that the call is about.
LEMMA AimsAre ==
    ASSUME NEW aims, NEW c, NEW n \in aims, n \in Seq(Parts)
    PROVE  /\ \A p : Record(n, p) \notin Aside(aims, c)
           /\ \A r \in FileRecords : r.name = n => r \notin Aside(aims, c)
           /\ ByEnding(c) => \A r \in FileRecords : IsSuffix(n, r.name) => r \notin Aside(aims, c)
<1>1. IsSuffix(n, n)
    BY EndsItself
<1>2. \A r : r.name = n => IsAim(aims, c, r)
    BY <1>1 DEF IsAim
<1>3. ByEnding(c) => \A r : IsSuffix(n, r.name) => IsAim(aims, c, r)
    BY DEF IsAim
<1>4. \A p : Record(n, p).name = n
    BY DEF Record
<1> QED BY <1>2, <1>3, <1>4 DEF Aside

\* Whatever the call.
LEMMA CallKeepsOthersRecords ==
    ASSUME NEW f, FileOK(f), NEW c \in Calls(f), NEW g \in Results(f, c) PROVE OthersKeepRecords(f, c, g)
<1> DEFINE aims == Aims(f, c)
           S == Aside(aims, c)
<1>0. UserNames \cup AllItems(f) \subseteq Seq(Parts) /\ StalkNames \subseteq UserNames /\ UserNames \subseteq Seq(Parts)
    BY HistoryIs, NamesAre
<1>t. f \in FileTypes /\ f.recs \in Seq(FileRecords) /\ \A i \in DOMAIN f.recs : f.recs[i] \in FileRecords
    BY DEF FileOK, FileTypes
<1>g. g.recs \in Seq(FileRecords) /\ \A i \in DOMAIN g.recs : g.recs[i] \in FileRecords
    BY FormStays DEF FileOK, FileTypes
<1>s. CASE Only(g.recs, S) = Only(f.recs, S)
    BY <1>s, <1>t, <1>g, AsideIs
<1>n. ASSUME c.op \notin {"appvar", "appvar_locks"}
      PROVE  /\ c.name \in aims /\ JoinName(c.name) \in aims /\ StalkItem(f, c.name) \in aims
             /\ Range(Items(f, c.name)) \subseteq aims
             /\ c.op = "renamevar_stx" => c.to \in aims
    BY <1>n DEF Aims
<1>m. ASSUME c.op \in {"appvar", "appvar_locks"} PROVE aims = Range(c.name)
    BY <1>m DEF Aims
<1> HIDE DEF aims
<1>a. ASSUME NEW n \in aims, n \in Seq(Parts), NEW p \in Seq(Payload), g.recs = Append(f.recs, Record(n, p))
      PROVE  Only(g.recs, S) = Only(f.recs, S)
    <2>1. Record(n, p) \notin S /\ Record(n, p) \in FileRecords
        BY <1>a, AimsAre, RecordIs
    <2> DEFINE r == Record(n, p)
    <2> HIDE DEF S, r
    <2>2. Only(Append(f.recs, r), S) = IF r \in S THEN Append(Only(f.recs, S), r) ELSE Only(f.recs, S)
        BY <1>t, <2>1, OnlyAppend DEF r
    <2> QED BY <1>a, <2>1, <2>2 DEF r
<1>b. ASSUME NEW n \in aims, n \in Seq(Parts), NEW p \in Seq(Payload), g = Add(f, n, p)
      PROVE  Only(g.recs, S) = Only(f.recs, S)
    <2>1. g.recs = Append(f.recs, Record(n, p))
        BY <1>t, <1>b DEF Add, FileTypes
    <2> QED BY <1>a, <1>b, <2>1
<1>c. ASSUME DOMAIN g.recs = DOMAIN f.recs,
             \A i \in DOMAIN f.recs : f.recs[i] = g.recs[i] \/ (f.recs[i] \notin S /\ g.recs[i] \notin S)
      PROVE  Only(g.recs, S) = Only(f.recs, S)
    <2> HIDE DEF S
    <2> QED BY <1>c, OnlySame
<1>u. ASSUME NEW items \in SUBSET aims, items \subseteq Seq(Parts),
             g.recs = Without(f.recs, {Record(i, Value(f, i)) : i \in items})
      PROVE  Only(g.recs, S) = Only(f.recs, S)
    <2> DEFINE gone == {Record(i, Value(f, i)) : i \in items}
    <2>1. gone \cap S = {}
        BY <1>u, AimsAre
    <2> HIDE DEF gone, S
    <2>2. Only(Without(f.recs, gone), S) = Only(f.recs, S)
        BY <1>t, <2>1, OnlyWithout
    <2> QED BY <1>u, <2>2 DEF gone
<1>r. ASSUME NEW n \in DOMAIN f.hist, n = c.name, c.op \notin {"appvar", "appvar_locks"},
             NEW gone \in Seq(Seq(Parts)), Range(gone) \subseteq Range(Items(f, n)),
             g = Unstalked(f, n, gone)
      PROVE  Only(g.recs, S) = Only(f.recs, S)
    <2> DEFINE items == Range(gone)
    <2>1. items \subseteq aims
        BY <1>n, <1>r
    <2>2. items \subseteq Seq(Parts)
        BY DEF Range
    <2>3. TakesOut(f, n, items, g)
        BY <1>r, UnstalkedForm
    <2> HIDE DEF items
    <2>4. g.recs = Without(f.recs, {Record(i, Value(f, i)) : i \in items})
        BY <2>3 DEF TakesOut
    <2> QED BY <1>u, <2>1, <2>2, <2>4
<1>e. CASE g.recs = f.recs
    BY <1>e, <1>s
<1>1. CASE c.op = "addvar" /\ c.name \in UserNames /\ c.val \in Values /\ g \in AddVar(f, c.name, c.val)
    <2>1. g = Add(f, c.name, <<c.val>>)
        BY <1>1 DEF AddVar, When
    <2> QED BY <1>0, <1>1, <1>b, <1>n, <1>s, <2>1, PayloadsAre
<1>2. CASE c.op = "corevar" /\ c.name \in UserNames /\ g \in CoreVar(f, c.name)
    <2>1. g = Add(f, c.name, Core)
        BY <1>2 DEF CoreVar, When
    <2> QED BY <1>0, <1>2, <1>b, <1>n, <1>s, <2>1, PayloadsAre
<1>3. CASE /\ c.op \in {"appvar", "appvar_locks"} /\ c.name \in SetToAllKPermutations(UserNames)
           /\ c.val \in {<<>>} \cup {<<v>> : v \in Values} /\ AppendsRecords(f, c.name, c.val, g)
    <2> DEFINE more == Appended(c.name, c.val)
    <2>1. /\ c.name \in Seq(UserNames) /\ more \in Seq(FileRecords) /\ DOMAIN more = DOMAIN c.name
          /\ \A i \in DOMAIN c.name : more[i].name = c.name[i]
        BY <1>3, AppendedAre
    <2>2. g.recs = f.recs \o more
        BY <1>3 DEF AppendsRecords
    <2> HIDE DEF more
    <2>3. Range(more) \cap S = {}
        <3>1. ASSUME NEW i \in DOMAIN more PROVE more[i] \notin S
            <4>1. c.name[i] \in aims /\ c.name[i] \in Seq(Parts)
                BY <1>0, <1>3, <1>m, <2>1 DEF Range
            <4>2. more[i] \in FileRecords /\ more[i].name = c.name[i]
                BY <2>1
            <4> QED BY <4>1, <4>2, AimsAre
        <3> QED BY <3>1 DEF Range
    <2> HIDE DEF S
    <2>4. Only(f.recs \o more, S) = Only(f.recs, S) \o Only(more, S)
        BY <1>t, <2>1, OnlyConcat
    <2>5. Only(more, S) = <<>>
        BY <2>1, <2>3, OnlyNone
    <2>6. Only(f.recs, S) \in Seq(FileRecords)
        BY <1>t, OnlySeq
    <2>7. Only(f.recs, S) \o <<>> = Only(f.recs, S)
        BY <2>6, ConcatEmptySeq
    <2> QED BY <1>s, <2>2, <2>4, <2>5, <2>7 DEF S
<1>4. CASE c.op = "changevar" /\ c.name \in UserNames \cup AllItems(f) /\ c.val \in Values
           /\ g \in ChangeVar(f, c.name, c.val)
    <2>1. CASE IsRoot(f, c.name)
        <3>1. c.name \in DOMAIN f.hist /\ g \in ChangeRoot(f, c.name, c.val)
            BY <1>4, <2>1 DEF ChangeVar, IsRoot
        <3>2. PICK gone \in Seq(Seq(Parts)) :
                 g = Unstalked(f, c.name, gone) /\ Range(gone) \subseteq Range(Items(f, c.name))
            BY <1>4, <3>1, ChangeRootForm
        <3> QED BY <1>4, <1>r, <1>s, <3>1, <3>2
    <2>2. CASE ~IsRoot(f, c.name)
        <3>1. /\ DOMAIN g.recs = DOMAIN f.recs
              /\ \A i \in DOMAIN f.recs :
                    g.recs[i] = IF Meets(c.name, f.recs[i]) /\ f.recs[i].val = Value(f, c.name)
                                THEN Record(f.recs[i].name, <<c.val>>) ELSE f.recs[i]
            BY <1>4, <2>2, ChangePlainForm DEF ChangeVar
        <3>2. c.name \in aims /\ c.name \in Seq(Parts) /\ ByEnding(c)
            BY <1>0, <1>4, <1>n DEF ByEnding
        <3>3. \A r \in FileRecords : IsSuffix(c.name, r.name) => r \notin S
            BY <3>2, AimsAre
        <3>4. ASSUME NEW i \in DOMAIN f.recs, f.recs[i] # g.recs[i]
              PROVE  f.recs[i] \notin S /\ g.recs[i] \notin S
            <4>1. IsSuffix(c.name, f.recs[i].name) /\ g.recs[i] = Record(f.recs[i].name, <<c.val>>)
                BY <3>1, <3>4 DEF Meets
            <4>2. g.recs[i].name = f.recs[i].name
                BY <4>1 DEF Record
            <4>3. g.recs[i] \in FileRecords /\ f.recs[i] \in FileRecords
                BY <1>t, <1>g, <3>1
            <4> HIDE DEF S
            <4> QED BY <3>3, <4>1, <4>2, <4>3
        <3> HIDE DEF S
        <3> QED BY <1>c, <1>s, <3>1, <3>4
    <2> QED BY <2>1, <2>2
<1>5. CASE c.op = "removevar" /\ c.name \in UserNames \cup AllItems(f) /\ g \in RemoveVar(f, c.name)
    <2>1. c.name \in aims /\ c.name \in Seq(Parts)
        BY <1>0, <1>5, <1>n
    <2> DEFINE gone == {Record(c.name, Value(f, c.name))}
               h == WithoutRecord(f, c.name, Value(f, c.name))
    <2>2. g = f \/ (h.recs = Without(f.recs, gone) /\ g.recs = h.recs)
        BY <1>5, <2>1, RemoveVarForm
    <2>3. gone \cap S = {}
        BY <2>1, AimsAre
    <2> HIDE DEF gone, h, S
    <2>4. Only(Without(f.recs, gone), S) = Only(f.recs, S)
        BY <1>t, <2>3, OnlyWithout
    <2>5. Only(g.recs, S) = Only(f.recs, S)
        BY <2>2, <2>4
    <2> QED BY <1>s, <2>5 DEF S
<1>6. CASE /\ c.op = "renamevar_stx" /\ c.name \in UserNames \cup AllItems(f) /\ c.to \in UserNames
           /\ g \in RenameVar(f, c.name, c.to)
    <2>1. /\ c.name \in aims /\ c.name \in Seq(Parts) /\ ByEnding(c)
          /\ c.to \in aims /\ c.to \in Seq(Parts)
        BY <1>0, <1>6, <1>n DEF ByEnding
    <2>2. /\ DOMAIN g.recs = DOMAIN f.recs
          /\ \A i \in DOMAIN f.recs :
                g.recs[i] = IF Meets(c.name, f.recs[i]) /\ f.recs[i].val = Value(f, c.name)
                            THEN Record(EndIn(c.name, c.to, f.recs[i].name), f.recs[i].val) ELSE f.recs[i]
        BY <1>6, <2>1, RenameVarForm
    <2>3. \A r \in FileRecords : IsSuffix(c.name, r.name) \/ IsSuffix(c.to, r.name) => r \notin S
        BY <2>1, AimsAre
    <2>4. ASSUME NEW i \in DOMAIN f.recs, f.recs[i] # g.recs[i]
          PROVE  f.recs[i] \notin S /\ g.recs[i] \notin S
        <3>1. /\ IsSuffix(c.name, f.recs[i].name)
              /\ g.recs[i] = Record(EndIn(c.name, c.to, f.recs[i].name), f.recs[i].val)
            BY <2>2, <2>4 DEF Meets
        <3>2. g.recs[i].name = EndIn(c.name, c.to, f.recs[i].name)
            BY <3>1 DEF Record
        <3>3. g.recs[i] \in FileRecords /\ f.recs[i] \in FileRecords
            BY <1>t, <1>g, <2>2
        <3>4. f.recs[i].name \in Seq(Parts)
            BY <3>3 DEF FileRecords
        <3>5. IsSuffix(c.to, g.recs[i].name)
            BY <2>1, <3>1, <3>2, <3>4, EndInEnds
        <3> HIDE DEF S
        <3> QED BY <2>3, <3>1, <3>3, <3>5
    <2> HIDE DEF S
    <2> QED BY <1>c, <1>s, <2>2, <2>4
<1>7. CASE c.op = "renumber" /\ g \in Renumber(f, c.name, c.to)
    <2>1. PICK gone \in Seq(Seq(Parts)) :
             /\ c.name \in DOMAIN f.hist /\ g = Unstalked(f, c.name, gone)
             /\ Range(gone) \subseteq Range(Items(f, c.name))
        BY <1>7, RenumberForm
    <2> QED BY <1>7, <1>r, <1>s, <2>1
<1>8. CASE /\ c.op = "joinvars" /\ c.name \in UserNames /\ c.from \in SetToAllKPermutations(UserNames)
           /\ g \in JoinVars(f, c.name, c.from)
    <2>1. c.from \in Seq(UserNames) /\ JoinName(c.name) \in Seq(Parts) /\ c.name \in Seq(Parts)
        BY <1>0, <1>8, SomeOf, JoinNameIs, LegacyConstantsOK DEF LegacyConstantsOK
    <2>2. c.name \in aims /\ JoinName(c.name) \in aims
        BY <1>8, <1>n
    <2>3. CASE g = f
        BY <1>e, <2>3
    <2>4. CASE \E p \in Seq(Payload) : g = Add(f, c.name, p) \/ g = Add(f, JoinName(c.name), p)
        BY <1>b, <1>s, <2>1, <2>2, <2>4
    <2>5. ASSUME NEW p \in Seq(Payload), NEW k \in DOMAIN f.recs, f.recs[k].name = JoinName(c.name),
                 g = [f EXCEPT !.recs[k] = Record(JoinName(c.name), p)]
          PROVE  Only(g.recs, S) = Only(f.recs, S)
        <3>1. g.recs = [f.recs EXCEPT ![k] = Record(JoinName(c.name), p)]
            BY <1>t, <2>5 DEF FileTypes
        <3>2. DOMAIN g.recs = DOMAIN f.recs /\ g.recs[k] = Record(JoinName(c.name), p)
              /\ \A i \in DOMAIN f.recs : i # k => g.recs[i] = f.recs[i]
            BY <3>1
        <3>3. f.recs[k] \notin S /\ g.recs[k] \notin S
            BY <1>t, <2>1, <2>2, <2>5, <3>2, AimsAre
        <3> HIDE DEF S
        <3> QED BY <1>c, <3>2, <3>3
    <2>6. CASE \E p \in Seq(Payload), k \in DOMAIN f.recs :
                 /\ p # Core /\ IsRoot(f, c.name) /\ f.recs[k].name = JoinName(c.name) /\ FileOK(g)
                 /\ g = [f EXCEPT !.recs[k] = Record(JoinName(c.name), p)]
        BY <1>s, <2>5, <2>6
    <2> QED BY <1>8, <2>1, <2>3, <2>4, <2>6, JoinVarsForm
<1>10. CASE c.op = "stalkvar" /\ c.name \in StalkNames /\ c.val \in Values /\ g \in Stalk(f, c.name, c.val)
    <2>0. g = Forget(f, c.name) \/ AddsItem(f, c.name, StalkItem(f, c.name), c.val, g)
        BY <1>10, StalkForm
    <2>1. g = Forget(f, c.name) \/ g.recs = Append(f.recs, Record(StalkItem(f, c.name), <<c.val>>))
        BY <2>0 DEF AddsItem
    <2>2. StalkItem(f, c.name) \in aims /\ StalkItem(f, c.name) \in Seq(Parts) /\ <<c.val>> \in Seq(Payload)
        BY <1>10, <1>n, StalkItemIs, PayloadsAre
    <2>3. Forget(f, c.name).recs = f.recs
        BY ForgetForm
    <2> DEFINE item == StalkItem(f, c.name)
    <2> HIDE DEF item, S
    <2>4. CASE g.recs = Append(f.recs, Record(item, <<c.val>>))
        BY <1>a, <1>s, <2>2, <2>4 DEF item, S
    <2> QED BY <1>e, <2>1, <2>3, <2>4 DEF item
<1>11. CASE /\ c.op = "appvar" /\ c.name \in SetToAllKPermutations(UserNames)
            /\ c.val \in {<<>>} \cup {<<v>> : v \in Values} /\ g \in AppVar(f, c.name, c.val)
    <2>1. AppendsRecords(f, c.name, c.val, g)
        BY <1>11, AppVarForm
    <2> QED BY <1>3, <1>11, <2>1
<1>12. CASE /\ c.op = "appvar_locks" /\ c.name \in SetToAllKPermutations(UserNames)
            /\ c.on \in UserNames /\ c.lock \in LockOps
            /\ c.val \in {<<v>> : v \in Values} /\ g \in AppVarLocks(f, c.name, c.val, c.on, c.lock)
    <2>1. AppendsRecords(f, c.name, c.val, g)
        BY <1>12, AppVarLocksForm
    <2> QED BY <1>3, <1>12, <2>1
<1>13. CASE /\ c.op = "lockvar" /\ c.name \in UserNames
            /\ c.locks \in SetToAllKPermutations(LockOps) \ {<<>>} /\ g \in LockVar(f, c.name, c.locks)
    <2>1. WritesLines(f, g)
        BY <1>13, LockVarForm
    <2> QED BY <1>e, <2>1 DEF WritesLines
<1>14. CASE c.op = "lockdel" /\ c.name \in UserNames /\ g \in LockDel(f, c.name, c.all, c.locks)
    <2>1. WritesLines(f, g)
        BY <1>14, LockDelForm
    <2> QED BY <1>e, <2>1 DEF WritesLines
<1> QED BY CallCases, <1>1, <1>2, <1>4, <1>5, <1>6, <1>7, <1>8, <1>10, <1>11, <1>12, <1>13, <1>14

\* Every lock record names operations.
OpsOK(f) == \A l \in Range(f.lines) : IsLock(l) => l.ops # <<>>

\* Locks other than those of ns stay as they are, and all go on naming operations.
EditsLines(f, ns, g) ==
    /\ OpsOK(f) => OpsOK(g)
    /\ \A S \in SUBSET LockLines : (\A l \in S : l.name \notin ns) => Only(g.lines, S) = Only(f.lines, S)

\* null and an empty line are none.
LEMMA LockLinesAre ==
    /\ NullLine \notin LockLines /\ BlankLine \notin LockLines
    /\ \A l \in LockLines : IsLock(l)
    /\ \A l \in FileLines : IsLock(l) <=> l \in LockLines
BY LegacyConstantsOK DEF LegacyConstantsOK, IsLock, FileLines

\* Locks taken out.
LEMMA WithoutLocksEdit ==
    ASSUME NEW f, FileOK(f), NEW ns, DOMAIN ns = 1..Len(ns), Len(ns) \in Nat
    PROVE  EditsLines(f, Range(ns), WithoutLocks(f, ns))
<1> DEFINE g == WithoutLocks(f, ns)
<1>1. f \in FileTypes /\ f.lines # <<>>
    BY DEF FileOK
<1>2. PICK s \in Seq(FileLines) :
         /\ g = [f EXCEPT !.lines = s] /\ s # <<>>
         /\ Range(s) \subseteq Range(f.lines) \cup {BlankLine}
         /\ \A S : NotAbout(S, Range(ns)) => Only(s, S) = Only(f.lines, S)
         /\ \A S : BlankLine \notin S /\ Apart(f.lines, S) => Apart(s, S)
    BY <1>1, WithoutLocksKeep, Zenon
<1>3. g.lines = s
    BY <1>1, <1>2 DEF FileTypes
<1> HIDE DEF g
<1>4. OpsOK(f) => OpsOK(g)
    BY <1>2, <1>3 DEF OpsOK, IsLock
<1>5. ASSUME NEW S \in SUBSET LockLines, \A l \in S : l.name \notin Range(ns)
      PROVE  Only(g.lines, S) = Only(f.lines, S)
    <2>1. NotAbout(S, Range(ns))
        BY <1>5, LockLinesAre DEF NotAbout
    <2> QED BY <1>2, <1>3, <2>1
<1>6. EditsLines(f, Range(ns), g)
    BY <1>4, <1>5 DEF EditsLines
<1> QED BY <1>6 DEF g

\* More may be edited, and the lines before may be those of another file.
LEMMA EditsMore ==
    ASSUME NEW f, NEW h, NEW ns, NEW g, EditsLines(h, ns, g), h.lines = f.lines, NEW more, ns \subseteq more
    PROVE  EditsLines(f, more, g)
BY DEF EditsLines, OpsOK

\* Nothing edited.
LEMMA EditsNothing == ASSUME NEW f, NEW g, NEW ns, g.lines = f.lines PROVE EditsLines(f, ns, g)
BY DEF EditsLines, OpsOK

\* A lock record written over the first one of its name, or behind all others.
LEMMA LockWritten ==
    ASSUME NEW f, FileOK(f), NEW g, NEW n \in Seq(Parts), NEW o \in Seq(LockOps \cup Seq(Parts)), o # <<>>,
           \/ HasLock(f.lines, n) /\ g.lines = ReplaceAllLines(f.lines, LockOf(f.lines, n), Lock(n, o))
           \/ g.lines = Append(f.lines, Lock(n, o))
    PROVE  EditsLines(f, {n}, g)
<1> DEFINE new == Lock(n, o)
           old == LockOf(f.lines, n)
<1>1. f.lines \in Seq(FileLines) /\ f.lines # <<>>
    BY DEF FileOK, FileTypes
<1>2. new \in FileLines /\ new.name = n /\ new.ops # <<>>
    BY LockIn
<1>3. HasLock(f.lines, n) => old.name = n
    BY <1>1, LockIs
<1> HIDE DEF new, old
<1>4. Range(g.lines) \subseteq Range(f.lines) \cup {new}
    <2>1. CASE g.lines = ReplaceAllLines(f.lines, old, new)
        BY <1>1, <1>2, <2>1, ReplaceKeeps
    <2>2. CASE g.lines = Append(f.lines, new)
        BY <1>1, <1>2, <2>2, RangeAppend
    <2> QED BY <2>1, <2>2 DEF new, old
<1>5. ASSUME NEW S \in SUBSET LockLines, \A l \in S : l.name \notin {n}
      PROVE  Only(g.lines, S) = Only(f.lines, S)
    <2>1. new \notin S
        BY <1>2, <1>5
    <2>2. CASE HasLock(f.lines, n) /\ g.lines = ReplaceAllLines(f.lines, old, new)
        <3>1. old \notin S
            BY <1>3, <1>5, <2>2
        <3> QED BY <1>1, <1>2, <2>1, <2>2, <3>1, ReplaceKeeps
    <2>3. CASE g.lines = Append(f.lines, new)
        BY <1>1, <1>2, <2>1, <2>3, OnlyAppend
    <2> QED BY <2>2, <2>3 DEF new, old
<1>6. OpsOK(f) => OpsOK(g)
    BY <1>2, <1>4 DEF OpsOK
<1> QED BY <1>5, <1>6 DEF EditsLines

\* A record renamed, line by line.
LEMMA LockRenamed ==
    ASSUME NEW f, FileOK(f), NEW g, NEW n \in Seq(Parts), NEW m \in Seq(Parts),
           DOMAIN g.lines = DOMAIN f.lines,
           \A i \in DOMAIN f.lines :
              g.lines[i] = IF IsLock(f.lines[i]) /\ f.lines[i].name = n THEN Lock(m, f.lines[i].ops) ELSE f.lines[i]
    PROVE  EditsLines(f, {n, m}, g)
<1>1. \A i \in DOMAIN f.lines : f.lines[i] \in FileLines
    BY DEF FileOK, FileTypes
<1>2. \A o : Lock(m, o).name = m /\ Lock(m, o).ops = o
    BY DEF Lock
<1>3. ASSUME NEW S \in SUBSET LockLines, \A l \in S : l.name \notin {n, m}
      PROVE  Only(g.lines, S) = Only(f.lines, S)
    <2>1. ASSUME NEW i \in DOMAIN f.lines, f.lines[i] # g.lines[i]
          PROVE  f.lines[i] \notin S /\ g.lines[i] \notin S
        <3>1. f.lines[i].name = n /\ g.lines[i] = Lock(m, f.lines[i].ops)
            BY <2>1
        <3>2. g.lines[i].name = m
            BY <1>2, <3>1
        <3> QED BY <1>3, <3>1, <3>2
    <2> QED BY <2>1, OnlySame
<1>4. ASSUME OpsOK(f), NEW i \in DOMAIN g.lines, IsLock(g.lines[i]) PROVE g.lines[i].ops # <<>>
    <2>1. IsLock(f.lines[i]) => f.lines[i].ops # <<>>
        BY <1>4 DEF OpsOK, Range
    <2>2. CASE IsLock(f.lines[i]) /\ f.lines[i].name = n
        <3>1. g.lines[i] = Lock(m, f.lines[i].ops)
            BY <2>2
        <3> QED BY <1>2, <2>1, <2>2, <3>1
    <2>3. CASE ~(IsLock(f.lines[i]) /\ f.lines[i].name = n)
        BY <1>4, <2>1, <2>3
    <2> QED BY <2>2, <2>3
<1>5. OpsOK(f) => OpsOK(g)
    BY <1>4 DEF OpsOK, Range
<1> QED BY <1>3, <1>5 DEF EditsLines

\* The lines of two sections one behind the other.
LEMMA LinesRange ==
    /\ \A s \in Seq(FileLines), l \in FileLines : Range(Append(s, l)) = Range(s) \cup {l}
    /\ \A s, t \in Seq(FileLines) : Range(s \o t) = Range(s) \cup Range(t)
BY RangeAppend, ConcatRange, Zenon

\* A record taken out behind the first line, and written at the end.
LEMMA LockWrittenAgain ==
    ASSUME NEW f, FileOK(f), NEW g, NEW n \in Seq(Parts), NEW o \in Seq(LockOps \cup Seq(Parts)), o # <<>>,
           NEW mine, \A l \in mine : l.name = n,
           g.lines = <<Head(f.lines)>> \o Append(Without(Tail(f.lines), mine), Lock(n, o))
    PROVE  EditsLines(f, {n}, g)
<1> DEFINE s == f.lines
           old == Without(Tail(s), mine)
           new == Lock(n, o)
           first == <<Head(s)>>
<1>1. s \in Seq(FileLines) /\ s # <<>>
    BY DEF FileOK, FileTypes
<1>2. new \in FileLines /\ new.name = n /\ new.ops # <<>>
    BY LockIn
<1>3. Tail(s) \in Seq(FileLines) /\ first \in Seq(FileLines) /\ s = first \o Tail(s)
    <2>1. Head(s) \in FileLines /\ Tail(s) \in Seq(FileLines)
        BY <1>1
    <2>2. s = <<Head(s)>> \o Tail(s)
        BY <1>1
    <2> QED BY <2>1, <2>2
<1> DEFINE rest == Tail(s)
<1> HIDE DEF rest, new, first
<1>4. old \in Seq(FileLines) /\ Range(old) \subseteq Range(rest)
    <2>1. Only(rest, Range(rest) \ mine) \in Seq(FileLines)
        BY <1>3, OnlySeq DEF rest
    <2>2. Range(Only(rest, Range(rest) \ mine)) = Range(rest) \cap (Range(rest) \ mine)
        BY <1>3, OnlyRange DEF rest
    <2> QED BY <2>1, <2>2 DEF Without, rest
<1> HIDE DEF s, old
<1>5. g.lines = first \o Append(old, new) /\ Append(old, new) \in Seq(FileLines)
    BY <1>2, <1>4 DEF first, old, new, s
<1>6. Range(g.lines) \subseteq Range(s) \cup {new}
    <2> DEFINE last == Append(old, new)
    <2>1. last \in Seq(FileLines)
        BY <1>5
    <2>2. Range(last) = Range(old) \cup {new}
        BY <1>2, <1>4, LinesRange
    <2>3. rest \in Seq(FileLines) /\ s = first \o rest
        BY <1>3 DEF rest
    <2> HIDE DEF last
    <2>4. Range(first \o last) = Range(first) \cup Range(last)
        BY <1>3, <2>1, LinesRange
    <2>5. Range(first \o rest) = Range(first) \cup Range(rest)
        BY <1>3, <2>3, LinesRange
    <2>6. g.lines = first \o last
        BY <1>5 DEF last
    <2> QED BY <1>4, <2>2, <2>3, <2>4, <2>5, <2>6
<1>7. ASSUME NEW S \in SUBSET LockLines, \A l \in S : l.name \notin {n} PROVE Only(g.lines, S) = Only(s, S)
    <2>1. new \notin S /\ mine \cap S = {}
        BY <1>2, <1>7
    <2>2. Only(g.lines, S) = Only(first, S) \o Only(Append(old, new), S)
        BY <1>3, <1>5, OnlyConcat
    <2>3. Only(Append(old, new), S) = Only(old, S)
        BY <1>2, <1>4, <2>1, OnlyAppend
    <2>4. Only(old, S) = Only(rest, S)
        <3>1. Only(Without(rest, mine), S) = Only(rest, S)
            BY <1>3, <2>1, OnlyWithout DEF rest
        <3> QED BY <3>1 DEF old, rest
    <2>5. Only(s, S) = Only(first, S) \o Only(rest, S)
        BY <1>3, OnlyConcat DEF rest
    <2> QED BY <2>2, <2>3, <2>4, <2>5
<1>8. OpsOK(f) => OpsOK(g)
    BY <1>2, <1>6 DEF OpsOK, s
<1> QED BY <1>7, <1>8 DEF EditsLines, s

\* The names whose locks a call writes.
Touched(f, c) ==
    Aims(f, c) \cup (IF c.op = "appvar_locks" THEN {c.on} ELSE {})
               \cup (IF c.op = "stalkvar" THEN {Recent} ELSE {})

\* Whatever the call, but for the first lockvar.
FirstLock(f, c, g) ==
    /\ c.op = "lockvar" /\ c.name \in UserNames /\ NullLine \in Range(f.lines)
    /\ \E o : o # <<>> /\ g.lines = <<Lock(c.name, o)>>

LEMMA CallEditsLines ==
    ASSUME NEW f, FileOK(f), NEW c \in Calls(f), NEW g \in Results(f, c)
    PROVE  EditsLines(f, Touched(f, c), g) \/ FirstLock(f, c, g)
<1> DEFINE ns == Touched(f, c)
<1>0. UserNames \cup AllItems(f) \subseteq Seq(Parts) /\ StalkNames \subseteq UserNames /\ UserNames \subseteq Seq(Parts)
    BY HistoryIs, NamesAre
<1>n. ASSUME c.op \notin {"appvar", "appvar_locks"}
      PROVE  /\ c.name \in ns /\ Range(Items(f, c.name)) \subseteq ns
             /\ c.op = "renamevar_stx" => c.to \in ns
             /\ c.op = "stalkvar" => Recent \in ns
    BY <1>n DEF Aims, Touched
<1>m. c.op = "appvar_locks" => c.on \in ns
    BY DEF Touched
<1> HIDE DEF ns
<1>e. CASE g.lines = f.lines
    BY <1>e, EditsNothing
<1>r. ASSUME NEW n \in DOMAIN f.hist, n = c.name, c.op \notin {"appvar", "appvar_locks"},
             NEW gone \in Seq(Seq(Parts)), Range(gone) \subseteq Range(Items(f, n)),
             g = Unstalked(f, n, gone)
      PROVE  EditsLines(f, ns, g)
    <2> DEFINE items == Range(gone)
               h == Unstalk(f, n, items)
    <2>1. items \subseteq ns
        BY <1>n, <1>r
    <2>2. TakesOut(f, n, items, h) /\ h.lines = f.lines
        BY UnstalkIs
    <2>3. DOMAIN gone = 1..Len(gone) /\ Len(gone) \in Nat
        OBVIOUS
    <2>4. g = WithoutLocks(h, gone)
        BY <1>r DEF Unstalked
    <2>5. FileOK(h)
        BY <2>2 DEF TakesOut
    <2> HIDE DEF h
    <2>6. EditsLines(h, items, g)
        BY <2>3, <2>4, <2>5, WithoutLocksEdit
    <2> HIDE DEF items
    <2> QED BY <2>1, <2>2, <2>6, EditsMore
<1>1. CASE c.op = "addvar" /\ c.name \in UserNames /\ c.val \in Values /\ g \in AddVar(f, c.name, c.val)
    <2>1. g.lines = f.lines
        BY <1>1 DEF AddVar, When, Add, FileOK, FileTypes
    <2> QED BY <1>e, <2>1
<1>2. CASE c.op = "corevar" /\ c.name \in UserNames /\ g \in CoreVar(f, c.name)
    <2>1. g.lines = f.lines
        BY <1>2 DEF CoreVar, When, Add, FileOK, FileTypes
    <2> QED BY <1>e, <2>1
<1>3. CASE /\ c.op = "appvar" /\ c.name \in SetToAllKPermutations(UserNames)
           /\ c.val \in {<<>>} \cup {<<v>> : v \in Values} /\ g \in AppVar(f, c.name, c.val)
    <2>1. g.lines = f.lines
        BY <1>3, AppVarForm
    <2> QED BY <1>e, <2>1
<1>4. CASE /\ c.op = "appvar_locks" /\ c.name \in SetToAllKPermutations(UserNames)
           /\ c.on \in UserNames /\ c.lock \in LockOps
           /\ c.val \in {<<v>> : v \in Values} /\ g \in AppVarLocks(f, c.name, c.val, c.on, c.lock)
    <2>1. g.lines = Append(f.lines, Lock(c.on, <<c.lock>>))
        BY <1>4, AppVarLocksForm
    <2>2. <<c.lock>> \in Seq(LockOps \cup Seq(Parts)) /\ <<c.lock>> # <<>> /\ c.on \in Seq(Parts)
        BY <1>0, <1>4, LockOps1
    <2>3. EditsLines(f, {c.on}, g)
        BY <2>1, <2>2, LockWritten
    <2>4. {c.on} \subseteq ns
        BY <1>4, <1>m
    <2> QED BY <2>3, <2>4, EditsMore DEF ns
<1>5. CASE c.op = "changevar" /\ c.name \in UserNames \cup AllItems(f) /\ c.val \in Values
           /\ g \in ChangeVar(f, c.name, c.val)
    <2>1. CASE IsRoot(f, c.name)
        <3>1. c.name \in DOMAIN f.hist /\ g \in ChangeRoot(f, c.name, c.val)
            BY <1>5, <2>1 DEF ChangeVar, IsRoot
        <3>2. PICK gone \in Seq(Seq(Parts)) :
                 g = Unstalked(f, c.name, gone) /\ Range(gone) \subseteq Range(Items(f, c.name))
            BY <1>5, <3>1, ChangeRootForm
        <3> QED BY <1>5, <1>r, <3>1, <3>2 DEF ns
    <2>2. CASE ~IsRoot(f, c.name)
        <3>1. g \in ChangePlain(f, c.name, c.val)
            BY <1>5, <2>2 DEF ChangeVar
        <3>2. g.lines = f.lines
            BY <3>1 DEF ChangePlain, When, FileOK, FileTypes
        <3> QED BY <1>e, <3>2
    <2> QED BY <2>1, <2>2
<1>6. CASE c.op = "removevar" /\ c.name \in UserNames \cup AllItems(f) /\ g \in RemoveVar(f, c.name)
    <2> DEFINE n == c.name
               h == WithoutRecord(f, n, Value(f, n))
               one == <<n>>
    <2>1. n \in ns /\ n \in Seq(Parts)
        BY <1>0, <1>6, <1>n
    <2>2. g = f \/ (FileOK(h) /\ h.lines = f.lines /\ g = WithoutLocks(h, one))
        BY <1>6, <2>1, RemoveVarForm
    <2>3. DOMAIN one = 1..Len(one) /\ Len(one) \in Nat /\ Range(one) = {n}
        BY DEF Range
    <2> HIDE DEF h, one, n
    <2>4. CASE g = f
        BY <1>e, <2>4
    <2>5. CASE FileOK(h) /\ h.lines = f.lines /\ g = WithoutLocks(h, one)
        <3>1. EditsLines(h, Range(one), g)
            BY <2>3, <2>5, WithoutLocksEdit
        <3>2. Range(one) \subseteq ns
            BY <2>1, <2>3
        <3> QED BY <2>5, <3>1, <3>2, EditsMore DEF ns
    <2> QED BY <2>2, <2>4, <2>5
<1>7. CASE /\ c.op = "renamevar_stx" /\ c.name \in UserNames \cup AllItems(f) /\ c.to \in UserNames
           /\ g \in RenameVar(f, c.name, c.to)
    <2>1. c.name \in ns /\ c.to \in ns /\ c.name \in Seq(Parts) /\ c.to \in Seq(Parts)
        BY <1>0, <1>7, <1>n
    <2>2. /\ DOMAIN g.lines = DOMAIN f.lines
          /\ \A i \in DOMAIN f.lines :
                g.lines[i] = IF IsLock(f.lines[i]) /\ f.lines[i].name = c.name
                             THEN Lock(c.to, f.lines[i].ops) ELSE f.lines[i]
        BY <1>7, <2>1, RenameVarForm
    <2>3. EditsLines(f, {c.name, c.to}, g)
        BY <2>1, <2>2, LockRenamed
    <2>4. {c.name, c.to} \subseteq ns
        BY <2>1
    <2> QED BY <2>3, <2>4, EditsMore DEF ns
<1>8. CASE c.op = "renumber" /\ g \in Renumber(f, c.name, c.to)
    <2>1. PICK gone \in Seq(Seq(Parts)) :
             /\ c.name \in DOMAIN f.hist /\ g = Unstalked(f, c.name, gone)
             /\ Range(gone) \subseteq Range(Items(f, c.name))
        BY <1>8, RenumberForm
    <2> QED BY <1>8, <1>r, <2>1 DEF ns
<1>9. CASE /\ c.op = "joinvars" /\ c.name \in UserNames /\ c.from \in SetToAllKPermutations(UserNames)
           /\ g \in JoinVars(f, c.name, c.from)
    <2>1. g.lines = f.lines
        BY <1>9 DEF JoinVars, JoinRoot, Add, FileOK, FileTypes
    <2> QED BY <1>e, <2>1
<1>10. CASE /\ c.op = "lockvar" /\ c.name \in UserNames
            /\ c.locks \in SetToAllKPermutations(LockOps) \ {<<>>} /\ g \in LockVar(f, c.name, c.locks)
    <2> DEFINE n == c.name
               mine == OwnLocks(f, n)
    <2>1. \/ NullLine \in Range(f.lines) /\ g.lines = <<Lock(n, c.locks)>>
          \/ \E o \in Seq(LockOps \cup Seq(Parts)) : o # <<>> /\ g.lines = WrittenAgain(f, n, o)
        BY <1>10, LockVarForm
    <2>2. n \in ns /\ n \in Seq(Parts) /\ n \in UserNames
        BY <1>0, <1>10, <1>n
    <2>3. \A l \in mine : l.name = n
        <3>1. f.lines \in Seq(FileLines)
            BY DEF FileOK, FileTypes
        <3> QED BY <3>1, LockIs DEF OwnLocks
    <2> HIDE DEF mine
    <2>4. CASE NullLine \in Range(f.lines) /\ g.lines = <<Lock(n, c.locks)>>
        BY <1>10, <2>4 DEF FirstLock
    <2>5. ASSUME NEW o \in Seq(LockOps \cup Seq(Parts)), o # <<>>,
                 g.lines = WrittenAgain(f, n, o)
          PROVE  EditsLines(f, ns, g)
        <3>1. g.lines = <<Head(f.lines)>> \o Append(Without(Tail(f.lines), mine), Lock(n, o))
            BY <2>5 DEF WrittenAgain, mine
        <3>2. EditsLines(f, {n}, g)
            BY <2>2, <2>3, <2>5, <3>1, LockWrittenAgain
        <3>3. {n} \subseteq ns
            BY <2>2
        <3> QED BY <3>2, <3>3, EditsMore
    <2> QED BY <2>1, <2>4, <2>5 DEF ns
<1>11. CASE c.op = "lockdel" /\ c.name \in UserNames /\ g \in LockDel(f, c.name, c.all, c.locks)
    <2> DEFINE n == c.name
               one == <<n>>
    <2>1. /\ HasLock(f.lines, n)
          /\ \/ g = WithoutLocks(f, one)
             \/ \E o \in Seq(LockOps \cup Seq(Parts)) :
                   o # <<>> /\ g.lines = ReplaceAllLines(f.lines, LockOf(f.lines, n), Lock(n, o))
        BY <1>11, LockDelForm
    <2>2. n \in ns /\ n \in Seq(Parts)
        BY <1>0, <1>11, <1>n
    <2>3. DOMAIN one = 1..Len(one) /\ Len(one) \in Nat /\ Range(one) = {n}
        BY DEF Range
    <2> HIDE DEF one, n
    <2>4. EditsLines(f, {n}, g)
        <3>1. CASE g = WithoutLocks(f, one)
            BY <2>3, <3>1, WithoutLocksEdit
        <3>2. CASE \E o \in Seq(LockOps \cup Seq(Parts)) :
                      o # <<>> /\ g.lines = ReplaceAllLines(f.lines, LockOf(f.lines, n), Lock(n, o))
            BY <2>1, <2>2, <3>2, LockWritten
        <3> QED BY <2>1, <3>1, <3>2
    <2>5. {n} \subseteq ns
        BY <2>2
    <2> QED BY <2>4, <2>5, EditsMore DEF ns
<1>12. CASE c.op = "stalkvar" /\ c.name \in StalkNames /\ c.val \in Values /\ g \in Stalk(f, c.name, c.val)
    <2> DEFINE item == StalkItem(f, c.name)
    <2>1. g = Forget(f, c.name) \/ AddsItem(f, c.name, item, c.val, g)
        BY <1>12, StalkForm
    <2>2. item \in Seq(Parts)
        BY <1>12, StalkItemIs
    <2> HIDE DEF item
    <2>3. Recent \in Seq(Parts) /\ <<item>> \in Seq(LockOps \cup Seq(Parts)) /\ <<item>> # <<>>
        BY <2>2, NamesAre, LockOps1 DEF Recent
    <2>4. CASE g = Forget(f, c.name)
        <3>1. Forget(f, c.name).lines = f.lines
            BY ForgetForm
        <3> QED BY <1>e, <2>4, <3>1
    <2>5. CASE AddsItem(f, c.name, item, c.val, g)
        <3>1. \/ /\ HasLock(f.lines, Recent)
                 /\ g.lines = ReplaceAllLines(f.lines, LockOf(f.lines, Recent), Lock(Recent, <<item>>))
              \/ g.lines = Append(f.lines, Lock(Recent, <<item>>))
            BY <2>5 DEF AddsItem
        <3>2. EditsLines(f, {Recent}, g)
            BY <2>3, <3>1, LockWritten
        <3>3. {Recent} \subseteq ns
            BY <1>12, <1>n
        <3> QED BY <3>2, <3>3, EditsMore DEF ns
    <2> QED BY <2>1, <2>4, <2>5
<1> QED BY CallCases, <1>1, <1>2, <1>3, <1>4, <1>5, <1>6, <1>7, <1>8, <1>9, <1>10, <1>11, <1>12

\* The lock record of the item added last is not one of a variable: no call is about its
\* name, but stalkvar.
LEMMA NotRecent ==
    ASSUME NEW f, FileOK(f), NEW n \in UserNames \cup AllItems(f)
    PROVE  /\ n # Recent /\ JoinName(n) # Recent /\ StalkItem(f, n) # Recent
           /\ Recent \notin Range(Items(f, n))
<1>1. Len(Recent) = 1
    BY DEF Recent
<1>2. UserNames \subseteq Seq(Parts) /\ StalkNames \subseteq UserNames /\ \A m \in UserNames : m # <<>> /\ m # Recent
    BY NamesAre
<1>3. ASSUME NEW m \in Seq(Parts), m # <<>>, NEW i \in ItemsOf(m) PROVE i # Recent /\ i # <<>>
    <2>1. PICK k \in Nat : i = Append(m, k)
        BY DEF ItemsOf
    <2>2. k \in Parts
        BY NamesAre
    <2>3. Len(i) = Len(m) + 1 /\ Len(m) \in Nat /\ Len(m) # 0
        BY <1>3, <2>1, <2>2
    <2>4. Len(i) # 0 /\ Len(i) # 1 /\ Len(<<>>) = 0
        BY <2>3
    <2> QED BY <1>1, <2>4
<1>4. n \in Seq(Parts) /\ n # <<>> /\ n # Recent
    <2>1. CASE n \in UserNames
        BY <1>2, <2>1
    <2>2. CASE n \in AllItems(f)
        <3>1. PICK m \in DOMAIN f.hist : n \in ItemsOf(m)
            BY <2>2, HistoryIs
        <3>2. m \in Seq(Parts) /\ m # <<>>
            BY <1>2, HistoryIs
        <3>3. n \in Seq(Parts)
            BY <2>2, HistoryIs
        <3> QED BY <1>3, <3>1, <3>2, <3>3
    <2> QED BY <2>1, <2>2
<1>5. JoinName(n) # Recent
    <2>1. <<Tilde>> \in Seq(Parts) /\ Len(<<Tilde>>) = 1
        BY NamesAre
    <2> DEFINE t == <<Tilde>>
    <2> HIDE DEF t
    <2>2. Len(t \o n \o t) = 1 + Len(n) + 1 /\ Len(n) \in Nat
        BY <1>4, <2>1 DEF t
    <2>3. Len(t \o n \o t) # 1
        BY <2>2
    <2> QED BY <1>1, <2>3 DEF JoinName, t
<1>6. Items(f, n) \in Seq(Seq(Parts)) /\ Range(Items(f, n)) \subseteq ItemsOf(n)
    BY HistoryIs
<1>7. StalkItem(f, n) \in ItemsOf(n)
    <2>1. NextNumber(Items(f, n)) \in Nat
        BY <1>4, <1>6, NextIs
    <2> QED BY <2>1 DEF StalkItem, ItemsOf
<1> QED BY <1>3, <1>4, <1>5, <1>6, <1>7

\* What is named in a call.
LEMMA CallNames ==
    ASSUME NEW f, NEW c \in Calls(f), NEW g \in Results(f, c)
    PROVE  /\ c.op \in {"appvar", "appvar_locks"} => c.name \in SetToAllKPermutations(UserNames)
           /\ c.op \notin {"appvar", "appvar_locks"} => c.name \in UserNames \cup AllItems(f)
           /\ c.op = "appvar_locks" => c.on \in UserNames
           /\ c.op = "renamevar_stx" => c.to \in UserNames
<1> DEFINE known == UserNames \cup AllItems(f)
           some == SetToAllKPermutations(UserNames)
<1>1. StalkNames \subseteq known
    BY NamesAre
<1> HIDE DEF known, some
<1>2. UserNames \subseteq known
    BY DEF known
<1>3. \/ c.op = "appvar" /\ c.name \in some
      \/ c.op = "appvar_locks" /\ c.name \in some /\ c.on \in UserNames
      \/ c.op = "renamevar_stx" /\ c.name \in known /\ c.to \in UserNames
      \/ c.op \notin {"appvar", "appvar_locks", "renamevar_stx"} /\ c.name \in known
    BY <1>1, <1>2, CallCases DEF known, some
<1> QED BY <1>3 DEF known, some

\* So there is never more than one.
RecentLocks == {l \in LockLines : l.name = Recent}
LocksOK(f)  == OpsOK(f) /\ Apart(f.lines, RecentLocks)

LEMMA TouchedIsNotRecent ==
    ASSUME NEW f, FileOK(f), NEW c \in Calls(f), NEW g \in Results(f, c), c.op # "stalkvar"
    PROVE  Recent \notin Touched(f, c)
<1>1. \A n \in UserNames : n # Recent
    BY NamesAre
<1>2. CASE c.op \in {"appvar", "appvar_locks"}
    <2>1. c.name \in Seq(UserNames)
        BY <1>2, CallNames, SomeOf, LegacyConstantsOK DEF LegacyConstantsOK
    <2>2. Range(c.name) \subseteq UserNames
        BY <2>1 DEF Range
    <2>3. c.op = "appvar_locks" => c.on \in UserNames
        BY CallNames
    <2> QED BY <1>1, <1>2, <2>2, <2>3 DEF Touched, Aims
<1>3. CASE c.op \notin {"appvar", "appvar_locks"}
    <2>1. c.name \in UserNames \cup AllItems(f) /\ (c.op = "renamevar_stx" => c.to \in UserNames)
        BY <1>3, CallNames
    <2> DEFINE n == c.name
    <2>2. /\ n # Recent /\ JoinName(n) # Recent /\ StalkItem(f, n) # Recent
          /\ Recent \notin Range(Items(f, n))
        BY <2>1, NotRecent
    <2> QED BY <1>1, <1>3, <2>1, <2>2 DEF Touched, Aims
<1> QED BY <1>2, <1>3

\* Whatever the call.
LEMMA LocksStay ==
    ASSUME NEW f, FileOK(f), LocksOK(f), NEW c \in Calls(f), NEW g \in Results(f, c) PROVE LocksOK(g)
<1> DEFINE R == RecentLocks
<1>1. f.lines \in Seq(FileLines) /\ g.lines \in Seq(FileLines)
    BY FormStays DEF FileOK, FileTypes
<1>2. R \in SUBSET LockLines /\ \A l \in R : l.name = Recent
    BY DEF RecentLocks
<1>3. CASE FirstLock(f, c, g)
    <2>1. PICK o : o # <<>> /\ g.lines = <<Lock(c.name, o)>>
        BY <1>3 DEF FirstLock
    <2>2. DOMAIN g.lines = {1} /\ Range(g.lines) = {Lock(c.name, o)} /\ Lock(c.name, o).ops = o
        BY <2>1 DEF Lock, Range
    <2> QED BY <2>1, <2>2 DEF LocksOK, OpsOK, Apart
<1>4. CASE EditsLines(f, Touched(f, c), g)
    <2>1. OpsOK(g)
        BY <1>4 DEF EditsLines, LocksOK
    <2>2. CASE c.op # "stalkvar"
        <3>1. \A l \in R : l.name \notin Touched(f, c)
            BY <1>2, <2>2, TouchedIsNotRecent
        <3>2. Only(g.lines, R) = Only(f.lines, R)
            BY <1>2, <1>4, <3>1 DEF EditsLines
        <3> HIDE DEF R
        <3>3. OneOfEach(Only(f.lines, R)) <=> Apart(f.lines, R)
            BY <1>1, ApartIsOne
        <3>4. OneOfEach(Only(g.lines, R)) <=> Apart(g.lines, R)
            BY <1>1, ApartIsOne
        <3> QED BY <2>1, <3>2, <3>3, <3>4 DEF LocksOK, R
    <2>3. CASE c.op = "stalkvar"
        <3> DEFINE item == StalkItem(f, c.name)
                   new == Lock(Recent, <<item>>)
                   old == LockOf(f.lines, Recent)
        <3>1. c.name \in StalkNames /\ c.val \in Values /\ g \in Stalk(f, c.name, c.val)
            BY <2>3, CallCases
        <3>2. g = Forget(f, c.name) \/ AddsItem(f, c.name, item, c.val, g)
            BY <3>1, StalkForm
        <3>3. item \in Seq(Parts)
            BY <3>1, StalkItemIs
        <3> HIDE DEF item
        <3>4. new \in FileLines /\ new.name = Recent /\ new \in R
            <4>1. Recent \in Seq(Parts) /\ <<item>> \in Seq(LockOps \cup Seq(Parts))
                BY <3>3, NamesAre, LockOps1 DEF Recent
            <4>2. new \in FileLines /\ IsLock(new) /\ new.name = Recent
                BY <4>1, LockIn
            <4> QED BY <4>2, LockLinesAre DEF RecentLocks
        <3>5. CASE g = Forget(f, c.name)
            <4>1. g.lines = f.lines
                BY <3>5, ForgetForm
            <4> QED BY <2>1, <4>1 DEF LocksOK
        <3>6. CASE HasLock(f.lines, Recent) /\ g.lines = ReplaceAllLines(f.lines, old, new)
            <4>1. /\ DOMAIN g.lines = DOMAIN f.lines
                  /\ \A i \in DOMAIN f.lines : g.lines[i] = IF f.lines[i] = old THEN new ELSE f.lines[i]
                BY <3>6 DEF ReplaceAllLines
            <4>2. old \in R
                BY <1>1, <3>6, LockIs DEF RecentLocks
            <4>3. \A i \in DOMAIN f.lines : g.lines[i] \in R => f.lines[i] \in R
                BY <4>1, <4>2
            <4>4. ASSUME NEW i \in DOMAIN f.lines, NEW j \in DOMAIN f.lines, f.lines[i] \in R, f.lines[j] \in R
                  PROVE  i = j
                BY <1>2, <4>4 DEF LocksOK, Apart
            <4> HIDE DEF R, new, old
            <4>5. Apart(g.lines, R)
                BY <4>1, <4>3, <4>4 DEF Apart
            <4> QED BY <2>1, <4>5 DEF LocksOK, R
        <3>7. CASE ~HasLock(f.lines, Recent) /\ g.lines = Append(f.lines, new)
            <4>1. \A i \in DOMAIN f.lines : f.lines[i] \notin R
                <5>1. \A i \in DOMAIN f.lines : ~(IsLock(f.lines[i]) /\ f.lines[i].name = Recent)
                    BY <1>1, <3>7, LockIs
                <5> QED BY <1>2, <5>1, LockLinesAre
            <4>2. /\ DOMAIN g.lines = DOMAIN f.lines \cup {Len(f.lines) + 1}
                  /\ \A i \in DOMAIN f.lines : g.lines[i] = f.lines[i]
                BY <1>1, <3>4, <3>7
            <4> HIDE DEF R
            <4>3. Apart(g.lines, R)
                BY <4>1, <4>2 DEF Apart
            <4> QED BY <2>1, <4>3 DEF LocksOK, R
        <3>8. \/ g = Forget(f, c.name)
              \/ HasLock(f.lines, Recent) /\ g.lines = ReplaceAllLines(f.lines, old, new)
              \/ ~HasLock(f.lines, Recent) /\ g.lines = Append(f.lines, new)
            BY <3>2 DEF AddsItem
        <3> QED BY <3>5, <3>6, <3>7, <3>8
    <2> QED BY <2>2, <2>3
<1> QED BY <1>3, <1>4, CallEditsLines

-----------------------------------------------------------------------------
(***************************************************************************)
(* Only a name entered twice makes a file the new engine refuses.            *)
(***************************************************************************)
\* Entries that are apart stay so when one of another name is added, when some are taken
\* out, and one behind the other.
LEMMA ApartAppend ==
    ASSUME NEW E, NEW S, NEW s \in Seq(E), NEW x \in E, Apart(s, S),
           x \in S => \A i \in DOMAIN s : s[i] \in S => s[i].name # x.name
    PROVE  Apart(Append(s, x), S)
<1> DEFINE w == Append(s, x)
           n == Len(s) + 1
<1>1. DOMAIN w = DOMAIN s \cup {n} /\ w[n] = x /\ n \notin DOMAIN s /\ \A i \in DOMAIN s : w[i] = s[i]
    OBVIOUS
<1> HIDE DEF w, n
<1>2. Apart(w, S)
    BY <1>1 DEF Apart
<1> QED BY <1>2 DEF w

LEMMA ApartWithout ==
    ASSUME NEW E, NEW S, NEW s \in Seq(E), NEW gone, Apart(s, S) PROVE Apart(Without(s, gone), S)
<1> DEFINE T == Range(s) \ gone
           left == Only(s, T)
<1>1. left \in Seq(E)
    <2> HIDE DEF T
    <2> QED BY OnlySeq
<1>2. Only(left, S) = Only(s, S \cap T)
    <2> HIDE DEF T
    <2> QED BY OnlyTwice
<1> HIDE DEF T, left
<1>3. Apart(s, S \cap T)
    BY DEF Apart
<1>4. OneOfEach(Only(s, S \cap T))
    BY <1>3, ApartIsOne
<1>5. Apart(left, S)
    BY <1>1, <1>2, <1>4, ApartIsOne
<1> QED BY <1>5 DEF left, T, Without

LEMMA ApartConcat ==
    ASSUME NEW E, NEW S, NEW s \in Seq(E), NEW t \in Seq(E), Apart(s, S), Apart(t, S),
           \A i \in DOMAIN s, j \in DOMAIN t : s[i].name # t[j].name
    PROVE  Apart(s \o t, S)
<1> DEFINE w == s \o t
           a == Len(s)
           b == Len(t)
<1>1. /\ a \in Nat /\ b \in Nat /\ DOMAIN s = 1..a /\ DOMAIN t = 1..b /\ DOMAIN w = 1..(a + b)
      /\ \A i \in 1..a : w[i] = s[i]
      /\ \A i \in 1..b : w[a + i] = t[i]
    OBVIOUS
<1> HIDE DEF w, a, b
<1>2. \A i \in 1..(a + b) : i \in 1..a \/ (i - a \in 1..b /\ w[i] = t[i - a])
    <2>1. \A i \in 1..(a + b) : i \notin 1..a => i - a \in 1..b /\ a + (i - a) = i
        BY <1>1
    <2> QED BY <1>1, <2>1
<1>3. \A i, j \in 1..(a + b) : i # j => i - a # j - a
    BY <1>1
<1>4. ASSUME NEW i \in 1..(a + b), NEW j \in 1..(a + b), i # j, w[i] \in S, w[j] \in S
      PROVE  w[i].name # w[j].name
    <2>1. CASE i \in 1..a /\ j \in 1..a
        BY <1>1, <1>4, <2>1 DEF Apart
    <2>2. CASE i \in 1..a /\ j \notin 1..a
        BY <1>1, <1>2, <1>4, <2>2
    <2>3. CASE i \notin 1..a /\ j \in 1..a
        <3>1. i - a \in DOMAIN t /\ w[i] = t[i - a] /\ j \in DOMAIN s /\ w[j] = s[j]
            BY <1>1, <1>2, <2>3
        <3> QED BY <3>1
    <2>4. CASE i \notin 1..a /\ j \notin 1..a
        <3> DEFINE p == i - a
                   q == j - a
        <3>1. p \in DOMAIN t /\ q \in DOMAIN t /\ w[i] = t[p] /\ w[j] = t[q] /\ p # q
            BY <1>1, <1>2, <1>3, <1>4, <2>4
        <3> HIDE DEF p, q
        <3>2. t[p] \in S /\ t[q] \in S
            BY <1>4, <3>1
        <3> QED BY <3>1, <3>2 DEF Apart
    <2> QED BY <2>1, <2>2, <2>3, <2>4
<1>5. Apart(w, S)
    BY <1>1, <1>4 DEF Apart
<1> QED BY <1>5 DEF w

\* And when some get other contents under their names.
LEMMA ApartNamed ==
    ASSUME NEW S, NEW s, NEW t, DOMAIN s = DOMAIN t, Apart(s, S),
           \A i \in DOMAIN s : t[i].name = s[i].name /\ (t[i] \in S => s[i] \in S)
    PROVE  Apart(t, S)
BY DEF Apart

\* The records that the parser sees, and what is accepted.
SeenRecords == {r \in FileRecords : ~Opaque(r)}

LEMMA AcceptedIs ==
    ASSUME NEW f, FileOK(f)
    PROVE  Accepted(f) <=> Apart(f.recs, SeenRecords) /\ Apart(f.lines, LockLines) /\ ~f.stray
<1> DEFINE s == f.recs
           t == f.lines
           S == {r \in Range(s) : ~Opaque(r)}
           T == {l \in Range(t) : IsLock(l)}
<1>1. s \in Seq(FileRecords) /\ t \in Seq(FileLines)
    BY DEF FileOK, FileTypes
<1>2. Range(s) \subseteq FileRecords /\ Range(t) \subseteq FileLines
    BY <1>1 DEF Range
<1>3. S \cap Range(s) = SeenRecords \cap Range(s)
    BY <1>2 DEF SeenRecords
<1>4. T \cap Range(t) = LockLines \cap Range(t)
    BY <1>2, LockLinesAre
<1>5. Accepted(f) <=> OneOfEach(Only(s, S)) /\ OneOfEach(Only(t, T)) /\ ~f.stray
    BY DEF Accepted, Parsed, Locks
<1> HIDE DEF s, t, S, T
<1>6. Only(s, S) = Only(s, SeenRecords)
    BY <1>3, OnlyOfRange
<1>7. Only(t, T) = Only(t, LockLines)
    BY <1>4, OnlyOfRange
<1>8. OneOfEach(Only(s, SeenRecords)) <=> Apart(s, SeenRecords)
    BY <1>1, ApartIsOne
<1>9. OneOfEach(Only(t, LockLines)) <=> Apart(t, LockLines)
    BY <1>1, ApartIsOne
<1> QED BY <1>5, <1>6, <1>7, <1>8, <1>9 DEF s, t

\* Names that begin with the mark of a joined history end with it.
NameOK(n)  == n # <<>> /\ (Head(n) = Tilde => Last(n) = Tilde)
NamesOK(f) == \A r \in Range(f.recs) : NameOK(r.name)

LEMMA NewNamesOK ==
    /\ \A n \in UserNames : NameOK(n) /\ Head(n) # Tilde /\ n # <<>> /\ Last(n) # Tilde
    /\ \A n \in Seq(Parts) : NameOK(JoinName(n)) /\ Head(JoinName(n)) = Tilde
    /\ \A n \in StalkNames : \A i \in ItemsOf(n) : NameOK(i) /\ Head(i) # Tilde /\ i # <<>> /\ Last(i) # Tilde
<1>0. /\ UserNames \subseteq Seq(Parts) /\ StalkNames \subseteq UserNames
      /\ Nat \subseteq Parts /\ Tilde \in Parts /\ Tilde \notin Nat
      /\ \A n \in UserNames : n # <<>> /\ Tilde \notin Range(n)
    BY NamesAre
<1>1. ASSUME NEW n \in UserNames PROVE n \in Seq(Parts) /\ n # <<>> /\ n[1] # Tilde /\ n[Len(n)] # Tilde /\ Len(n) \in Nat \ {0}
    <2>1. n \in Seq(Parts) /\ n # <<>> /\ Tilde \notin Range(n)
        BY <1>0
    <2>2. 1 \in DOMAIN n /\ Len(n) \in DOMAIN n
        BY <2>1
    <2> QED BY <2>1, <2>2 DEF Range
<1>2. ASSUME NEW n \in UserNames PROVE Head(n) # Tilde /\ n # <<>> /\ Last(n) # Tilde
    BY <1>1 DEF Last
<1>3. ASSUME NEW n \in Seq(Parts) PROVE JoinName(n) # <<>> /\ Head(JoinName(n)) = Tilde /\ Last(JoinName(n)) = Tilde
    <2> DEFINE t == <<Tilde>>
               j == t \o n \o t
               u == t \o n
    <2>1. t \in Seq(Parts) /\ Len(t) = 1 /\ t[1] = Tilde /\ Len(n) \in Nat
        BY <1>0
    <2> HIDE DEF t
    <2>a. u \in Seq(Parts) /\ Len(u) = Len(n) + 1 /\ u[1] = Tilde
        <3>1. u \in Seq(Parts) /\ Len(u) = Len(t) + Len(n)
            BY <2>1, ConcatProperties
        <3>2. u[1] = t[1]
            BY <2>1, ConcatProperties
        <3> QED BY <2>1, <3>1, <3>2
    <2>b. j = u \o t
        OBVIOUS
    <2> HIDE DEF u, j
    <2>c. /\ u \o t \in Seq(Parts) /\ Len(u \o t) = Len(u) + Len(t)
          /\ \A k \in 1..(Len(u) + Len(t)) : (u \o t)[k] = IF k <= Len(u) THEN u[k] ELSE t[k - Len(u)]
        BY <2>1, <2>a, ConcatProperties, Zenon
    <2>2. j \in Seq(Parts) /\ Len(j) = Len(n) + 2
        BY <2>1, <2>a, <2>b, <2>c
    <2>3. j[1] = Tilde /\ j[Len(n) + 2] = Tilde
        <3>1. j[1] = u[1] /\ j[Len(u) + 1] = t[(Len(u) + 1) - Len(u)]
            BY <2>1, <2>a, <2>b, <2>c
        <3>2. Len(u) + 1 = Len(n) + 2 /\ (Len(u) + 1) - Len(u) = 1
            BY <2>1, <2>a
        <3> QED BY <2>1, <2>a, <3>1, <3>2
    <2>4. JoinName(n) = j
        BY DEF JoinName, t, u, j
    <2>5. j # <<>> /\ Head(j) = j[1] /\ Last(j) = j[Len(n) + 2]
        BY <2>1, <2>2 DEF Last
    <2> QED BY <2>3, <2>4, <2>5
<1>4. ASSUME NEW n \in StalkNames, NEW i \in ItemsOf(n) PROVE Head(i) # Tilde /\ i # <<>> /\ Last(i) # Tilde
    <2>1. PICK k \in Nat : i = Append(n, k)
        BY DEF ItemsOf
    <2>2. n \in Seq(Parts) /\ Len(n) \in Nat \ {0} /\ n[1] # Tilde /\ k \in Parts
        BY <1>0, <1>1
    <2>3. i \in Seq(Parts) /\ Len(i) = Len(n) + 1 /\ i[1] = n[1] /\ i[Len(n) + 1] = k
        BY <2>1, <2>2
    <2>4. i # <<>> /\ Head(i) = i[1] /\ Last(i) = i[Len(n) + 1]
        BY <2>2, <2>3 DEF Last
    <2> QED BY <1>0, <2>2, <2>3, <2>4
<1> QED BY <1>2, <1>3, <1>4 DEF NameOK

\* A renamed variable: the first k parts stay, the ending n becomes m.
Replaced(n, m, x, y, k) ==
    /\ k \in Nat /\ Len(x) = k + Len(n) /\ y \in Seq(Parts) /\ Len(y) = k + Len(m)
    /\ \A i \in 1..k : y[i] = x[i]
    /\ \A i \in 1..Len(m) : y[k + i] = m[i]
    /\ \A i \in 1..Len(n) : x[k + i] = n[i]

LEMMA EndInParts ==
    ASSUME NEW n \in Seq(Parts), NEW m \in Seq(Parts), NEW x \in Seq(Parts), IsSuffix(n, x)
    PROVE  Replaced(n, m, x, EndIn(n, m, x), Len(x) - Len(n))
<1> DEFINE k == Len(x) - Len(n)
           u == SubSeq(x, 1, k)
<1>1. Ends(n, x) /\ Len(n) \in Nat /\ Len(x) \in Nat /\ Len(m) \in Nat
    BY SuffixEnds
<1>2. k \in Nat /\ k <= Len(x) /\ Len(x) = k + Len(n)
    BY <1>1 DEF Ends
<1>3. \A i \in 1..Len(n) : x[k + i] = n[i]
    BY <1>1 DEF Ends
<1>4. u \in Seq(Parts) /\ Len(u) = k /\ \A i \in 1..k : u[i] = x[i]
    <2>1. u = [i \in 1..k |-> x[i]]
        BY <1>2
    <2>2. \A i \in 1..k : x[i] \in Parts
        BY <1>2
    <2> HIDE DEF u, k
    <2> QED BY <1>2, <2>1, <2>2
<1> HIDE DEF u, k
<1>5. /\ u \o m \in Seq(Parts) /\ Len(u \o m) = k + Len(m)
      /\ \A i \in 1..k : (u \o m)[i] = x[i]
      /\ \A i \in 1..Len(m) : (u \o m)[k + i] = m[i]
    <2>1. /\ u \o m \in Seq(Parts) /\ Len(u \o m) = Len(u) + Len(m)
          /\ \A i \in 1..(Len(u) + Len(m)) : (u \o m)[i] = IF i <= Len(u) THEN u[i] ELSE m[i - Len(u)]
        BY <1>4, ConcatProperties, Zenon
    <2>2. \A i \in 1..k : i \in 1..(k + Len(m)) /\ i <= k
        BY <1>1, <1>2
    <2>3. \A i \in 1..Len(m) : k + i \in 1..(k + Len(m)) /\ ~(k + i <= k) /\ (k + i) - k = i
        BY <1>1, <1>2
    <2> QED BY <1>4, <2>1, <2>2, <2>3
<1>6. EndIn(n, m, x) = u \o m
    BY DEF EndIn, u, k
<1> QED BY <1>2, <1>3, <1>5, <1>6 DEF k, Replaced

LEMMA EndInName ==
    ASSUME NEW n \in Seq(Parts), NEW m \in Seq(Parts), NEW x \in Seq(Parts), IsSuffix(n, x),
           n # <<>>, m # <<>>, Last(n) # Tilde, Head(m) # Tilde, NameOK(x)
    PROVE  Head(x) # Tilde /\ NameOK(EndIn(n, m, x)) /\ Head(EndIn(n, m, x)) # Tilde
<1> DEFINE k == Len(x) - Len(n)
           y == EndIn(n, m, x)
<1>0. Replaced(n, m, x, y, k)
    BY EndInParts
<1> HIDE DEF k, y
<1>1. /\ k \in Nat /\ Len(x) = k + Len(n) /\ y \in Seq(Parts) /\ Len(y) = k + Len(m)
      /\ \A i \in 1..k : y[i] = x[i]
      /\ \A i \in 1..Len(m) : y[k + i] = m[i]
      /\ \A i \in 1..Len(n) : x[k + i] = n[i]
    BY <1>0 DEF Replaced
<1>2. Len(n) \in Nat \ {0} /\ Len(m) \in Nat \ {0} /\ Head(m) = m[1] /\ Last(n) = n[Len(n)]
    BY DEF Last
<1>3. Last(x) = Last(n)
    <2>1. Len(n) \in 1..Len(n)
        BY <1>2
    <2>2. x[k + Len(n)] = n[Len(n)]
        BY <1>1, <2>1
    <2> QED BY <1>1, <1>2, <2>2 DEF Last
<1>4. Head(x) # Tilde
    BY <1>3 DEF NameOK
<1>5. y # <<>> /\ Head(y) = y[1] /\ Head(x) = x[1]
    <2>1. Len(y) \in Nat /\ Len(y) # 0 /\ Len(x) # 0
        BY <1>1, <1>2
    <2> QED BY <1>1, <2>1
<1>6. y[1] # Tilde
    <2>1. CASE k = 0
        <3>1. 1 \in 1..Len(m) /\ k + 1 = 1
            BY <1>2, <2>1
        <3> QED BY <1>1, <1>2, <3>1
    <2>2. CASE k # 0
        BY <1>1, <1>4, <1>5, <2>2
    <2> QED BY <2>1, <2>2
<1> QED BY <1>4, <1>5, <1>6 DEF NameOK, y

\* And comes from one name only.
LEMMA EndInOne ==
    ASSUME NEW n \in Seq(Parts), NEW m \in Seq(Parts), NEW x \in Seq(Parts), NEW z \in Seq(Parts),
           IsSuffix(n, x), IsSuffix(n, z)
    PROVE  EndIn(n, m, x) = EndIn(n, m, z) => x = z
<1> DEFINE k == Len(x) - Len(n)
           l == Len(z) - Len(n)
           y == EndIn(n, m, x)
           w == EndIn(n, m, z)
<1>0. Len(n) \in Nat /\ Len(m) \in Nat /\ Len(x) \in Nat /\ Len(z) \in Nat
    OBVIOUS
<1>1. Replaced(n, m, x, y, k)
    BY EndInParts
<1>2. Replaced(n, m, z, w, l)
    BY EndInParts
<1> HIDE DEF k, l, y, w
<1> SUFFICES ASSUME y = w PROVE x = z
    BY DEF y, w
<1>3. k = l /\ Len(x) = Len(z)
    <2>1. k + Len(m) = l + Len(m)
        BY <1>1, <1>2 DEF Replaced
    <2>2. k = l
        BY <1>0, <1>1, <1>2, <2>1 DEF Replaced
    <2> QED BY <1>1, <1>2, <2>2 DEF Replaced
<1>4. ASSUME NEW i \in 1..Len(x) PROVE x[i] = z[i]
    <2>1. CASE i \in 1..k
        BY <1>1, <1>2, <1>3, <2>1 DEF Replaced
    <2>2. CASE i \notin 1..k
        <3>1. i - k \in 1..Len(n) /\ k + (i - k) = i
            BY <1>0, <1>1, <2>2 DEF Replaced
        <3>2. x[k + (i - k)] = n[i - k] /\ z[k + (i - k)] = n[i - k]
            BY <1>1, <1>2, <1>3, <3>1 DEF Replaced
        <3> QED BY <3>1, <3>2
    <2> QED BY <2>1, <2>2
<1> QED BY <1>3, <1>4

\* What a call makes of the records: names of the form, and one record of a name unless it
\* collides.
RecordsGo(f, c, g) ==
    /\ NamesOK(g)
    /\ Apart(f.recs, SeenRecords) /\ ~Collides(f, c) => Apart(g.recs, SeenRecords)

\* A name that no record has.
LEMMA NoSuchName ==
    ASSUME NEW f, FileOK(f), NEW n \in Seq(Parts)
    PROVE  /\ ~Exists(f, n) /\ Record(n, Core) \notin Range(f.recs) => n \notin Names(f)
           /\ ~Found(f, n) => ~Exists(f, n)
<1>1. Range(f.recs) \subseteq FileRecords
    BY DEF FileOK, FileTypes, Range
<1>2. ASSUME NEW r \in Range(f.recs), r.name = n, r.val = Core PROVE r = Record(n, Core)
    BY <1>1, <1>2 DEF FileRecords, Record
<1>3. ASSUME NEW r \in Range(f.recs), r.name = n, r.val # Core PROVE Exists(f, n) /\ Found(f, n)
    <2>1. IsSuffix(n, n)
        BY EndsItself
    <2> QED BY <1>3, <2>1 DEF Exists, Found, Meets
<1> QED BY <1>2, <1>3 DEF Names, Exists

\* A record added.
LEMMA RecordAdded ==
    ASSUME NEW f, FileOK(f), NamesOK(f), NEW n \in Seq(Parts), NEW p \in Seq(Payload), NameOK(n),
           NEW g, g.recs = Append(f.recs, Record(n, p)),
           NEW c, ~Collides(f, c) => Head(n) = Tilde \/ n \notin Names(f)
    PROVE  RecordsGo(f, c, g)
<1> DEFINE r == Record(n, p)
           s == f.recs
<1>1. s \in Seq(FileRecords) /\ r \in FileRecords /\ r.name = n
    BY RecordIs DEF FileOK, FileTypes
<1> HIDE DEF r, s
<1>2. Range(g.recs) = Range(s) \cup {r}
    <2>1. \A t \in Seq(FileRecords), x \in FileRecords : Range(Append(t, x)) = Range(t) \cup {x}
        BY RangeAppend, Zenon
    <2>2. Range(Append(s, r)) = Range(s) \cup {r}
        BY <1>1, <2>1
    <2> QED BY <2>2 DEF r, s
<1>3. NamesOK(g)
    BY <1>1, <1>2 DEF NamesOK, s
<1>4. ASSUME Apart(s, SeenRecords), ~Collides(f, c) PROVE Apart(Append(s, r), SeenRecords)
    <2>1. CASE Head(n) = Tilde
        <3>1. r \notin SeenRecords
            BY <1>1, <2>1 DEF SeenRecords, Opaque
        <3> QED BY <1>1, <1>4, <3>1, ApartAppend
    <2>2. CASE n \notin Names(f)
        <3>1. \A i \in DOMAIN s : s[i].name # r.name
            BY <1>1, <2>2 DEF Names, Range, s
        <3> QED BY <1>1, <1>4, <3>1, ApartAppend
    <2> QED BY <1>4, <2>1, <2>2
<1> QED BY <1>3, <1>4 DEF RecordsGo, r, s

\* Records that keep their names.
LEMMA RecordsNamed ==
    ASSUME NEW f, NamesOK(f), NEW g, NEW c, DOMAIN g.recs = DOMAIN f.recs,
           \A i \in DOMAIN f.recs : f.recs[i] \in FileRecords /\ g.recs[i] \in FileRecords /\ g.recs[i].name = f.recs[i].name
    PROVE  RecordsGo(f, c, g)
<1>1. \A i \in DOMAIN f.recs : g.recs[i] \in SeenRecords => f.recs[i] \in SeenRecords
    BY DEF SeenRecords, Opaque
<1>2. Apart(f.recs, SeenRecords) => Apart(g.recs, SeenRecords)
    BY <1>1, ApartNamed
<1>3. NamesOK(g)
    BY DEF NamesOK, Range
<1> QED BY <1>2, <1>3 DEF RecordsGo

\* Records taken out.
LEMMA RecordsTaken ==
    ASSUME NEW f, FileOK(f), NamesOK(f), NEW g, NEW c, NEW gone, g.recs = Without(f.recs, gone)
    PROVE  RecordsGo(f, c, g)
<1> DEFINE s == f.recs
<1>1. s \in Seq(FileRecords)
    BY DEF FileOK, FileTypes
<1>2. Range(g.recs) \subseteq Range(s)
    <2>1. Range(Only(s, Range(s) \ gone)) = Range(s) \cap (Range(s) \ gone)
        BY <1>1, OnlyRange, Zenon
    <2> QED BY <2>1 DEF Without
<1>3. NamesOK(g)
    BY <1>2 DEF NamesOK
<1> HIDE DEF s
<1>4. Apart(s, SeenRecords) => Apart(Without(s, gone), SeenRecords)
    BY <1>1, ApartWithout
<1> QED BY <1>3, <1>4 DEF RecordsGo, s

\* Records renamed.
LEMMA RecordsRenamed ==
    ASSUME NEW f, FileOK(f), NamesOK(f), NEW n \in UserNames \cup AllItems(f), NEW m \in UserNames, NEW g, FileOK(g),
           NEW c, ~Collides(f, c) => \A r \in Range(f.recs) : Meets(n, r) => EndIn(n, m, r.name) \notin Names(f),
           DOMAIN g.recs = DOMAIN f.recs,
           \A i \in DOMAIN f.recs :
              g.recs[i] = IF Meets(n, f.recs[i]) /\ f.recs[i].val = Value(f, n)
                          THEN Record(EndIn(n, m, f.recs[i].name), f.recs[i].val) ELSE f.recs[i]
    PROVE  RecordsGo(f, c, g)
<1> DEFINE Changed(i) == Meets(n, f.recs[i]) /\ f.recs[i].val = Value(f, n)
<1>1. n \in Seq(Parts) /\ n # <<>> /\ Last(n) # Tilde
    <2>1. CASE n \in UserNames
        BY <2>1, NewNamesOK, NamesAre
    <2>2. CASE n \in AllItems(f)
        <3>1. PICK k \in DOMAIN f.hist : n \in ItemsOf(k)
            BY <2>2, HistoryIs
        <3>2. k \in StalkNames /\ n \in Seq(Parts)
            BY <2>2, HistoryIs
        <3> QED BY <3>1, <3>2, NewNamesOK
    <2> QED BY <2>1, <2>2
<1>2. m \in Seq(Parts) /\ m # <<>> /\ Head(m) # Tilde
    BY NewNamesOK, NamesAre
<1>3. \A i \in DOMAIN f.recs : /\ f.recs[i] \in FileRecords /\ g.recs[i] \in FileRecords
                               /\ f.recs[i].name \in Seq(Parts) /\ NameOK(f.recs[i].name)
                               /\ f.recs[i].name \in Names(f) /\ f.recs[i] \in Range(f.recs)
    <2>1. \A i \in DOMAIN f.recs : f.recs[i] \in FileRecords /\ g.recs[i] \in FileRecords
        BY DEF FileOK, FileTypes
    <2>2. \A r \in FileRecords : r.name \in Seq(Parts)
        BY DEF FileRecords
    <2> QED BY <2>1, <2>2 DEF NamesOK, Range, Names
<1>4. ASSUME NEW i \in DOMAIN f.recs, Changed(i)
      PROVE  /\ g.recs[i].name = EndIn(n, m, f.recs[i].name) /\ IsSuffix(n, f.recs[i].name)
             /\ NameOK(g.recs[i].name) /\ f.recs[i] \in SeenRecords /\ Meets(n, f.recs[i])
    <2>1. IsSuffix(n, f.recs[i].name) /\ g.recs[i] = Record(EndIn(n, m, f.recs[i].name), f.recs[i].val)
        BY <1>4 DEF Meets
    <2>2. g.recs[i].name = EndIn(n, m, f.recs[i].name)
        BY <2>1 DEF Record
    <2>3. Head(f.recs[i].name) # Tilde /\ NameOK(EndIn(n, m, f.recs[i].name))
        BY <1>1, <1>2, <1>3, <2>1, EndInName
    <2> QED BY <1>3, <1>4, <2>1, <2>2, <2>3 DEF SeenRecords, Opaque
<1>5. ASSUME NEW i \in DOMAIN f.recs, ~Changed(i) PROVE g.recs[i] = f.recs[i]
    BY <1>5
<1> HIDE DEF Changed
<1>6. NamesOK(g)
    <2>1. \A i \in DOMAIN f.recs : NameOK(g.recs[i].name)
        BY <1>3, <1>4, <1>5
    <2> QED BY <2>1 DEF NamesOK, Range
<1>7. ASSUME Apart(f.recs, SeenRecords), ~Collides(f, c), NEW i \in DOMAIN f.recs, NEW j \in DOMAIN f.recs,
             i # j, g.recs[i] \in SeenRecords, g.recs[j] \in SeenRecords
      PROVE  g.recs[i].name # g.recs[j].name
    <2>0. f.recs[i] \in SeenRecords /\ f.recs[j] \in SeenRecords /\ f.recs[i].name # f.recs[j].name
        <3>1. f.recs[i] \in SeenRecords /\ f.recs[j] \in SeenRecords
            BY <1>4, <1>5, <1>7
        <3> QED BY <1>7, <3>1 DEF Apart
    <2>1. CASE Changed(i) /\ Changed(j)
        <3>1. /\ g.recs[i].name = EndIn(n, m, f.recs[i].name) /\ IsSuffix(n, f.recs[i].name)
              /\ g.recs[j].name = EndIn(n, m, f.recs[j].name) /\ IsSuffix(n, f.recs[j].name)
            BY <1>4, <2>1
        <3>2. EndIn(n, m, f.recs[i].name) # EndIn(n, m, f.recs[j].name)
            BY <1>1, <1>2, <1>3, <2>0, <3>1, EndInOne
        <3> QED BY <3>1, <3>2
    <2>2. CASE Changed(i) /\ ~Changed(j)
        BY <1>3, <1>4, <1>5, <1>7, <2>2
    <2>3. CASE ~Changed(i) /\ Changed(j)
        BY <1>3, <1>4, <1>5, <1>7, <2>3
    <2>4. CASE ~Changed(i) /\ ~Changed(j)
        BY <1>5, <2>0, <2>4
    <2> QED BY <2>1, <2>2, <2>3, <2>4
<1>8. Apart(f.recs, SeenRecords) /\ ~Collides(f, c) => Apart(g.recs, SeenRecords)
    BY <1>7 DEF Apart
<1> QED BY <1>6, <1>8 DEF RecordsGo

\* What a call makes of the lock records: one of a name, unless it collides.
LinesGo(f, c, g) == Apart(f.lines, LockLines) /\ ~Collides(f, c) => Apart(g.lines, LockLines)

LEMMA LinesStay == ASSUME NEW f, NEW c, NEW g, g.lines = f.lines PROVE LinesGo(f, c, g)
BY DEF LinesGo

\* Locks taken out.
LEMMA LinesTaken ==
    ASSUME NEW f, NEW c, NEW h, FileOK(h), h.lines = f.lines, NEW ns, DOMAIN ns = 1..Len(ns), Len(ns) \in Nat
    PROVE  LinesGo(f, c, WithoutLocks(h, ns))
<1> DEFINE g == WithoutLocks(h, ns)
<1>1. h \in FileTypes /\ h.lines # <<>>
    BY DEF FileOK
<1>2. PICK s \in Seq(FileLines) :
         /\ g = [h EXCEPT !.lines = s]
         /\ \A S : BlankLine \notin S /\ Apart(h.lines, S) => Apart(s, S)
    BY <1>1, WithoutLocksKeep
<1>3. g.lines = s
    BY <1>1, <1>2 DEF FileTypes
<1> HIDE DEF g
<1>4. BlankLine \notin LockLines
    BY LockLinesAre
<1>5. LinesGo(f, c, g)
    BY <1>2, <1>3, <1>4 DEF LinesGo
<1> QED BY <1>5 DEF g

\* A lock record written over the first of its name, or added where there is none.
LEMMA LinesWritten ==
    ASSUME NEW f, FileOK(f), NEW c, NEW g, NEW n \in Seq(Parts), NEW o \in Seq(LockOps \cup Seq(Parts)),
           \/ HasLock(f.lines, n) /\ g.lines = ReplaceAllLines(f.lines, LockOf(f.lines, n), Lock(n, o))
           \/ ~HasLock(f.lines, n) /\ g.lines = Append(f.lines, Lock(n, o))
    PROVE  LinesGo(f, c, g)
<1> DEFINE s == f.lines
           new == Lock(n, o)
           old == LockOf(s, n)
<1>1. s \in Seq(FileLines) /\ \A i \in DOMAIN s : s[i] \in FileLines
    BY DEF FileOK, FileTypes
<1>2. new \in FileLines /\ new.name = n
    BY LockIn
<1>3. /\ HasLock(s, n) => old.name = n /\ old \in LockLines
      /\ ~HasLock(s, n) => \A i \in DOMAIN s : ~(IsLock(s[i]) /\ s[i].name = n)
    BY <1>1, LockIs
<1>4. CASE HasLock(s, n) /\ g.lines = ReplaceAllLines(s, old, new)
    <2>1. /\ DOMAIN g.lines = DOMAIN s
          /\ \A i \in DOMAIN s : g.lines[i] = IF s[i] = old THEN new ELSE s[i]
        BY <1>4 DEF ReplaceAllLines
    <2> HIDE DEF new, old, s
    <2>2. \A i \in DOMAIN s : g.lines[i].name = s[i].name /\ (g.lines[i] \in LockLines => s[i] \in LockLines)
        BY <1>2, <1>3, <1>4, <2>1
    <2>3. Apart(s, LockLines) => Apart(g.lines, LockLines)
        BY <2>1, <2>2, ApartNamed
    <2> QED BY <2>3 DEF LinesGo, s
<1>5. CASE ~HasLock(s, n) /\ g.lines = Append(s, new)
    <2>1. \A i \in DOMAIN s : s[i] \in LockLines => s[i].name # new.name
        BY <1>2, <1>3, <1>5, LockLinesAre
    <2> HIDE DEF new, old, s
    <2>2. Apart(s, LockLines) => Apart(Append(s, new), LockLines)
        BY <1>1, <1>2, <2>1, ApartAppend
    <2> QED BY <1>5, <2>2 DEF LinesGo, s
<1> QED BY <1>4, <1>5

\* A lock record renamed.
LEMMA LinesRenamed ==
    ASSUME NEW f, FileOK(f), NEW c, NEW g, NEW n, NEW m,
           ~Collides(f, c) => ~(HasLock(f.lines, n) /\ HasLock(f.lines, m)),
           DOMAIN g.lines = DOMAIN f.lines,
           \A i \in DOMAIN f.lines :
              g.lines[i] = IF IsLock(f.lines[i]) /\ f.lines[i].name = n THEN Lock(m, f.lines[i].ops) ELSE f.lines[i]
    PROVE  LinesGo(f, c, g)
<1> SUFFICES ASSUME Apart(f.lines, LockLines), ~Collides(f, c),
                    NEW i \in DOMAIN f.lines, NEW j \in DOMAIN f.lines, i # j,
                    g.lines[i] \in LockLines, g.lines[j] \in LockLines
             PROVE  g.lines[i].name # g.lines[j].name
    BY DEF LinesGo, Apart
<1>1. f.lines \in Seq(FileLines) /\ \A k \in DOMAIN f.lines : f.lines[k] \in FileLines
    BY DEF FileOK, FileTypes
<1>2. \A k \in DOMAIN f.lines : IsLock(f.lines[k]) <=> f.lines[k] \in LockLines
    BY <1>1, LockLinesAre
<1>3. \A x : (\E k \in DOMAIN f.lines : IsLock(f.lines[k]) /\ f.lines[k].name = x) <=> HasLock(f.lines, x)
    BY <1>1, LockIs
<1>4. \A k \in DOMAIN f.lines : g.lines[k] \in LockLines =>
         /\ IsLock(f.lines[k])
         /\ g.lines[k].name = IF f.lines[k].name = n THEN m ELSE f.lines[k].name
    <2> SUFFICES ASSUME NEW k \in DOMAIN f.lines, g.lines[k] \in LockLines
                 PROVE  /\ IsLock(f.lines[k])
                        /\ g.lines[k].name = IF f.lines[k].name = n THEN m ELSE f.lines[k].name
        OBVIOUS
    <2>1. \A o : Lock(m, o).name = m
        BY DEF Lock
    <2>2. CASE IsLock(f.lines[k]) /\ f.lines[k].name = n
        <3>1. g.lines[k] = Lock(m, f.lines[k].ops)
            BY <2>2
        <3> QED BY <2>1, <2>2, <3>1
    <2>3. CASE ~(IsLock(f.lines[k]) /\ f.lines[k].name = n)
        <3>1. g.lines[k] = f.lines[k]
            BY <2>3
        <3> QED BY <1>2, <2>3, <3>1
    <2> QED BY <2>2, <2>3
<1>5. IsLock(f.lines[i]) /\ IsLock(f.lines[j]) /\ f.lines[i].name # f.lines[j].name
    BY <1>2, <1>4 DEF Apart
<1>6. ~(HasLock(f.lines, n) /\ HasLock(f.lines, m))
    OBVIOUS
<1> QED BY <1>3, <1>4, <1>5, <1>6

\* A lock record written anew at the end.
LEMMA LinesWrittenAgain ==
    ASSUME NEW f, FileOK(f), NEW c, NEW g, NEW n \in Seq(Parts), NEW o \in Seq(LockOps \cup Seq(Parts)),
           ~Collides(f, c) => ~(IsLock(Head(f.lines)) /\ Head(f.lines).name = n),
           g.lines = WrittenAgain(f, n, o)
    PROVE  LinesGo(f, c, g)
<1> DEFINE s == f.lines
           mine == OwnLocks(f, n)
           rest == Tail(s)
           first == <<Head(s)>>
           old == Without(rest, mine)
           new == Lock(n, o)
           T == {l \in LockLines : l.name # n}
<1>1. s \in Seq(FileLines) /\ s # <<>>
    BY DEF FileOK, FileTypes
<1>2. new \in FileLines /\ new.name = n
    BY LockIn
<1>3. rest \in Seq(FileLines) /\ first \in Seq(FileLines) /\ s = first \o rest /\ Head(s) = s[1] /\ 1 \in DOMAIN s
    <2>1. Head(s) \in FileLines /\ Tail(s) \in Seq(FileLines)
        BY <1>1
    <2>2. s = <<Head(s)>> \o Tail(s)
        BY <1>1
    <2> QED BY <1>1, <2>1, <2>2
<1>4. g.lines = first \o Append(old, new)
    BY DEF WrittenAgain
<1>5. mine \subseteq LockLines /\ \A l \in mine : l.name = n
    BY <1>1, LockIs DEF OwnLocks
<1>6. Range(rest) \subseteq Range(s)
    <2>1. Range(first \o rest) = Range(first) \cup Range(rest)
        BY <1>3, LinesRange
    <2> QED BY <1>3, <2>1
<1> SUFFICES ASSUME Apart(s, LockLines), ~Collides(f, c) PROVE Apart(g.lines, LockLines)
    BY DEF LinesGo
\* All that is of the name n is what is taken out.
<1>7. \A l \in Range(s) : l \in LockLines /\ l.name = n => l \in mine
    <2> SUFFICES ASSUME NEW k \in DOMAIN s, s[k] \in LockLines, s[k].name = n PROVE s[k] \in mine
        BY DEF Range
    <2>1. HasLock(s, n)
        BY <1>1, LockIs, LockLinesAre
    <2>2. LockIndex(s, n) \in DOMAIN s /\ LockOf(s, n) = s[LockIndex(s, n)] /\ LockOf(s, n).name = n
          /\ LockOf(s, n) \in LockLines
        BY <1>1, <2>1, LockIs
    <2>3. k = LockIndex(s, n)
        BY <2>2 DEF Apart
    <2> QED BY <2>1, <2>2, <2>3 DEF OwnLocks
<1>8. Head(s) \in LockLines => Head(s).name # n
    BY LockLinesAre
<1> HIDE DEF mine, rest, first, new, s
<1>9. old \in Seq(FileLines) /\ Range(old) = Range(rest) \ mine
    <2>1. Only(rest, Range(rest) \ mine) \in Seq(FileLines)
        BY <1>3, OnlySeq
    <2>2. Range(Only(rest, Range(rest) \ mine)) = Range(rest) \cap (Range(rest) \ mine)
        BY <1>3, OnlyRange
    <2> QED BY <2>1, <2>2 DEF Without
<1>10. \A l \in Range(old) : l \in LockLines => l.name # n
    BY <1>6, <1>7, <1>9
\* Without it the section is as it was.
<1>11. Only(first \o old, LockLines) = Only(s, T)
    <2>1. Only(first \o old, LockLines) = Only(first, LockLines) \o Only(old, LockLines)
        BY <1>3, <1>9, OnlyConcat
    <2>2. Only(s, T) = Only(first, T) \o Only(rest, T)
        BY <1>3, OnlyConcat
    <2>3. Only(first, LockLines) = Only(first, T)
        <3>1. Range(first) = {Head(s)}
            BY DEF first, Range
        <3>2. LockLines \cap Range(first) = T \cap Range(first)
            BY <1>8, <3>1
        <3> QED BY <3>2, OnlyOfRange
    <2>4. Only(old, LockLines) = Only(old, T)
        <3>1. LockLines \cap Range(old) = T \cap Range(old)
            BY <1>10
        <3> QED BY <3>1, OnlyOfRange
    <2>5. Only(old, T) = Only(rest, T)
        <3>1. mine \cap T = {}
            BY <1>5
        <3> HIDE DEF T
        <3> QED BY <1>3, <3>1, OnlyWithout
    <2> QED BY <2>1, <2>2, <2>3, <2>4, <2>5
<1> HIDE DEF old
<1>12. first \o old \in Seq(FileLines)
    BY <1>3, <1>9
<1>13. Apart(s, T)
    BY DEF Apart
<1> HIDE DEF T
<1>14. OneOfEach(Only(s, T))
    BY <1>1, <1>13, ApartIsOne
<1> DEFINE w == first \o old
<1>15. Apart(w, LockLines) /\ w \in Seq(FileLines)
    BY <1>11, <1>12, <1>14, ApartIsOne
<1>16. \A i \in DOMAIN w : w[i] \in LockLines => w[i].name # n
    <2>1. Range(w) = Range(first) \cup Range(old)
        BY <1>3, <1>9, LinesRange
    <2>2. Range(first) = {Head(s)}
        BY DEF first, Range
    <2> HIDE DEF w
    <2>3. \A i \in DOMAIN w : w[i] \in Range(w)
        BY DEF Range
    <2> QED BY <1>8, <1>10, <2>1, <2>2, <2>3
<1>17. g.lines = Append(w, new)
    BY <1>2, <1>3, <1>4, <1>9
<1> HIDE DEF w
<1> QED BY <1>2, <1>15, <1>16, <1>17, ApartAppend

\* Records added by appvar.
LEMMA RecordsAppended ==
    ASSUME NEW f, FileOK(f), NamesOK(f), NEW c, NEW g, NEW ns \in SetToAllKPermutations(UserNames),
           NEW vs \in {<<>>} \cup {<<v>> : v \in Values}, AppendsRecords(f, ns, vs, g), Range(ns) \cap Names(f) = {}
    PROVE  RecordsGo(f, c, g)
<1> DEFINE s == f.recs
           t == Appended(ns, vs)
<1>1. s \in Seq(FileRecords) /\ t \in Seq(FileRecords) /\ g.recs = s \o t
    BY AppendedAre DEF FileOK, FileTypes, AppendsRecords
<1>2. /\ ns \in Seq(UserNames) /\ DOMAIN t = DOMAIN ns
      /\ \A i \in DOMAIN ns : t[i].name = ns[i]
      /\ \A i, j \in DOMAIN ns : i # j => ns[i] # ns[j]
    BY AppendedAre
<1>3. \A i \in DOMAIN s, j \in DOMAIN t : s[i].name # t[j].name
    BY <1>2 DEF Range, Names
<1>a. \A n \in UserNames : NameOK(n)
    BY NewNamesOK
<1>4. \A i \in DOMAIN t : NameOK(t[i].name)
    BY <1>a, <1>2
<1>b. \A r \in Range(s) : NameOK(r.name)
    BY DEF NamesOK
<1> HIDE DEF s, t
<1>5. Apart(t, SeenRecords)
    BY <1>2 DEF Apart
<1>6. Apart(s, SeenRecords) => Apart(s \o t, SeenRecords)
    BY <1>1, <1>3, <1>5, ApartConcat
<1>7. Range(g.recs) = Range(s) \cup Range(t)
    BY <1>1, ConcatRange
<1>8. NamesOK(g)
    <2>1. \A r \in Range(t) : NameOK(r.name)
        BY <1>4 DEF Range
    <2> QED BY <1>b, <1>7, <2>1 DEF NamesOK
<1> QED BY <1>1, <1>6, <1>8 DEF RecordsGo, s

\* Records and locks of one name only, and no colons that belong to nothing.
GoesOn(f, c, g) ==
    /\ RecordsGo(f, c, g) /\ LinesGo(f, c, g)
    /\ ~f.stray /\ ~Collides(f, c) => ~g.stray

\* Whatever the call.
LEMMA CallGoesOn ==
    ASSUME NEW f, FileOK(f), NamesOK(f), NEW c \in Calls(f), NEW g \in Results(f, c) PROVE GoesOn(f, c, g)
<1>0. UserNames \cup AllItems(f) \subseteq Seq(Parts) /\ StalkNames \subseteq UserNames /\ UserNames \subseteq Seq(Parts)
    BY HistoryIs, NamesAre
<1>t. f \in FileTypes /\ \A i \in DOMAIN f.recs : f.recs[i] \in FileRecords
    BY DEF FileOK, FileTypes
<1>g. FileOK(g) /\ \A i \in DOMAIN g.recs : g.recs[i] \in FileRecords
    BY FormStays DEF FileOK, FileTypes
<1>k. /\ \A n \in UserNames : NameOK(n)
      /\ \A n \in Seq(Parts) : NameOK(JoinName(n)) /\ Head(JoinName(n)) = Tilde
    BY NewNamesOK
<1>a. ASSUME NEW n \in Seq(Parts), NEW p \in Seq(Payload), NameOK(n), g = Add(f, n, p),
             ~Collides(f, c) => Head(n) = Tilde \/ n \notin Names(f)
      PROVE  GoesOn(f, c, g)
    <2>1. g.recs = Append(f.recs, Record(n, p)) /\ g.lines = f.lines /\ g.stray = f.stray
        BY <1>t, <1>a DEF Add, FileTypes
    <2>2. RecordsGo(f, c, g)
        BY <1>a, <2>1, RecordAdded
    <2>3. LinesGo(f, c, g)
        BY <2>1, LinesStay
    <2> QED BY <2>1, <2>2, <2>3 DEF GoesOn
<1>r. ASSUME NEW n \in DOMAIN f.hist, NEW gone \in Seq(Seq(Parts)), g = Unstalked(f, n, gone)
      PROVE  GoesOn(f, c, g)
    <2> DEFINE items == Range(gone)
               h == Unstalk(f, n, items)
               out == {Record(i, Value(f, i)) : i \in items}
    <2>1. TakesOut(f, n, items, g)
        BY <1>r, UnstalkedForm
    <2>2. TakesOut(f, n, items, h) /\ h.lines = f.lines
        BY UnstalkIs
    <2>3. DOMAIN gone = 1..Len(gone) /\ Len(gone) \in Nat
        OBVIOUS
    <2>4. g = WithoutLocks(h, gone)
        BY <1>r DEF Unstalked
    <2>5. FileOK(h)
        BY <2>2 DEF TakesOut
    <2> HIDE DEF h
    <2>6. LinesGo(f, c, g)
        BY <2>2, <2>3, <2>4, <2>5, LinesTaken
    <2>7. g.recs = Without(f.recs, out) /\ g.stray = f.stray
        BY <2>1 DEF TakesOut
    <2> HIDE DEF items, out
    <2>8. RecordsGo(f, c, g)
        BY <2>7, RecordsTaken
    <2> QED BY <2>6, <2>7, <2>8 DEF GoesOn
\* Records as they were.
<1>e. ASSUME g.recs = f.recs PROVE RecordsGo(f, c, g)
    BY <1>e, <1>t, <1>g, RecordsNamed
<1>s. ASSUME g.recs = f.recs, g.lines = f.lines, g.stray = f.stray PROVE GoesOn(f, c, g)
    BY <1>e, <1>s, LinesStay DEF GoesOn
<1>1. CASE c.op = "addvar" /\ c.name \in UserNames /\ c.val \in Values /\ g \in AddVar(f, c.name, c.val)
    <2>1. g = Add(f, c.name, <<c.val>>) /\ ~Exists(f, c.name)
        BY <1>1 DEF AddVar, When
    <2>2. ~Collides(f, c) => Record(c.name, Core) \notin Range(f.recs)
        BY <1>1 DEF Collides
    <2>3. ~Collides(f, c) => c.name \notin Names(f)
        BY <1>0, <1>1, <2>1, <2>2, NoSuchName
    <2> QED BY <1>0, <1>1, <1>a, <1>k, <2>1, <2>3, PayloadsAre
<1>2. CASE c.op = "corevar" /\ c.name \in UserNames /\ g \in CoreVar(f, c.name)
    <2>1. g = Add(f, c.name, Core) /\ ~Found(f, c.name)
        BY <1>2 DEF CoreVar, When
    <2>2. ~Collides(f, c) => Record(c.name, Core) \notin Range(f.recs)
        BY <1>2 DEF Collides
    <2>3. ~Collides(f, c) => c.name \notin Names(f)
        BY <1>0, <1>2, <2>1, <2>2, NoSuchName
    <2> QED BY <1>0, <1>2, <1>a, <1>k, <2>1, <2>3, PayloadsAre
<1>3. CASE /\ c.op = "appvar" /\ c.name \in SetToAllKPermutations(UserNames)
           /\ c.val \in {<<>>} \cup {<<v>> : v \in Values} /\ g \in AppVar(f, c.name, c.val)
    <2>1. AppendsRecords(f, c.name, c.val, g) /\ g.lines = f.lines /\ g.stray = f.stray /\ Range(c.name) \cap Names(f) = {}
        BY <1>3, AppVarForm
    <2>2. RecordsGo(f, c, g)
        BY <1>3, <2>1, RecordsAppended
    <2> QED BY <2>1, <2>2, LinesStay DEF GoesOn
<1>4. CASE /\ c.op = "appvar_locks" /\ c.name \in SetToAllKPermutations(UserNames)
           /\ c.on \in UserNames /\ c.lock \in LockOps
           /\ c.val \in {<<v>> : v \in Values} /\ g \in AppVarLocks(f, c.name, c.val, c.on, c.lock)
    <2>1. AppendsRecords(f, c.name, c.val, g) /\ Range(c.name) \cap Names(f) = {}
        BY <1>4, AppVarLocksForm
    <2>2. RecordsGo(f, c, g)
        BY <1>4, <2>1, RecordsAppended
    <2>3. Collides(f, c)
        BY <1>4 DEF Collides
    <2> QED BY <2>2, <2>3 DEF GoesOn, LinesGo
<1>5. CASE c.op = "changevar" /\ c.name \in UserNames \cup AllItems(f) /\ c.val \in Values
           /\ g \in ChangeVar(f, c.name, c.val)
    <2>1. CASE IsRoot(f, c.name)
        <3>1. c.name \in DOMAIN f.hist /\ g \in ChangeRoot(f, c.name, c.val)
            BY <1>5, <2>1 DEF ChangeVar, IsRoot
        <3>2. PICK gone \in Seq(Seq(Parts)) : g = Unstalked(f, c.name, gone)
            BY <1>5, <3>1, ChangeRootForm
        <3> QED BY <1>r, <3>1, <3>2
    <2>2. CASE ~IsRoot(f, c.name)
        <3>1. /\ DOMAIN g.recs = DOMAIN f.recs /\ g.lines = f.lines /\ g.stray = f.stray
              /\ \A i \in DOMAIN f.recs :
                    g.recs[i] = IF Meets(c.name, f.recs[i]) /\ f.recs[i].val = Value(f, c.name)
                                THEN Record(f.recs[i].name, <<c.val>>) ELSE f.recs[i]
            BY <1>5, <2>2, ChangePlainForm DEF ChangeVar
        <3>2. \A n, p : Record(n, p).name = n
            BY DEF Record
        <3>3. \A i \in DOMAIN f.recs : g.recs[i].name = f.recs[i].name
            BY <3>1, <3>2
        <3>4. RecordsGo(f, c, g)
            BY <1>t, <1>g, <3>1, <3>3, RecordsNamed
        <3> QED BY <3>1, <3>4, LinesStay DEF GoesOn
    <2> QED BY <2>1, <2>2
<1>6. CASE c.op = "removevar" /\ c.name \in UserNames \cup AllItems(f) /\ g \in RemoveVar(f, c.name)
    <2> DEFINE n == c.name
               h == WithoutRecord(f, n, Value(f, n))
               one == <<n>>
               out == {Record(n, Value(f, n))}
    <2>1. n \in Seq(Parts)
        BY <1>0, <1>6
    <2>2. \/ g = f
          \/ /\ FileOK(h) /\ h.lines = f.lines /\ g = WithoutLocks(h, one)
             /\ h.recs = Without(f.recs, out) /\ g.recs = h.recs /\ g.stray = f.stray
        BY <1>6, <2>1, RemoveVarForm
    <2>3. DOMAIN one = 1..Len(one) /\ Len(one) \in Nat
        OBVIOUS
    <2> HIDE DEF h, one, n, out
    <2>4. CASE g = f
        BY <1>s, <2>4
    <2>5. CASE /\ FileOK(h) /\ h.lines = f.lines /\ g = WithoutLocks(h, one)
               /\ h.recs = Without(f.recs, out) /\ g.recs = h.recs /\ g.stray = f.stray
        <3>1. LinesGo(f, c, g)
            BY <2>3, <2>5, LinesTaken
        <3>2. RecordsGo(f, c, g)
            BY <2>5, RecordsTaken
        <3> QED BY <2>5, <3>1, <3>2 DEF GoesOn
    <2> QED BY <2>2, <2>4, <2>5
<1>7. CASE /\ c.op = "renamevar_stx" /\ c.name \in UserNames \cup AllItems(f) /\ c.to \in UserNames
           /\ g \in RenameVar(f, c.name, c.to)
    <2>1. c.name \in Seq(Parts)
        BY <1>0, <1>7
    <2>2. /\ DOMAIN g.recs = DOMAIN f.recs /\ DOMAIN g.lines = DOMAIN f.lines /\ g.stray = f.stray
          /\ \A i \in DOMAIN f.recs :
                g.recs[i] = IF Meets(c.name, f.recs[i]) /\ f.recs[i].val = Value(f, c.name)
                            THEN Record(EndIn(c.name, c.to, f.recs[i].name), f.recs[i].val) ELSE f.recs[i]
          /\ \A i \in DOMAIN f.lines :
                g.lines[i] = IF IsLock(f.lines[i]) /\ f.lines[i].name = c.name
                             THEN Lock(c.to, f.lines[i].ops) ELSE f.lines[i]
        BY <1>7, <2>1, RenameVarForm
    <2>3. ~Collides(f, c) =>
             /\ \A r \in Range(f.recs) : Meets(c.name, r) => EndIn(c.name, c.to, r.name) \notin Names(f)
             /\ ~(HasLock(f.lines, c.name) /\ HasLock(f.lines, c.to))
        BY <1>7 DEF Collides
    <2> DEFINE n == c.name
               m == c.to
    <2>4. RecordsGo(f, c, g)
        <3>1. n \in UserNames \cup AllItems(f) /\ m \in UserNames
            BY <1>7
        <3>2. ~Collides(f, c) => \A r \in Range(f.recs) : Meets(n, r) => EndIn(n, m, r.name) \notin Names(f)
            BY <2>3
        <3>3. /\ DOMAIN g.recs = DOMAIN f.recs
              /\ \A i \in DOMAIN f.recs :
                    g.recs[i] = IF Meets(n, f.recs[i]) /\ f.recs[i].val = Value(f, n)
                                THEN Record(EndIn(n, m, f.recs[i].name), f.recs[i].val) ELSE f.recs[i]
            BY <2>2
        <3> HIDE DEF n, m
        <3> QED BY <1>g, <3>1, <3>2, <3>3, RecordsRenamed
    <2>5. LinesGo(f, c, g)
        <3>1. ~Collides(f, c) => ~(HasLock(f.lines, n) /\ HasLock(f.lines, m))
            BY <2>3
        <3>2. /\ DOMAIN g.lines = DOMAIN f.lines
              /\ \A i \in DOMAIN f.lines :
                    g.lines[i] = IF IsLock(f.lines[i]) /\ f.lines[i].name = n
                                 THEN Lock(m, f.lines[i].ops) ELSE f.lines[i]
            BY <2>2
        <3> HIDE DEF n, m
        <3> QED BY <3>1, <3>2, LinesRenamed
    <2> QED BY <2>2, <2>4, <2>5 DEF GoesOn
<1>8. CASE c.op = "renumber" /\ g \in Renumber(f, c.name, c.to)
    <2>1. PICK gone \in Seq(Seq(Parts)) : c.name \in DOMAIN f.hist /\ g = Unstalked(f, c.name, gone)
        BY <1>8, RenumberForm
    <2> QED BY <1>r, <2>1
<1>9. CASE /\ c.op = "joinvars" /\ c.name \in UserNames /\ c.from \in SetToAllKPermutations(UserNames)
           /\ g \in JoinVars(f, c.name, c.from)
    <2>1. c.from \in Seq(UserNames) /\ JoinName(c.name) \in Seq(Parts) /\ c.name \in Seq(Parts)
        BY <1>0, <1>9, SomeOf, JoinNameIs, LegacyConstantsOK DEF LegacyConstantsOK
    <2>2. ~Collides(f, c) => c.name \notin Names(f) \/ IsRoot(f, c.name)
        BY <1>9 DEF Collides
    <2>3. NameOK(c.name) /\ NameOK(JoinName(c.name)) /\ Head(JoinName(c.name)) = Tilde
        BY <1>9, <1>k, <2>1
    <2>4. CASE g = f
        BY <1>s, <2>4
    <2>5. CASE \E p \in Seq(Payload) : ~IsRoot(f, c.name) /\ g = Add(f, c.name, p)
        BY <1>a, <2>1, <2>2, <2>3, <2>5
    <2>6. CASE \E p \in Seq(Payload) : g = Add(f, JoinName(c.name), p)
        BY <1>a, <2>1, <2>3, <2>6
    <2>7. ASSUME NEW p \in Seq(Payload), NEW k \in DOMAIN f.recs, f.recs[k].name = JoinName(c.name),
                 g = [f EXCEPT !.recs[k] = Record(JoinName(c.name), p)]
          PROVE  GoesOn(f, c, g)
        <3>1. g.recs = [f.recs EXCEPT ![k] = Record(JoinName(c.name), p)] /\ g.lines = f.lines /\ g.stray = f.stray
            BY <1>t, <2>7 DEF FileTypes
        <3>2. DOMAIN g.recs = DOMAIN f.recs /\ g.recs[k] = Record(JoinName(c.name), p)
              /\ \A i \in DOMAIN f.recs : i # k => g.recs[i] = f.recs[i]
            BY <3>1
        <3>3. Record(JoinName(c.name), p).name = JoinName(c.name)
            BY DEF Record
        <3>4. \A i \in DOMAIN f.recs : g.recs[i].name = f.recs[i].name
            BY <2>7, <3>2, <3>3
        <3>5. RecordsGo(f, c, g)
            BY <1>t, <1>g, <3>2, <3>4, RecordsNamed
        <3> QED BY <3>1, <3>5, LinesStay DEF GoesOn
    <2> QED BY <1>9, <2>1, <2>4, <2>5, <2>6, <2>7, JoinVarsForm
<1>10. CASE /\ c.op = "lockvar" /\ c.name \in UserNames
            /\ c.locks \in SetToAllKPermutations(LockOps) \ {<<>>} /\ g \in LockVar(f, c.name, c.locks)
    <2> DEFINE n == c.name
    <2>1. WritesLines(f, g)
        BY <1>10, LockVarForm
    <2>2. RecordsGo(f, c, g)
        BY <1>e, <2>1 DEF WritesLines
    <2>3. \/ NullLine \in Range(f.lines) /\ g.lines = <<Lock(n, c.locks)>> /\ g.stray = FALSE
          \/ \E o \in Seq(LockOps \cup Seq(Parts)) :
                o # <<>> /\ g.stray = f.stray /\ g.lines = WrittenAgain(f, n, o)
        <3>1. /\ WritesLines(f, g)
              /\ \/ NullLine \in Range(f.lines) /\ g.lines = <<Lock(c.name, c.locks)>> /\ g.stray = FALSE
                 \/ \E o \in Seq(LockOps \cup Seq(Parts)) :
                       o # <<>> /\ g.stray = f.stray /\ g.lines = WrittenAgain(f, c.name, o)
            BY <1>10, LockVarForm, Zenon
        <3> QED BY <3>1
    <2>4. n \in Seq(Parts)
        BY <1>0, <1>10
    <2>5. ~Collides(f, c) => ~(IsLock(Head(f.lines)) /\ Head(f.lines).name = n)
        BY <1>10 DEF Collides
    <2> HIDE DEF n
    <2>6. CASE g.lines = <<Lock(n, c.locks)>> /\ g.stray = FALSE
        <3>1. DOMAIN g.lines = {1}
            BY <2>6
        <3>2. LinesGo(f, c, g)
            BY <3>1 DEF LinesGo, Apart
        <3> QED BY <2>2, <2>6, <3>2 DEF GoesOn
    <2>7. ASSUME NEW o \in Seq(LockOps \cup Seq(Parts)), g.stray = f.stray, g.lines = WrittenAgain(f, n, o)
          PROVE  GoesOn(f, c, g)
        <3>1. LinesGo(f, c, g)
            BY <2>4, <2>5, <2>7, LinesWrittenAgain
        <3> QED BY <2>2, <2>7, <3>1 DEF GoesOn
    <2> QED BY <2>3, <2>6, <2>7
<1>11. CASE c.op = "lockdel" /\ c.name \in UserNames /\ g \in LockDel(f, c.name, c.all, c.locks)
    <2> DEFINE n == c.name
               one == <<n>>
    <2>1. /\ WritesLines(f, g) /\ g.stray = f.stray /\ HasLock(f.lines, n)
          /\ \/ g = WithoutLocks(f, one)
             \/ \E o \in Seq(LockOps \cup Seq(Parts)) :
                   g.lines = ReplaceAllLines(f.lines, LockOf(f.lines, n), Lock(n, o))
        BY <1>11, LockDelForm
    <2>2. RecordsGo(f, c, g)
        BY <1>e, <2>1 DEF WritesLines
    <2>3. n \in Seq(Parts)
        BY <1>0, <1>11
    <2>4. DOMAIN one = 1..Len(one) /\ Len(one) \in Nat
        OBVIOUS
    <2> HIDE DEF one, n
    <2>5. LinesGo(f, c, g)
        <3>1. CASE g = WithoutLocks(f, one)
            BY <2>4, <3>1, LinesTaken
        <3>2. CASE \E o \in Seq(LockOps \cup Seq(Parts)) :
                      g.lines = ReplaceAllLines(f.lines, LockOf(f.lines, n), Lock(n, o))
            BY <2>1, <2>3, <3>2, LinesWritten
        <3> QED BY <2>1, <3>1, <3>2
    <2> QED BY <2>1, <2>2, <2>5 DEF GoesOn
<1>12. CASE c.op = "stalkvar" /\ c.name \in StalkNames /\ c.val \in Values /\ g \in Stalk(f, c.name, c.val)
    <2> DEFINE item == StalkItem(f, c.name)
    <2>1. g = Forget(f, c.name) \/ AddsItem(f, c.name, item, c.val, g)
        BY <1>12, StalkForm
    <2>2. item \in Seq(Parts) /\ item \in ItemsOf(c.name)
        BY <1>12, StalkItemIs
    <2>3. ~Collides(f, c) => item \notin Names(f)
        BY <1>12 DEF Collides
    <2> HIDE DEF item
    <2>4. NameOK(item)
        BY <1>12, <2>2, NewNamesOK
    <2>5. CASE g = Forget(f, c.name)
        <3>1. g.recs = f.recs /\ g.lines = f.lines /\ g.stray = f.stray
            BY <2>5, ForgetForm
        <3> QED BY <1>s, <3>1
    <2>6. CASE AddsItem(f, c.name, item, c.val, g)
        <3>1. /\ g.recs = Append(f.recs, Record(item, <<c.val>>)) /\ g.stray \in {f.stray, FALSE}
              /\ \/ /\ HasLock(f.lines, Recent)
                    /\ g.lines = ReplaceAllLines(f.lines, LockOf(f.lines, Recent), Lock(Recent, <<item>>))
                 \/ ~HasLock(f.lines, Recent) /\ g.lines = Append(f.lines, Lock(Recent, <<item>>))
            BY <2>6 DEF AddsItem
        <3>2. <<c.val>> \in Seq(Payload)
            BY <1>12, PayloadsAre
        <3>3. RecordsGo(f, c, g)
            BY <2>2, <2>3, <2>4, <3>1, <3>2, RecordAdded
        <3>4. Recent \in Seq(Parts) /\ <<item>> \in Seq(LockOps \cup Seq(Parts))
            BY <2>2, NamesAre, LockOps1 DEF Recent
        <3>5. LinesGo(f, c, g)
            BY <3>1, <3>4, LinesWritten
        <3> QED BY <3>1, <3>3, <3>5 DEF GoesOn
    <2> QED BY <2>1, <2>5, <2>6
<1> QED BY CallCases, <1>1, <1>2, <1>3, <1>4, <1>5, <1>6, <1>7, <1>8, <1>9, <1>10, <1>11, <1>12

-----------------------------------------------------------------------------
(***************************************************************************)
(* The image of a file, as the new engine sees it.                         *)
(***************************************************************************)
\* One entry replaced in a sequence that goes on, or at its end.
LEMMA AppendExcept ==
    ASSUME NEW E, NEW s \in Seq(E), NEW x \in E, NEW y \in E
    PROVE  /\ Append(s, y) = [Append(s, x) EXCEPT ![Len(s) + 1] = y]
           /\ \A j \in DOMAIN s : Append([s EXCEPT ![j] = y], x) = [Append(s, x) EXCEPT ![j] = y]
<1> DEFINE n == Len(s)
           w == Append(s, x)
<1>0. ASSUME NEW u \in Seq(E), NEW z \in E
      PROVE  /\ Append(u, z) \in [1..(Len(u) + 1) -> E] /\ Append(u, z)[Len(u) + 1] = z
             /\ \A i \in 1..Len(u) : Append(u, z)[i] = u[i]
    <2>1. Append(u, z) \in Seq(E) /\ Len(Append(u, z)) = Len(u) + 1
        OBVIOUS
    <2>2. Append(u, z) \in [1..Len(Append(u, z)) -> E]
        BY <2>1, LenProperties, Zenon
    <2>3. Append(u, z)[Len(u) + 1] = z /\ \A i \in 1..Len(u) : Append(u, z)[i] = u[i]
        OBVIOUS
    <2> QED BY <2>1, <2>2, <2>3
<1>1. n \in Nat /\ DOMAIN s = 1..n /\ w \in [1..(n + 1) -> E] /\ w[n + 1] = x /\ \A i \in 1..n : w[i] = s[i]
    BY <1>0
<1>2. Append(s, y) = [w EXCEPT ![n + 1] = y]
    <2> DEFINE a == Append(s, y)
               b == [w EXCEPT ![n + 1] = y]
    <2>1. a \in [1..(n + 1) -> E] /\ a[n + 1] = y /\ \A i \in 1..n : a[i] = s[i]
        BY <1>0
    <2> HIDE DEF w, a
    <2>2. b \in [1..(n + 1) -> E] /\ \A i \in 1..(n + 1) : b[i] = a[i]
        BY <1>1, <2>1
    <2> HIDE DEF b
    <2>3. a = b
        BY <2>1, <2>2
    <2> QED BY <2>3 DEF a, b
<1>3. ASSUME NEW j \in DOMAIN s PROVE Append([s EXCEPT ![j] = y], x) = [w EXCEPT ![j] = y]
    <2> DEFINE u == [s EXCEPT ![j] = y]
               a == Append(u, x)
               b == [w EXCEPT ![j] = y]
    <2>1. u \in Seq(E) /\ Len(u) = n /\ \A i \in 1..n : u[i] = IF i = j THEN y ELSE s[i]
        BY <1>1
    <2> HIDE DEF u, w
    <2>2. a \in [1..(n + 1) -> E] /\ a[n + 1] = x /\ \A i \in 1..n : a[i] = u[i]
        BY <1>0, <2>1
    <2> HIDE DEF a
    <2>3. b \in [1..(n + 1) -> E] /\ \A i \in 1..(n + 1) : b[i] = a[i]
        BY <1>1, <2>1, <2>2
    <2> HIDE DEF b
    <2>4. a = b
        BY <2>2, <2>3
    <2> QED BY <2>4 DEF a, b, u
<1> QED BY <1>2, <1>3

\* The place j of the entry k that stays, and what becomes of it there.
StaysAt(E, S, s, k, j) ==
    /\ j \in DOMAIN Only(s, S) /\ Only(s, S)[j] = s[k]
    /\ \A t \in Seq(E) :
          DOMAIN t = DOMAIN s /\ t[k] \in S /\ (\A i \in DOMAIN s : i # k => t[i] = s[i])
              => Only(t, S) = [Only(s, S) EXCEPT ![j] = t[k]]

LEMMA OnlyAt ==
    ASSUME NEW E, NEW S, NEW s \in Seq(E), NEW k \in DOMAIN s, s[k] \in S
    PROVE  \E j : StaysAt(E, S, s, k, j)
<1> DEFINE Same(t, u, i) == DOMAIN t = DOMAIN u /\ t[i] \in S /\ \A l \in DOMAIN u : l # i => t[l] = u[l]
           At(u, i, j) ==
               /\ Only(u, S)[j] = u[i]
               /\ \A t \in Seq(E) : Same(t, u, i) => Only(t, S) = [Only(u, S) EXCEPT ![j] = t[i]]
           Holds(u) == \A i \in DOMAIN u : u[i] \in S => \E j \in DOMAIN Only(u, S) : At(u, i, j)
           P == {u \in Seq(E) : Holds(u)}
<1>1. <<>> \in P
    OBVIOUS
<1>2. ASSUME NEW u \in Seq(E), NEW x \in E, u \in P PROVE Append(u, x) \in P
    <2> DEFINE n == Len(u)
               w == Append(u, x)
               left == Only(u, S)
    <2>1. w \in Seq(E) /\ n \in Nat /\ DOMAIN u = 1..n /\ DOMAIN w = 1..(n + 1)
          /\ w[n + 1] = x /\ \A i \in 1..n : w[i] = u[i]
        OBVIOUS
    <2>2. left \in Seq(E)
        BY OnlySeq, Zenon
    <2>3. \A v \in Seq(E), y \in E : Only(Append(v, y), S) = IF y \in S THEN Append(Only(v, S), y) ELSE Only(v, S)
        BY OnlyAppend, Zenon
    <2>4. Only(w, S) = IF x \in S THEN Append(left, x) ELSE left
        BY <2>3
    <2>5. ASSUME NEW t \in Seq(E), DOMAIN t = DOMAIN w
          PROVE  \E v \in Seq(E) : DOMAIN v = DOMAIN u /\ t = Append(v, t[n + 1]) /\ t[n + 1] \in E
                                   /\ \A i \in 1..n : v[i] = t[i]
        <3>1. Len(t) = n + 1 /\ t # <<>>
            BY <2>1, <2>5
        <3>2. PICK v \in Seq(E), y \in E : t = Append(v, y) /\ Len(t) = Len(v) + 1
            BY <3>1, LastOne, Zenon
        <3>3. Len(v) = n /\ t[n + 1] = y /\ \A i \in 1..n : v[i] = t[i]
            BY <2>1, <3>1, <3>2
        <3> QED BY <2>1, <3>2, <3>3
    <2> HIDE DEF w, left
    <2>6. ASSUME NEW i \in DOMAIN w, w[i] \in S PROVE \E j \in DOMAIN Only(w, S) : At(w, i, j)
        <3>1. CASE i = n + 1
            <4> DEFINE j == Len(left) + 1
            <4>1. x \in S /\ Only(w, S) = Append(left, x)
                BY <2>1, <2>4, <2>6, <3>1
            <4>2. j \in DOMAIN Only(w, S) /\ Only(w, S)[j] = x
                BY <2>2, <4>1
            <4>3. ASSUME NEW t \in Seq(E), Same(t, w, i) PROVE Only(t, S) = [Only(w, S) EXCEPT ![j] = t[i]]
                <5>1. PICK v \in Seq(E) : /\ DOMAIN v = DOMAIN u /\ t = Append(v, t[n + 1]) /\ t[n + 1] \in E
                                          /\ \A l \in 1..n : v[l] = t[l]
                    BY <2>5, <4>3
                <5>2. v = u
                    BY <2>1, <3>1, <4>3, <5>1
                <5>3. Only(t, S) = Append(left, t[n + 1])
                    BY <2>3, <3>1, <4>3, <5>1, <5>2 DEF left
                <5> DEFINE y == t[n + 1]
                <5>y. y \in E
                    BY <5>1
                <5> HIDE DEF y
                <5>4. Append(left, y) = [Append(left, x) EXCEPT ![Len(left) + 1] = y]
                    BY <2>2, <5>y, AppendExcept
                <5> QED BY <3>1, <4>1, <5>3, <5>4 DEF y
            <4> QED BY <2>1, <3>1, <4>2, <4>3
        <3>2. CASE i # n + 1
            <4>1. i \in 1..n /\ u[i] = w[i] /\ i \in DOMAIN u
                BY <2>1, <3>2
            <4>2. PICK j \in DOMAIN left : At(u, i, j)
                BY <1>2, <2>6, <4>1 DEF left
            <4>3. j \in DOMAIN Only(w, S) /\ Only(w, S)[j] = w[i]
                BY <2>2, <2>4, <4>1, <4>2 DEF left
            <4>4. ASSUME NEW t \in Seq(E), Same(t, w, i) PROVE Only(t, S) = [Only(w, S) EXCEPT ![j] = t[i]]
                <5>1. PICK v \in Seq(E) : /\ DOMAIN v = DOMAIN u /\ t = Append(v, t[n + 1]) /\ t[n + 1] \in E
                                          /\ \A l \in 1..n : v[l] = t[l]
                    BY <2>5, <4>4
                <5>2. t[n + 1] = x
                    <6>1. n + 1 \in DOMAIN w /\ n + 1 # i
                        BY <2>1, <3>2
                    <6> QED BY <2>1, <4>4, <6>1
                <5>3. Same(v, u, i) /\ v[i] = t[i]
                    BY <2>1, <4>1, <4>4, <5>1
                <5>4. Only(v, S) = [left EXCEPT ![j] = t[i]]
                    BY <4>2, <5>3 DEF left
                <5>5. Only(t, S) = IF x \in S THEN Append(Only(v, S), x) ELSE Only(v, S)
                    BY <2>3, <5>1, <5>2
                <5> DEFINE y == t[i]
                <5>6. y \in E
                    BY <4>4, <5>1, <4>1, <2>1
                <5> HIDE DEF y
                <5>7. Append([left EXCEPT ![j] = y], x) = [Append(left, x) EXCEPT ![j] = y]
                    BY <2>2, <4>2, <5>6, AppendExcept
                <5> QED BY <2>4, <5>4, <5>5, <5>7 DEF y
            <4> QED BY <4>3, <4>4
        <3> QED BY <3>1, <3>2
    <2>7. w \in Seq(E) /\ Holds(w)
        BY <2>1, <2>6
    <2> HIDE DEF Holds
    <2> QED BY <2>7 DEF w
<1>3. Holds(s)
    <2> HIDE DEF Holds
    <2>1. \A u \in Seq(E) : u \in P
        BY <1>1, <1>2, Longer, Zenon
    <2> QED BY <2>1
<1> QED BY <1>3 DEF StaysAt

\* Two sequences one behind the other, place by place.
LEMMA ConcatAt ==
    ASSUME NEW E
    PROVE  \A s, t \in Seq(E) :
              /\ s \o t \in Seq(E) /\ Len(s \o t) = Len(s) + Len(t)
              /\ \A i \in 1..Len(s) : (s \o t)[i] = s[i]
              /\ \A i \in 1..Len(t) : (s \o t)[Len(s) + i] = t[i]
<1> TAKE s, t \in Seq(E)
<1>1. /\ s \o t \in Seq(E) /\ Len(s \o t) = Len(s) + Len(t)
      /\ \A i \in 1..(Len(s) + Len(t)) : (s \o t)[i] = IF i <= Len(s) THEN s[i] ELSE t[i - Len(s)]
    BY ConcatProperties, Zenon
<1> DEFINE m == Len(s)
           n == Len(t)
           u == s \o t
<1>2. m \in Nat /\ n \in Nat
    OBVIOUS
<1>3. \A i \in 1..(m + n) : u[i] = IF i <= m THEN s[i] ELSE t[i - m]
    BY <1>1
<1> HIDE DEF m, n, u
<1>4. \A i \in 1..m : u[i] = s[i]
    BY <1>2, <1>3
<1>5. ASSUME NEW i \in 1..n PROVE u[m + i] = t[i]
    <2>1. m + i \in 1..(m + n) /\ ~(m + i <= m) /\ (m + i) - m = i
        BY <1>2
    <2> QED BY <1>3, <2>1
<1> QED BY <1>1, <1>4, <1>5 DEF m, n, u

\* One entry taken out, which the sequence has nowhere else.
LEMMA FirstRemoved ==
    ASSUME NEW E, NEW a \in Seq(E), NEW b \in Seq(E), NEW x \in E, x \notin Range(a)
    PROVE  New!RemoveFirst((a \o <<x>>) \o b, x) = a \o b
<1> DEFINE m == Len(a)
           n == Len(b)
           u == a \o <<x>>
           s == u \o b
           I == {i \in 1..Len(s) : s[i] = x}
<1>1. /\ m \in Nat /\ n \in Nat /\ <<x>> \in Seq(E) /\ Len(<<x>>) = 1 /\ <<x>>[1] = x
      /\ \A i \in 1..m : a[i] # x
    <2>1. \A i \in DOMAIN a : a[i] # x
        BY DEF Range
    <2> QED BY <2>1
<1> DEFINE e == <<x>>
<1>e. e \in Seq(E) /\ Len(e) = 1 /\ e[1] = x
    BY <1>1
<1> HIDE DEF e
<1>c. \A v, w \in Seq(E) :
         /\ v \o w \in Seq(E) /\ Len(v \o w) = Len(v) + Len(w)
         /\ \A i \in 1..Len(v) : (v \o w)[i] = v[i]
         /\ \A i \in 1..Len(w) : (v \o w)[Len(v) + i] = w[i]
    BY ConcatAt
<1>2. u \in Seq(E) /\ Len(u) = m + 1 /\ u[m + 1] = x /\ \A i \in 1..m : u[i] = a[i]
    <2>1. /\ a \o e \in Seq(E) /\ Len(a \o e) = Len(a) + Len(e)
          /\ \A i \in 1..Len(a) : (a \o e)[i] = a[i]
          /\ \A i \in 1..Len(e) : (a \o e)[Len(a) + i] = e[i]
        BY <1>c, <1>e
    <2>2. u = a \o e
        BY DEF e
    <2> HIDE DEF u
    <2> QED BY <1>e, <2>1, <2>2
<1> HIDE DEF u
<1>3. /\ s \in Seq(E) /\ Len(s) = m + 1 + n
      /\ \A i \in 1..(m + 1) : s[i] = u[i]
      /\ \A i \in 1..n : s[m + 1 + i] = b[i]
    <2>1. /\ u \o b \in Seq(E) /\ Len(u \o b) = Len(u) + Len(b)
          /\ \A i \in 1..Len(u) : (u \o b)[i] = u[i]
          /\ \A i \in 1..Len(b) : (u \o b)[Len(u) + i] = b[i]
        BY <1>c, <1>2
    <2> QED BY <1>2, <2>1
<1> HIDE DEF s
<1>4. m + 1 \in I /\ \A i \in I : m + 1 <= i
    <2>1. \A i \in 1..m : s[i] # x
        BY <1>1, <1>2, <1>3
    <2> QED BY <1>1, <1>2, <1>3, <2>1
<1>5. New!SelectInSeq(s, LAMBDA v : v = x) = m + 1
    <2>1. New!SelectInSeq(s, LAMBDA v : v = x) = IF I # {} THEN New!Min(I) ELSE 0
        BY DEF New!SelectInSeq
    <2>2. I \subseteq Nat /\ m + 1 \in Nat
        BY <1>1, <1>3
    <2> HIDE DEF I
    <2>3. \A y \in I : (\A i \in I : y <= i) => y = m + 1
        BY <1>4, <2>2
    <2>4. New!Min(I) = m + 1
        BY <1>4, <2>3 DEF New!Min
    <2> QED BY <1>4, <2>1, <2>4
<1>6. New!RemoveFirst(s, x) = New!RemoveAt(s, m + 1)
    <2>1. \E i \in 1..Len(s) : s[i] = x
        BY <1>4
    <2> QED BY <1>5, <2>1 DEF New!RemoveFirst
<1>7. New!RemoveAt(s, m + 1) = SubSeq(s, 1, m) \o SubSeq(s, m + 2, m + 1 + n)
    <2>1. (m + 1) - 1 = m /\ (m + 1) + 1 = m + 2
        BY <1>1
    <2> QED BY <1>3, <2>1 DEF New!RemoveAt
<1>8. SubSeq(s, 1, m) = a
    <2>1. SubSeq(s, 1, m) = [i \in 1..m |-> s[i]]
        BY <1>1, <1>3
    <2>2. a \in [1..m -> E] /\ \A i \in 1..m : s[i] = a[i]
        BY <1>1, <1>2, <1>3, LenProperties
    <2> QED BY <2>1, <2>2
<1>9. SubSeq(s, m + 2, m + 1 + n) = b
    <2>1. SubSeq(s, m + 2, m + 1 + n) = [i \in 1..((m + 1 + n) - (m + 2) + 1) |-> s[(m + 2) + i - 1]]
        BY <1>1, <1>3
    <2>2. (m + 1 + n) - (m + 2) + 1 = n /\ \A i \in 1..n : (m + 2) + i - 1 = m + 1 + i
        BY <1>1
    <2>3. b \in [1..n -> E]
        BY LenProperties, Zenon
    <2>4. SubSeq(s, m + 2, m + 1 + n) = [i \in 1..n |-> b[i]]
        BY <1>3, <2>1, <2>2
    <2> QED BY <2>3, <2>4
<1> QED BY <1>6, <1>7, <1>8, <1>9 DEF s, u

LEMMA OnlyRemoved ==
    ASSUME NEW E, NEW S, NEW s \in Seq(E), NEW k \in DOMAIN s, s[k] \in S,
           \A i \in DOMAIN s : s[i] = s[k] => i = k
    PROVE  New!RemoveFirst(Only(s, S), s[k]) = Only(s, S \ {s[k]})
<1> DEFINE n == Len(s)
           x == s[k]
           e == <<x>>
           u == SubSeq(s, 1, k - 1)
           w == SubSeq(s, k + 1, n)
           T == S \ {x}
<1>1. n \in Nat /\ k \in 1..n /\ x \in E /\ e \in Seq(E)
    OBVIOUS
<1>2. /\ u \in Seq(E) /\ w \in Seq(E) /\ s = (u \o e) \o w
      /\ x \notin Range(u) /\ x \notin Range(w)
    <2>1. u = [i \in 1..(k - 1) |-> s[i]] /\ w = [i \in 1..(n - k) |-> s[k + i]]
        <3>1. n - (k + 1) + 1 = n - k /\ \A i \in 1..(n - k) : (k + 1) + i - 1 = k + i
            BY <1>1
        <3>2. w = [i \in 1..(n - (k + 1) + 1) |-> s[(k + 1) + i - 1]]
            BY <1>1
        <3> QED BY <1>1, <3>1, <3>2
    <2>2. k - 1 \in Nat /\ n - k \in Nat /\ (\A i \in 1..(k - 1) : i \in 1..n /\ i # k)
          /\ (\A i \in 1..(n - k) : k + i \in 1..n /\ k + i # k)
        BY <1>1
    <2>3. u \in [1..(k - 1) -> E] /\ w \in [1..(n - k) -> E]
        <3>1. \A i \in 1..n : s[i] \in E
            OBVIOUS
        <3>2. (\A i \in 1..(k - 1) : s[i] \in E) /\ (\A i \in 1..(n - k) : s[k + i] \in E)
            BY <2>2, <3>1
        <3> HIDE DEF u, w
        <3> QED BY <2>1, <3>2
    <2>4. u \in Seq(E) /\ w \in Seq(E) /\ Len(u) = k - 1 /\ Len(w) = n - k
        BY <2>2, <2>3
    <2>5. x \notin Range(u) /\ x \notin Range(w)
        <3>1. \A i \in 1..(k - 1) : u[i] # x
            BY <2>1, <2>2
        <3>2. \A i \in 1..(n - k) : w[i] # x
            BY <2>1, <2>2
        <3> QED BY <2>3, <3>1, <3>2 DEF Range
    <2>6. s = (u \o e) \o w
        <3> DEFINE v == u \o e
                   t == v \o w
        <3>1. Len(e) = 1 /\ e[1] = x
            OBVIOUS
        <3> HIDE DEF u, w, e
        <3>c. \A v1, w1 \in Seq(E) :
                 /\ v1 \o w1 \in Seq(E) /\ Len(v1 \o w1) = Len(v1) + Len(w1)
                 /\ \A i \in 1..Len(v1) : (v1 \o w1)[i] = v1[i]
                 /\ \A i \in 1..Len(w1) : (v1 \o w1)[Len(v1) + i] = w1[i]
            BY ConcatAt
        <3>2. v \in Seq(E) /\ Len(v) = k /\ \A i \in 1..k : v[i] = s[i]
            <4>1. /\ u \o e \in Seq(E) /\ Len(u \o e) = Len(u) + Len(e)
                  /\ \A i \in 1..Len(u) : (u \o e)[i] = u[i]
                  /\ \A i \in 1..Len(e) : (u \o e)[Len(u) + i] = e[i]
                BY <1>1, <2>4, <3>c
            <4> HIDE DEF v
            <4>2. v \in Seq(E) /\ Len(v) = k /\ v[k] = s[k] /\ \A i \in 1..(k - 1) : v[i] = u[i]
                <5>1. (k - 1) + 1 = k
                    BY <1>1
                <5> QED BY <2>4, <3>1, <4>1, <5>1 DEF v
            <4>3. \A i \in 1..k : i = k \/ i \in 1..(k - 1)
                BY <1>1
            <4> QED BY <2>1, <4>2, <4>3
        <3> HIDE DEF v
        <3>4. t \in Seq(E) /\ Len(t) = n /\ \A i \in 1..n : t[i] = s[i]
            <4>1. /\ v \o w \in Seq(E) /\ Len(v \o w) = Len(v) + Len(w)
                  /\ \A i \in 1..Len(v) : (v \o w)[i] = v[i]
                  /\ \A i \in 1..Len(w) : (v \o w)[Len(v) + i] = w[i]
                BY <2>4, <3>2, <3>c
            <4>2. k + (n - k) = n /\ \A i \in 1..n : i \in 1..k \/ (i - k \in 1..(n - k) /\ k + (i - k) = i)
                BY <1>1
            <4> HIDE DEF t
            <4>3. t \in Seq(E) /\ Len(t) = n /\ (\A i \in 1..k : t[i] = v[i]) /\ \A i \in 1..(n - k) : t[k + i] = w[i]
                BY <2>4, <3>2, <4>1, <4>2 DEF t
            <4>4. \A i \in 1..(n - k) : t[k + i] = s[k + i]
                BY <2>1, <4>3
            <4> QED BY <3>2, <4>2, <4>3, <4>4
        <3>5. t \in [1..n -> E] /\ s \in [1..n -> E]
            BY <3>4, LenProperties
        <3> HIDE DEF t
        <3>6. t = s
            BY <3>4, <3>5
        <3> QED BY <3>6 DEF t, v
    <2> QED BY <2>4, <2>5, <2>6
<1> HIDE DEF u, w
<1>3. Only(e, S) = e /\ Only(e, T) = <<>>
    <2>1. <<>> \in Seq(E) /\ e = Append(<<>>, x)
        OBVIOUS
    <2>2. Only(<<>>, S) = <<>> /\ Only(<<>>, T) = <<>>
        BY OnlyEmpty
    <2> DEFINE none == <<>>
    <2>3. none \in Seq(E) /\ x \in S /\ x \notin T
        BY <1>1, <2>1
    <2> HIDE DEF none, x, T
    <2>4. Only(Append(none, x), S) = Append(Only(none, S), x)
        BY <1>1, <2>3, OnlyAppend
    <2>5. Only(Append(none, x), T) = Only(none, T)
        BY <1>1, <2>3, OnlyAppend
    <2> QED BY <2>1, <2>2, <2>4, <2>5 DEF none, x
<1> HIDE DEF e, x, T
<1>w. u \in Seq(E) /\ w \in Seq(E)
    BY <1>2
<1>4. \A R : Only((u \o e) \o w, R) = (Only(u, R) \o Only(e, R)) \o Only(w, R)
    <2> TAKE R
    <2> DEFINE v == u \o e
    <2>1. v \in Seq(E)
        BY <1>1, <1>w
    <2>2. Only(v, R) = Only(u, R) \o Only(e, R)
        BY <1>1, <1>w, OnlyConcat
    <2> HIDE DEF v
    <2>3. Only(v \o w, R) = Only(v, R) \o Only(w, R)
        BY <1>w, <2>1, OnlyConcat
    <2> QED BY <2>2, <2>3 DEF v
<1>5. Only(u, T) = Only(u, S) /\ Only(w, T) = Only(w, S)
    <2>1. T \cap Range(u) = S \cap Range(u) /\ T \cap Range(w) = S \cap Range(w)
        BY <1>2 DEF T
    <2> QED BY <2>1, OnlyOfRange
<1>6. Only(u, S) \in Seq(E) /\ Only(w, S) \in Seq(E) /\ x \notin Range(Only(u, S))
    BY <1>2, OnlySeq, OnlyRange
<1>7. Only(s, S) = (Only(u, S) \o e) \o Only(w, S)
    BY <1>2, <1>3, <1>4
<1>8. Only(s, T) = Only(u, S) \o Only(w, S)
    <2>1. Only(s, T) = (Only(u, T) \o Only(e, T)) \o Only(w, T)
        BY <1>2, <1>4
    <2>2. Only(u, S) \o <<>> = Only(u, S)
        BY <1>6, ConcatEmptySeq
    <2> QED BY <1>3, <1>5, <2>1, <2>2
<1>9. New!RemoveFirst(Only(s, S), x) = Only(s, T)
    BY <1>1, <1>6, <1>7, <1>8, FirstRemoved DEF e
<1> QED BY <1>9 DEF x, T

\* Names of variables that the new engine sees.
Seen(n) == n \in Seq(Parts) /\ n # <<>> /\ Head(n) # Tilde

LEMMA KnownIsSeen ==
    ASSUME NEW f, FileOK(f)
    PROVE  /\ \A n \in UserNames \cup AllItems(f) : Seen(n)
           /\ \A n \in StalkNames : Seen(StalkItem(f, n))
<1>1. /\ UserNames \subseteq Seq(Parts) /\ \A n \in UserNames : Head(n) # Tilde /\ n # <<>>
      /\ \A n \in StalkNames : \A i \in ItemsOf(n) : Head(i) # Tilde /\ i # <<>>
    BY NamesAre, NewNamesOK
<1>2. /\ AllItems(f) \subseteq Seq(Parts) /\ DOMAIN f.hist \subseteq StalkNames
      /\ \A i \in AllItems(f) : \E n \in DOMAIN f.hist : i \in ItemsOf(n)
    BY HistoryIs
<1>3. \A n \in StalkNames : StalkItem(f, n) \in ItemsOf(n) /\ StalkItem(f, n) \in Seq(Parts)
    BY StalkItemIs
<1>4. ASSUME NEW n \in AllItems(f) PROVE Seen(n)
    BY <1>1, <1>2 DEF Seen
<1>5. ASSUME NEW n \in UserNames PROVE Seen(n)
    BY <1>1 DEF Seen
<1>6. ASSUME NEW n \in StalkNames PROVE Seen(StalkItem(f, n))
    BY <1>1, <1>3 DEF Seen
<1> QED BY <1>4, <1>5, <1>6

\* The image has the records that the parser sees.
LEMMA ImageIs ==
    ASSUME NEW f, FileOK(f)
    PROVE  /\ Image(f).recs = Only(f.recs, SeenRecords) /\ Image(f).recs \in Seq(FileRecords)
           /\ Range(Image(f).recs) = Range(f.recs) \cap SeenRecords
           /\ Image(f).hist = f.hist /\ Image(f).recent = <<>>
<1> DEFINE s == f.recs
           S == {r \in Range(s) : ~Opaque(r)}
<1>1. s \in Seq(FileRecords) /\ Range(s) \subseteq FileRecords
    BY DEF FileOK, FileTypes, Range
<1>2. S \cap Range(s) = SeenRecords \cap Range(s)
    BY <1>1 DEF SeenRecords
<1>3. Image(f).recs = Only(s, S) /\ Image(f).hist = f.hist /\ Image(f).recent = <<>>
    BY DEF Image, Parsed
<1> HIDE DEF s, S
<1>4. Only(s, S) = Only(s, SeenRecords)
    BY <1>2, OnlyOfRange
<1>5. Only(s, SeenRecords) \in Seq(FileRecords) /\ Range(Only(s, SeenRecords)) = Range(s) \cap SeenRecords
    BY <1>1, OnlySeq, OnlyRange
<1> QED BY <1>3, <1>4, <1>5 DEF s

\* It has the names of the file that are seen.
LEMMA SeenNames ==
    ASSUME NEW f, FileOK(f), NEW n, Seen(n)
    PROVE  n \in New!Names(Image(f)) <=> n \in Names(f)
<1>1. Range(f.recs) \subseteq FileRecords
    BY DEF FileOK, FileTypes, Range
<1>2. New!Names(Image(f)) = {r.name : r \in Range(Image(f).recs)}
    BY DEF New!Names, New!Range, Range
<1>3. Range(Image(f).recs) = Range(f.recs) \cap SeenRecords
    BY ImageIs
<1>4. \A r \in Range(f.recs) : r.name = n => r \in SeenRecords
    BY <1>1 DEF Seen, SeenRecords, Opaque
<1> QED BY <1>2, <1>3, <1>4 DEF Names

\* Where it has a name, it has it once.
LEMMA IndexIs ==
    ASSUME NEW f, FileOK(f), Apart(f.recs, SeenRecords), NEW j \in DOMAIN Image(f).recs
    PROVE  New!IndexOf(Image(f), Image(f).recs[j].name) = j
<1> DEFINE s == Image(f).recs
           n == s[j].name
           I == {i \in 1..Len(s) : s[i].name = n}
<1>1. s \in Seq(FileRecords) /\ s = Only(f.recs, SeenRecords) /\ f.recs \in Seq(FileRecords)
    BY ImageIs DEF FileOK, FileTypes
<1>2. OneOfEach(s)
    BY <1>1, ApartIsOne
<1> HIDE DEF s
<1>3. I = {j}
    BY <1>1, <1>2 DEF OneOfEach, s
<1>4. New!IndexOf(Image(f), n) = IF I # {} THEN New!Max(I) ELSE 0
    BY DEF New!IndexOf, New!SelectLastInSeq, s
<1>5. New!Max(I) = j
    <2> HIDE DEF I
    <2>1. \A x \in I : x = j
        BY <1>3
    <2>2. j \in I /\ \A y \in I : j >= y
        BY <1>1, <1>3 DEF s
    <2> QED BY <2>1, <2>2 DEF New!Max
<1> QED BY <1>3, <1>4, <1>5 DEF s

\* A name that meets no other variable, its record and the record's place in the image.
LEMMA PlainIs ==
    ASSUME NEW f, FileOK(f), Apart(f.recs, SeenRecords), NEW n, Seen(n), Exists(f, n),
           \A r \in Range(f.recs) : IsSuffix(n, r.name) => r.name = n
    PROVE  \E k \in DOMAIN f.recs, j \in DOMAIN Image(f).recs :
              /\ f.recs[k].name = n /\ f.recs[k].val = Value(f, n) /\ f.recs[k].val # Core /\ f.recs[k] \in SeenRecords
              /\ \A i \in DOMAIN f.recs : f.recs[i].name = n => i = k
              /\ \A i \in DOMAIN f.recs : Meets(n, f.recs[i]) <=> i = k
              /\ Found(f, n) /\ StaysAt(FileRecords, SeenRecords, f.recs, k, j)
              /\ Image(f).recs[j] = f.recs[k] /\ New!IndexOf(Image(f), n) = j
<1>1. f.recs \in Seq(FileRecords) /\ \A i \in DOMAIN f.recs : f.recs[i] \in FileRecords
    BY DEF FileOK, FileTypes
<1>2. PICK k \in DOMAIN f.recs : f.recs[k].name = n /\ f.recs[k].val # Core
    BY DEF Exists, Range
<1>3. \A i \in DOMAIN f.recs : f.recs[i].name = n => f.recs[i] \in SeenRecords
    BY <1>1 DEF Seen, SeenRecords, Opaque
<1>4. \A i \in DOMAIN f.recs : f.recs[i].name = n => i = k
    BY <1>2, <1>3 DEF Apart
<1>5. IsSuffix(n, n)
    BY EndsItself DEF Seen
<1>6. \A i \in DOMAIN f.recs : Meets(n, f.recs[i]) <=> i = k
    <2>1. \A i \in DOMAIN f.recs : IsSuffix(n, f.recs[i].name) => f.recs[i].name = n
        BY DEF Range
    <2> QED BY <1>2, <1>4, <1>5, <2>1 DEF Meets
<1>7. Found(f, n)
    BY <1>6 DEF Found, Range
<1>8. f.recs[k].val = Value(f, n)
    BY <1>1, <1>6, <1>7, ValueIs
<1>9. PICK j : StaysAt(FileRecords, SeenRecords, f.recs, k, j)
    BY <1>1, <1>2, <1>3, OnlyAt
<1>10. Image(f).recs = Only(f.recs, SeenRecords)
    BY ImageIs
<1>11. j \in DOMAIN Image(f).recs /\ Image(f).recs[j] = f.recs[k]
    BY <1>9, <1>10 DEF StaysAt
<1>12. New!IndexOf(Image(f), n) = j
    BY <1>2, <1>11, IndexIs
<1> QED BY <1>2, <1>3, <1>4, <1>6, <1>7, <1>8, <1>9, <1>11, <1>12

\* The lock records of variables, of which the image has the sets of operations.
VarLocks(f) == {l \in Range(f.lines) : l \in LockLines /\ l.name # Recent}

LEMMA OneLock ==
    ASSUME NEW f, FileOK(f), Apart(f.lines, LockLines), NEW n, n # Recent
    PROVE  /\ HasLock(f.lines, n) => LockOf(f.lines, n) \in VarLocks(f) /\ LockOf(f.lines, n).name = n
           /\ HasLock(f.lines, n) => \A l \in VarLocks(f) : l.name = n => l = LockOf(f.lines, n)
           /\ ~HasLock(f.lines, n) => \A l \in VarLocks(f) : l.name # n
<1> DEFINE s == f.lines
<1>1. s \in Seq(FileLines)
    BY DEF FileOK, FileTypes
<1>2. \A l \in LockLines : IsLock(l)
    BY LockLinesAre
<1>3. \A l \in VarLocks(f) : \E i \in DOMAIN s : s[i] = l /\ l \in LockLines
    BY DEF VarLocks, Range
<1>4. /\ HasLock(s, n) <=> \E i \in DOMAIN s : IsLock(s[i]) /\ s[i].name = n
      /\ HasLock(s, n) =>
            LockIndex(s, n) \in DOMAIN s /\ LockOf(s, n) = s[LockIndex(s, n)]
            /\ LockOf(s, n).name = n /\ LockOf(s, n) \in LockLines
    BY <1>1, LockIs
<1>5. Apart(s, LockLines)
    OBVIOUS
<1>6. ASSUME HasLock(s, n) PROVE LockOf(s, n) \in VarLocks(f) /\ LockOf(s, n).name = n
    BY <1>4, <1>6 DEF VarLocks, Range
<1> HIDE DEF s
<1>7. ASSUME HasLock(s, n), NEW l \in VarLocks(f), l.name = n PROVE l = LockOf(s, n)
    <2>1. PICK i \in DOMAIN s : s[i] = l /\ l \in LockLines
        BY <1>3
    <2>2. i = LockIndex(s, n)
        BY <1>4, <1>5, <1>7, <2>1 DEF Apart
    <2> QED BY <1>4, <1>7, <2>1, <2>2
<1>8. ASSUME ~HasLock(s, n), NEW l \in VarLocks(f) PROVE l.name # n
    BY <1>2, <1>3, <1>4, <1>8
<1> QED BY <1>6, <1>7, <1>8 DEF s

LEMMA LocksAre ==
    ASSUME NEW f, FileOK(f), Apart(f.lines, LockLines)
    PROVE  /\ Image(f).locks = [n \in {l.name : l \in VarLocks(f)} |-> Range(LockOf(f.lines, n).ops)]
           /\ Image(f).locks = [n \in DOMAIN Image(f).locks |-> Image(f).locks[n]]
           /\ DOMAIN Image(f).locks = {l.name : l \in VarLocks(f)}
           /\ \A l \in VarLocks(f) : LockOf(f.lines, l.name) = l /\ Image(f).locks[l.name] = Range(l.ops)
           /\ \A n : n # Recent =>
                 /\ n \in DOMAIN Image(f).locks <=> HasLock(f.lines, n)
                 /\ HasLock(f.lines, n) => Image(f).locks[n] = Range(LockOf(f.lines, n).ops)
<1> DEFINE s == f.lines
           T == {l \in Range(s) : IsLock(l)}
           D == {l.name : l \in VarLocks(f)}
<1>1. s \in Seq(FileLines) /\ Range(s) \subseteq FileLines
    BY DEF FileOK, FileTypes, Range
<1>2. T \cap Range(s) = LockLines \cap Range(s)
    BY <1>1, LockLinesAre
<1>3. Locks(f) = Only(s, T)
    BY DEF Locks
<1>4. VarLocks(f) = {l \in Range(s) \cap LockLines : l.name # Recent}
    BY DEF VarLocks
<1> HIDE DEF s, T
<1>5. Range(Locks(f)) = Range(s) \cap LockLines
    BY <1>1, <1>2, <1>3, OnlyOfRange, OnlyRange
<1>6. {l.name : l \in Range(Locks(f))} \ {Recent} = D
    BY <1>4, <1>5
<1> HIDE DEF D
<1>7. Image(f).locks = [n \in D |-> Range(LockOf(f.lines, n).ops)]
    BY <1>6 DEF Image
<1>8. ASSUME NEW l \in VarLocks(f) PROVE HasLock(f.lines, l.name) /\ LockOf(f.lines, l.name) = l
    <2>1. l.name # Recent
        BY DEF VarLocks
    <2> QED BY <2>1, OneLock
<1>9. ASSUME NEW n, n # Recent PROVE n \in D <=> HasLock(f.lines, n)
    BY <1>9, OneLock DEF D
<1>10. ASSUME NEW l \in VarLocks(f) PROVE Image(f).locks[l.name] = Range(l.ops)
    <2>1. l.name \in D
        BY DEF D
    <2> QED BY <1>7, <1>8, <2>1
<1>11. Image(f).locks = [n \in DOMAIN Image(f).locks |-> Image(f).locks[n]] /\ DOMAIN Image(f).locks = D
    BY <1>7
<1>12. \A n : n # Recent =>
          /\ n \in DOMAIN Image(f).locks <=> HasLock(f.lines, n)
          /\ HasLock(f.lines, n) => Image(f).locks[n] = Range(LockOf(f.lines, n).ops)
    BY <1>7, <1>9
<1> QED BY <1>7, <1>8, <1>10, <1>11, <1>12 DEF D

\* A file whose lock records give the locks D.
LEMMA LocksFrom ==
    ASSUME NEW g, FileOK(g), Apart(g.lines, LockLines),
           NEW D, D = [n \in DOMAIN D |-> D[n]], DOMAIN D = {l.name : l \in VarLocks(g)},
           \A l \in VarLocks(g) : D[l.name] = Range(l.ops)
    PROVE  Image(g).locks = D
<1> DEFINE N == {l.name : l \in VarLocks(g)}
<1>1. Image(g).locks = [n \in N |-> Range(LockOf(g.lines, n).ops)]
    BY LocksAre
<1>2. \A l \in VarLocks(g) : LockOf(g.lines, l.name) = l
    BY LocksAre
<1>3. \A n \in N : D[n] = Range(LockOf(g.lines, n).ops)
    BY <1>2
<1> HIDE DEF N
<1> QED BY <1>1, <1>3 DEF N

LEMMA SameLocks ==
    ASSUME NEW f, FileOK(f), Apart(f.lines, LockLines), NEW g, FileOK(g), Apart(g.lines, LockLines),
           VarLocks(g) = VarLocks(f)
    PROVE  Image(g).locks = Image(f).locks
<1> DEFINE D == Image(f).locks
<1>1. D = [n \in DOMAIN D |-> D[n]] /\ DOMAIN D = {l.name : l \in VarLocks(f)}
    BY LocksAre
<1>2. \A l \in VarLocks(f) : D[l.name] = Range(l.ops)
    BY LocksAre
<1> HIDE DEF D
<1>3. Image(g).locks = D
    BY <1>1, <1>2, LocksFrom
<1> QED BY <1>3 DEF D

\* The locks of n go, are written anew, or become those of m.
LEMMA LocksDropped ==
    ASSUME NEW f, FileOK(f), Apart(f.lines, LockLines), NEW g, FileOK(g), Apart(g.lines, LockLines),
           NEW n, VarLocks(g) = {l \in VarLocks(f) : l.name # n}
    PROVE  Image(g).locks = New!Without(Image(f).locks, n)
<1> DEFINE D == Image(f).locks
           G == New!Without(D, n)
<1>1. DOMAIN D = {l.name : l \in VarLocks(f)} /\ \A l \in VarLocks(f) : D[l.name] = Range(l.ops)
    BY LocksAre
<1> HIDE DEF D
<1>2. G = [m \in DOMAIN D \ {n} |-> D[m]]
    BY DEF New!Without, New!Restrict
<1> HIDE DEF G
<1>3. G = [m \in DOMAIN G |-> G[m]] /\ DOMAIN G = {l.name : l \in VarLocks(g)}
    BY <1>1, <1>2
<1>4. \A l \in VarLocks(g) : G[l.name] = Range(l.ops)
    BY <1>1, <1>2
<1>5. Image(g).locks = G
    BY <1>3, <1>4, LocksFrom
<1> QED BY <1>5 DEF D, G

LEMMA LocksPut ==
    ASSUME NEW f, FileOK(f), Apart(f.lines, LockLines), NEW g, FileOK(g), Apart(g.lines, LockLines),
           NEW x, VarLocks(g) = {l \in VarLocks(f) : l.name # x.name} \cup {x}
    PROVE  Image(g).locks = New!Put(Image(f).locks, x.name, Range(x.ops))
<1> DEFINE D == Image(f).locks
           n == x.name
           G == New!Put(D, n, Range(x.ops))
<1>1. DOMAIN D = {l.name : l \in VarLocks(f)} /\ \A l \in VarLocks(f) : D[l.name] = Range(l.ops)
    BY LocksAre
<1> HIDE DEF D
<1>2. G = [m \in DOMAIN D \cup {n} |-> IF m = n THEN Range(x.ops) ELSE D[m]]
    BY DEF New!Put
<1> HIDE DEF G
<1>3. G = [m \in DOMAIN G |-> G[m]] /\ DOMAIN G = {l.name : l \in VarLocks(g)}
    BY <1>1, <1>2
<1>4. \A l \in VarLocks(g) : G[l.name] = Range(l.ops)
    BY <1>1, <1>2
<1>5. Image(g).locks = G
    BY <1>3, <1>4, LocksFrom
<1> QED BY <1>5 DEF D, G

MovesLock(f, n, m, g) ==
    IF HasLock(f.lines, n)
    THEN VarLocks(g) = {l \in VarLocks(f) : l.name # n} \cup {Lock(m, LockOf(f.lines, n).ops)}
         /\ ~HasLock(f.lines, m)
    ELSE VarLocks(g) = VarLocks(f)

LEMMA LocksMoved ==
    ASSUME NEW f, FileOK(f), Apart(f.lines, LockLines), NEW g, FileOK(g), Apart(g.lines, LockLines),
           NEW n, NEW m, n # Recent, m # Recent, n # m,
           MovesLock(f, n, m, g)
    PROVE  Image(g).locks = New!Moved(Image(f).locks, n, m)
<1> DEFINE D == Image(f).locks
           G == New!Moved(D, n, m)
<1>1. /\ DOMAIN D = {l.name : l \in VarLocks(f)} /\ \A l \in VarLocks(f) : D[l.name] = Range(l.ops)
      /\ n \in DOMAIN D <=> HasLock(f.lines, n)
      /\ m \in DOMAIN D <=> HasLock(f.lines, m)
    BY LocksAre
<1>2. CASE ~HasLock(f.lines, n)
    <2>1. New!Moved(D, n, m) = D
        BY <1>1, <1>2 DEF New!Moved
    <2> QED BY <1>2, <2>1, SameLocks DEF MovesLock
<1>3. CASE HasLock(f.lines, n)
    <2> DEFINE x == Lock(m, LockOf(f.lines, n).ops)
    <2>1. D[n] = Range(LockOf(f.lines, n).ops)
        BY <1>3, LocksAre
    <2>2. x.name = m /\ x.ops = LockOf(f.lines, n).ops
        BY DEF Lock
    <2>3. VarLocks(g) = {l \in VarLocks(f) : l.name # n} \cup {x} /\ m \notin DOMAIN D
        BY <1>1, <1>3 DEF MovesLock
    <2> HIDE DEF D, x
    <2>4. G = [k \in (DOMAIN D \ {n}) \cup {m} |-> IF k = m THEN D[n] ELSE D[k]]
        <3>1. n \in DOMAIN D
            BY <1>1, <1>3
        <3>2. New!Without(D, n) = [k \in DOMAIN D \ {n} |-> D[k]]
            BY DEF New!Without, New!Restrict
        <3>3. G = New!Put(New!Without(D, n), m, D[n])
            BY <3>1 DEF New!Moved
        <3>4. G = [k \in (DOMAIN D \ {n}) \cup {m} |-> IF k = m THEN D[n] ELSE New!Without(D, n)[k]]
            BY <3>2, <3>3 DEF New!Put
        <3> QED BY <2>3, <3>2, <3>4
    <2> HIDE DEF G
    <2>5. G = [k \in DOMAIN G |-> G[k]] /\ DOMAIN G = {l.name : l \in VarLocks(g)}
        BY <1>1, <2>2, <2>3, <2>4
    <2>6. \A l \in VarLocks(g) : G[l.name] = Range(l.ops)
        BY <1>1, <2>1, <2>2, <2>3, <2>4
    <2>7. Image(g).locks = G
        BY <2>5, <2>6, LocksFrom
    <2> QED BY <2>7 DEF G, D
<1> QED BY <1>2, <1>3

\* What forbids a call in the image.
LEMMA LocksOfIs ==
    ASSUME NEW f, FileOK(f), Apart(f.lines, LockLines), NEW n, n # Recent
    PROVE  New!LocksOf(Image(f), n) = IF HasLock(f.lines, n) THEN Range(LockOf(f.lines, n).ops) ELSE {}
BY LocksAre DEF New!LocksOf

\* An edit leaves the lock records of all other variables.
LEMMA OtherVarLocks ==
    ASSUME NEW f, FileOK(f), NEW g, FileOK(g), NEW ns, EditsLines(f, ns, g)
    PROVE  {l \in VarLocks(g) : l.name \notin ns} = {l \in VarLocks(f) : l.name \notin ns}
<1> DEFINE S == {l \in LockLines : l.name \notin ns}
<1>1. f.lines \in Seq(FileLines) /\ g.lines \in Seq(FileLines)
    BY DEF FileOK, FileTypes
<1>2. Only(g.lines, S) = Only(f.lines, S)
    BY DEF EditsLines
<1>3. Range(Only(g.lines, S)) = Range(g.lines) \cap S /\ Range(Only(f.lines, S)) = Range(f.lines) \cap S
    BY <1>1, OnlyRange
<1>4. Range(g.lines) \cap S = Range(f.lines) \cap S
    BY <1>2, <1>3
<1> QED BY <1>4 DEF VarLocks

-----------------------------------------------------------------------------
(***************************************************************************)
(* The calls that both engines take in the same way.                       *)
(***************************************************************************)
\* A file that both accept; the old call leaves the set old of files, the new one the
\* set new of images: both refuse, or every file that is left has one of the images.
BothAccept(f) == FileOK(f) /\ Apart(f.recs, SeenRecords) /\ Apart(f.lines, LockLines)
Agree(old, new) ==
    /\ new = {} <=> old = {}
    /\ \A g \in old : BothAccept(g) /\ Within(g) => Image(g) \in new

\* The parts of an image.
LEMMA ImageParts ==
    ASSUME NEW f, FileOK(f)
    PROVE  Image(f) = [recs |-> Image(f).recs, locks |-> Image(f).locks, hist |-> f.hist, recent |-> <<>>]
BY DEF Image

LEMMA LocksUnedited ==
    ASSUME NEW f, BothAccept(f), NEW g, BothAccept(g), g.lines = f.lines PROVE Image(g).locks = Image(f).locks
BY SameLocks DEF BothAccept, VarLocks

\* A record at the end is one of the image.
LEMMA RecordInImage ==
    ASSUME NEW f, FileOK(f), NEW g, FileOK(g), NEW n, Seen(n), NEW p \in Seq(Payload),
           g.recs = Append(f.recs, Record(n, p))
    PROVE  Image(g).recs = Append(Image(f).recs, New!Record(n, p))
<1> DEFINE r == Record(n, p)
<1>1. r \in FileRecords /\ r \in SeenRecords
    <2>1. r \in FileRecords /\ r.name = n
        BY RecordIs DEF Seen, Record
    <2> QED BY <2>1 DEF Seen, SeenRecords, Opaque
<1>2. f.recs \in Seq(FileRecords)
    BY DEF FileOK, FileTypes
<1>3. Image(f).recs = Only(f.recs, SeenRecords) /\ Image(g).recs = Only(g.recs, SeenRecords)
    BY ImageIs
<1>4. r = New!Record(n, p)
    BY DEF Record, New!Record
<1> HIDE DEF r
<1>5. Only(Append(f.recs, r), SeenRecords) = Append(Only(f.recs, SeenRecords), r)
    BY <1>1, <1>2, OnlyAppend
<1> QED BY <1>3, <1>4, <1>5 DEF r

\* A record of a seen name other than a corevar's is met; others are not named at all.
LEMMA NamedExists ==
    ASSUME NEW f, FileOK(f), NEW n, Seen(n), Record(n, Core) \notin Range(f.recs)
    PROVE  Exists(f, n) <=> n \in New!Names(Image(f))
<1>1. Range(f.recs) \subseteq FileRecords
    BY DEF FileOK, FileTypes, Range
<1>2. \A r \in Range(f.recs) : r = Record(r.name, r.val)
    BY <1>1 DEF FileRecords, Record
<1>3. n \in New!Names(Image(f)) <=> n \in Names(f)
    BY SeenNames
<1>4. \A r \in Range(f.recs) : r.name = n => r.val # Core
    BY <1>2
<1> QED BY <1>3, <1>4 DEF Exists, Names

LEMMA ExistsIsNamed ==
    ASSUME NEW f, FileOK(f), NEW n, Seen(n), Exists(f, n) PROVE n \in New!Names(Image(f))
BY SeenNames DEF Exists, Names

LEMMA AddVarAgrees ==
    ASSUME NEW f, BothAccept(f), NEW n \in UserNames, NEW v \in Values, Record(n, Core) \notin Range(f.recs)
    PROVE  Agree(AddVar(f, n, v), New!AddVar(Image(f), n, <<v>>))
<1>1. FileOK(f) /\ f \in FileTypes /\ Seen(n) /\ <<v>> \in Seq(Payload)
    BY KnownIsSeen, PayloadsAre DEF BothAccept, FileOK
<1>2. Exists(f, n) <=> n \in New!Names(Image(f))
    BY <1>1, NamedExists
<1> DEFINE new == [Image(f) EXCEPT !.recs = Append(@, New!Record(n, <<v>>))]
<1>3. /\ AddVar(f, n, v) = IF Exists(f, n) THEN {} ELSE {Add(f, n, <<v>>)}
      /\ New!AddVar(Image(f), n, <<v>>) = IF Exists(f, n) THEN {} ELSE {new}
    BY <1>2 DEF AddVar, When, New!AddVar, New!When
<1>4. ASSUME NEW g, BothAccept(g), g = Add(f, n, <<v>>) PROVE Image(g) = new
    <2>1. g.recs = Append(f.recs, Record(n, <<v>>)) /\ g.lines = f.lines /\ g.hist = f.hist /\ FileOK(g)
        BY <1>1, <1>4 DEF Add, FileTypes, BothAccept
    <2>2. Image(g).recs = Append(Image(f).recs, New!Record(n, <<v>>))
        BY <1>1, <2>1, RecordInImage
    <2>3. Image(g).locks = Image(f).locks
        BY <1>4, <2>1, LocksUnedited
    <2>4. /\ Image(g) = [recs |-> Image(g).recs, locks |-> Image(g).locks, hist |-> g.hist, recent |-> <<>>]
          /\ Image(f) = [recs |-> Image(f).recs, locks |-> Image(f).locks, hist |-> f.hist, recent |-> <<>>]
        BY <1>1, <2>1, ImageParts
    <2> QED BY <2>1, <2>2, <2>3, <2>4
<1> HIDE DEF new
<1> QED BY <1>3, <1>4 DEF Agree

\* The name is the variable's alone, and no lock forbids the call.
LEMMA PlainCall ==
    ASSUME NEW f, BothAccept(f), NEW n \in UserNames \cup AllItems(f), NEW op, Plain(f, n, op)
    PROVE  \E k \in DOMAIN f.recs, j \in DOMAIN Image(f).recs :
              /\ Seen(n) /\ n \in New!Names(Image(f)) /\ ~New!Locked(Image(f), n, op)
              /\ f.recs[k].name = n /\ f.recs[k].val = Value(f, n) /\ f.recs[k].val # Core /\ f.recs[k] \in SeenRecords
              /\ \A i \in DOMAIN f.recs : f.recs[i].name = n => i = k
              /\ \A i \in DOMAIN f.recs : Meets(n, f.recs[i]) <=> i = k
              /\ Found(f, n) /\ StaysAt(FileRecords, SeenRecords, f.recs, k, j)
              /\ Image(f).recs[j] = f.recs[k] /\ New!IndexOf(Image(f), n) = j
<1>1. Seen(n) /\ Exists(f, n) /\ (\A r \in Range(f.recs) : IsSuffix(n, r.name) => r.name = n)
      /\ ~New!Locked(Image(f), n, op)
    BY KnownIsSeen DEF BothAccept, Plain
<1>2. n \in New!Names(Image(f))
    BY <1>1, ExistsIsNamed DEF BothAccept
<1> QED BY <1>1, <1>2, PlainIs DEF BothAccept

LEMMA ChangePlainAgrees ==
    ASSUME NEW f, BothAccept(f), NEW n \in UserNames \cup AllItems(f), NEW v \in Values, Plain(f, n, "changevar")
    PROVE  Agree(ChangePlain(f, n, v), New!ChangeVar(Image(f), n, <<v>>))
<1>1. PICK k \in DOMAIN f.recs, j \in DOMAIN Image(f).recs :
         /\ Seen(n) /\ n \in New!Names(Image(f)) /\ ~New!Locked(Image(f), n, "changevar")
         /\ f.recs[k].name = n /\ f.recs[k].val = Value(f, n) /\ f.recs[k].val # Core /\ f.recs[k] \in SeenRecords
         /\ \A i \in DOMAIN f.recs : Meets(n, f.recs[i]) <=> i = k
         /\ Found(f, n) /\ StaysAt(FileRecords, SeenRecords, f.recs, k, j)
         /\ New!IndexOf(Image(f), n) = j
    BY PlainCall
<1> DEFINE r == Record(n, <<v>>)
           new == [Image(f) EXCEPT !.recs = [@ EXCEPT ![j] = r]]
<1>2. New!ChangeVar(Image(f), n, <<v>>) = {new}
    BY <1>1 DEF New!ChangeVar, New!When, New!SetValue, New!ReplaceAt, New!Record, Record
<1>3. ChangePlain(f, n, v) # {}
    BY <1>1 DEF ChangePlain, When
<1>4. ASSUME NEW g \in ChangePlain(f, n, v), BothAccept(g) PROVE Image(g) = new
    <2>1. /\ FileOK(g) /\ FileOK(f) /\ g.lines = f.lines /\ g.hist = f.hist
          /\ DOMAIN g.recs = DOMAIN f.recs
          /\ \A i \in DOMAIN f.recs :
                g.recs[i] = IF Meets(n, f.recs[i]) /\ f.recs[i].val = Value(f, n)
                            THEN Record(f.recs[i].name, <<v>>) ELSE f.recs[i]
        BY ChangePlainForm DEF BothAccept
    <2>2. g.recs \in Seq(FileRecords) /\ g.recs[k] = r /\ \A i \in DOMAIN f.recs : i # k => g.recs[i] = f.recs[i]
        BY <1>1, <2>1 DEF FileOK, FileTypes
    <2>3. r \in SeenRecords
        <3>1. r \in FileRecords /\ r.name = n
            BY <1>1, RecordIs, PayloadsAre DEF Seen, Record
        <3> QED BY <1>1, <3>1 DEF Seen, SeenRecords, Opaque
    <2>4. /\ Image(g).recs = Only(g.recs, SeenRecords) /\ Image(f).recs = Only(f.recs, SeenRecords)
        BY <2>1, ImageIs
    <2> HIDE DEF r
    <2>5. Image(g).recs = [Image(f).recs EXCEPT ![j] = r]
        BY <1>1, <2>1, <2>2, <2>3, <2>4 DEF StaysAt
    <2>6. Image(g).locks = Image(f).locks
        BY <1>4, <2>1, LocksUnedited
    <2>7. /\ Image(g) = [recs |-> Image(g).recs, locks |-> Image(g).locks, hist |-> g.hist, recent |-> <<>>]
          /\ Image(f) = [recs |-> Image(f).recs, locks |-> Image(f).locks, hist |-> f.hist, recent |-> <<>>]
        BY <2>1, ImageParts
    <2> QED BY <2>1, <2>5, <2>6, <2>7
<1> HIDE DEF new
<1> QED BY <1>2, <1>3, <1>4 DEF Agree

\* Payloads that joinvars finds are not empty together.
LEMMA PayloadsSome ==
    ASSUME NEW f, FileOK(f), NEW ns \in Seq(UserNames), ns # <<>>, \A n \in Range(ns) : Found(f, n)
    PROVE  Payloads(f, ns) # <<>>
<1> DEFINE parts == [i \in DOMAIN ns |-> IF Found(f, ns[i]) THEN Value(f, ns[i]) ELSE <<>>]
<1>1. f.recs \in Seq(FileRecords) /\ DOMAIN ns = 1..Len(ns) /\ Len(ns) \in Nat /\ Len(ns) # 0
    BY DEF FileOK, FileTypes
<1>2. \A i \in DOMAIN ns : Found(f, ns[i])
    BY DEF Range
<1>3. \A i \in DOMAIN ns : Value(f, ns[i]) \in Seq(Payload) /\ Value(f, ns[i]) # Core
    BY <1>1, <1>2, ValueSeq
<1>4. parts \in Seq(Seq(Payload)) /\ Len(parts) = Len(ns) /\ \A i \in DOMAIN ns : parts[i] # <<>>
    BY <1>1, <1>2, <1>3 DEF Core
<1> HIDE DEF parts
<1>5. parts # <<>>
    BY <1>1, <1>4
<1>6. PICK t \in Seq(Seq(Payload)), x \in Seq(Payload) : parts = Append(t, x) /\ Len(parts) = Len(t) + 1
    BY <1>4, <1>5, LastOne, Zenon
<1>7. x # <<>>
    <2>1. parts[Len(parts)] = x
        BY <1>6
    <2>2. Len(parts) \in DOMAIN ns
        BY <1>1, <1>4
    <2> QED BY <1>4, <2>1, <2>2
<1>8. FlattenSeq(parts) = FlattenSeq(t) \o x /\ FlattenSeq(t) \in Seq(Payload)
    BY <1>6, FlattenFacts
<1>9. FlattenSeq(parts) # <<>>
    <2> DEFINE u == FlattenSeq(t)
    <2>1. u \in Seq(Payload)
        BY <1>8
    <2> HIDE DEF u
    <2>2. Len(u \o x) = Len(u) + Len(x) /\ Len(u) \in Nat /\ Len(x) \in Nat /\ Len(x) # 0
        BY <1>7, <2>1
    <2>3. u \o x # <<>>
        BY <2>2
    <2> QED BY <1>8, <2>3 DEF u
<1> QED BY <1>9 DEF Payloads, parts

LEMMA JoinVarsAgrees ==
    ASSUME NEW f, BothAccept(f), NEW n \in UserNames, NEW ns \in Seq(UserNames), ns # <<>>,
           ~IsRoot(f, n), n \notin Names(f), \A m \in Range(ns) : Plain(f, m, "joinvars")
    PROVE  Agree(JoinVars(f, n, ns), New!JoinVars(Image(f), n, Range(ns)))
<1> DEFINE p == Payloads(f, ns)
           P == BoundedSeq(Values \cup {NullLine}, MaxPayload)
           with(v) == [Image(f) EXCEPT !.recs = Append(@, New!Record(n, v))]
<1>0. FileOK(f) /\ f \in FileTypes /\ Seen(n) /\ n \in Seq(Parts) /\ Range(ns) \subseteq UserNames /\ ns \in Seq(Seq(Parts))
    BY KnownIsSeen, NamesAre DEF BothAccept, FileOK, Range
<1>1. \A m \in Range(ns) : Found(f, m) /\ m \in New!Names(Image(f)) /\ ~New!Locked(Image(f), m, "joinvars")
    BY <1>0, PlainCall
<1>2. p # <<>> /\ p \in Seq(Payload)
    BY <1>0, <1>1, PayloadsSome, PayloadsSeq
<1>3. JoinVars(f, n, ns) = {Add(f, n, p)}
    BY <1>2 DEF JoinVars
<1>4. New!JoinVars(Image(f), n, Range(ns)) = {with(v) : v \in P}
    <2>1. n \notin New!Names(Image(f))
        BY <1>0, SeenNames
    <2>2. New!MayJoin(Image(f), Range(ns))
        BY <1>1 DEF New!MayJoin
    <2> QED BY <2>1, <2>2 DEF New!JoinVars, New!Joined
<1>5. <<>> \in P
    <2>1. <<>> \in [1..0 -> Values \cup {NullLine}] /\ 0 \in 0..MaxPayload
        BY LegacyConstantsOK DEF LegacyConstantsOK
    <2> QED BY <2>1, Zenon DEF BoundedSeq, SeqOf
<1> HIDE DEF p, P
<1>6. ASSUME NEW g, g = Add(f, n, p), BothAccept(g), Within(g) PROVE p \in P /\ Image(g) = with(p)
    <2>1. g.recs = Append(f.recs, Record(n, p)) /\ g.lines = f.lines /\ g.hist = f.hist /\ FileOK(g)
        BY <1>0, <1>6 DEF Add, FileTypes, BothAccept
    <2>2. Image(g).recs = Append(Image(f).recs, New!Record(n, p))
        BY <1>0, <1>2, <2>1, RecordInImage
    <2>3. Image(g).locks = Image(f).locks
        BY <1>6, <2>1, LocksUnedited
    <2>4. /\ Image(g) = [recs |-> Image(g).recs, locks |-> Image(g).locks, hist |-> g.hist, recent |-> <<>>]
          /\ Image(f) = [recs |-> Image(f).recs, locks |-> Image(f).locks, hist |-> f.hist, recent |-> <<>>]
        BY <1>0, <2>1, ImageParts
    <2>5. Image(g) = with(p)
        BY <2>1, <2>2, <2>3, <2>4
    <2>6. p \in P
        <3> DEFINE r == Record(n, p)
        <3>1. r \in FileRecords /\ r.val = p
            BY <1>0, <1>2, RecordIs DEF Record
        <3> HIDE DEF r
        <3>2. r \in Range(g.recs)
            <4>1. Range(Append(f.recs, r)) = Range(f.recs) \cup {r}
                BY <1>0, <3>1, RangeAppend DEF FileTypes
            <4> QED BY <2>1, <4>1 DEF r
        <3>3. Len(p) <= MaxPayload
            BY <1>6, <3>1, <3>2 DEF Within
        <3> DEFINE m == Len(p)
        <3>4. m \in 0..MaxPayload /\ p \in [1..m -> Values \cup {NullLine}]
            BY <1>2, <3>3, LegacyConstantsOK DEF Payload, LegacyConstantsOK
        <3> QED BY <3>4, Zenon DEF BoundedSeq, SeqOf, P
    <2> QED BY <2>5, <2>6
<1> HIDE DEF with
<1> QED BY <1>3, <1>4, <1>5, <1>6 DEF Agree

\* The item added last is entered in a lock record of its own.
LEMMA RecentEntered ==
    ASSUME NEW f, BothAccept(f), NEW n \in StalkNames, NEW v, NEW g, BothAccept(g), AddsItem(f, n, StalkItem(f, n), v, g)
    PROVE  Image(g).locks = Image(f).locks
<1> DEFINE item == StalkItem(f, n)
           o == <<item>>
<1>1. Recent \in Seq(Parts) /\ item \in Seq(Parts)
    BY NamesAre, StalkItemIs DEF Recent, BothAccept
<1>2. o \in Seq(LockOps \cup Seq(Parts)) /\ o # <<>>
    BY <1>1, LockOps1
<1>3. \/ HasLock(f.lines, Recent) /\ g.lines = ReplaceAllLines(f.lines, LockOf(f.lines, Recent), Lock(Recent, o))
      \/ g.lines = Append(f.lines, Lock(Recent, o))
    BY DEF AddsItem
<1> HIDE DEF o
<1>4. EditsLines(f, {Recent}, g)
    BY <1>1, <1>2, <1>3, LockWritten DEF BothAccept
<1>5. {l \in VarLocks(g) : l.name \notin {Recent}} = {l \in VarLocks(f) : l.name \notin {Recent}}
    BY <1>4, OtherVarLocks DEF BothAccept
<1>6. VarLocks(g) = VarLocks(f)
    BY <1>5 DEF VarLocks
<1> QED BY <1>6, SameLocks DEF BothAccept

\* Where the items count up, the next one has the number after the last.
LEMMA NextCounts ==
    ASSUME NEW f, FileOK(f), NEW n \in StalkNames, Contiguous(f, n)
    PROVE  StalkItem(f, n) = New!NextItem(Image(f), n) /\ New!Items(Image(f), n) = Items(f, n)
<1> DEFINE items == Items(f, n)
           l == Len(items)
           N == {1} \cup {Number(i) : i \in Range(items)}
<1>1. New!Items(Image(f), n) = items
    BY ImageIs DEF New!Items, Items, IsRoot
<1>2. items \in Seq(Seq(Parts)) /\ DOMAIN items = 1..l /\ l \in Nat /\ n \in Seq(Parts)
    BY HistoryIs, NamesAre
<1>3. \A k \in DOMAIN items : items[k] = Append(n, k)
    BY DEF Contiguous
<1> HIDE DEF items
<1>4. \A k \in DOMAIN items : Number(items[k]) = k
    <2> TAKE k \in DOMAIN items
    <2>1. k \in Parts /\ items[k] = Append(n, k)
        BY <1>2, <1>3, NamesAre
    <2>2. Last(Append(n, k)) = k
        BY <1>2, <2>1 DEF Last
    <2> QED BY <2>1, <2>2 DEF Number
<1>5. NextNumber(items) = l + 1
    <2>1. CASE items = <<>>
        BY <2>1 DEF NextNumber
    <2>2. CASE items # <<>>
        <3>1. l # 0
            BY <1>2, <2>2
        <3>2. N \subseteq 0..l /\ l \in N /\ N # {}
            <4>1. \A i \in Range(items) : \E k \in 1..l : i = items[k]
                BY <1>2 DEF Range
            <4>2. l \in 1..l /\ 1 \in 1..l
                BY <1>2, <3>1
            <4>3. items[l] \in Range(items)
                BY <1>2, <4>2 DEF Range
            <4>4. Number(items[l]) = l
                BY <1>2, <1>4, <4>2
            <4> HIDE DEF l
            <4>5. N \subseteq 1..l
                BY <1>2, <1>4, <4>1, <4>2
            <4>6. l \in N
                BY <4>3, <4>4
            <4> HIDE DEF N
            <4> QED BY <1>2, <4>5, <4>6
        <3>3. NextNumber(items) = Max(N) + 1
            BY <2>2 DEF NextNumber
        <3> HIDE DEF N, l
        <3>4. Max(N) \in N /\ \A k \in N : k <= Max(N)
            BY <1>2, <3>2, MaxIs
        <3>5. Max(N) = l
            <4>1. Max(N) \in 0..l /\ l <= Max(N)
                BY <3>2, <3>4
            <4> QED BY <1>2, <4>1
        <3> QED BY <3>3, <3>5 DEF l
    <2> QED BY <2>1, <2>2
<1> QED BY <1>1, <1>5 DEF StalkItem, New!NextItem, items

LEMMA RecentSet ==
    ASSUME NEW r, NEW l, NEW h, NEW x, NEW y
    PROVE  [[recs |-> r, locks |-> l, hist |-> h, recent |-> x] EXCEPT !.recent = y]
           = [recs |-> r, locks |-> l, hist |-> h, recent |-> y]
OBVIOUS

\* Images without their most-recent list, which the file does not have.
Unlisted(images) == {[i EXCEPT !.recent = <<>>] : i \in images}

LEMMA StalkAgrees ==
    ASSUME NEW f, BothAccept(f), NEW n \in StalkNames, NEW v \in Values, Plain(f, n, "stalkvar"),
           Contiguous(f, n), Value(f, n) # <<v>>, StalkItem(f, n) \notin Names(f)
    PROVE  Agree(Stalk(f, n, v), Unlisted(New!Stalk(Image(f), n, <<v>>)))
<1> DEFINE item == StalkItem(f, n)
           p == <<v>>
           new == [recs |-> Append(Image(f).recs, New!Record(item, p)), locks |-> Image(f).locks,
                   hist |-> New!Put(f.hist, n, Append(Items(f, n), item)), recent |-> <<>>]
<1>0. FileOK(f) /\ n \in UserNames /\ Seen(item) /\ p \in Seq(Payload)
    BY KnownIsSeen, NamesAre, PayloadsAre DEF BothAccept
<1>1. PICK k \in DOMAIN f.recs, j \in DOMAIN Image(f).recs :
         /\ n \in New!Names(Image(f)) /\ ~New!Locked(Image(f), n, "stalkvar")
         /\ f.recs[k].val = Value(f, n) /\ Found(f, n)
         /\ Image(f).recs[j] = f.recs[k] /\ New!IndexOf(Image(f), n) = j
    BY <1>0, PlainCall
<1>2. item = New!NextItem(Image(f), n) /\ New!Items(Image(f), n) = Items(f, n)
    BY <1>0, NextCounts
<1>3. Image(f) = [recs |-> Image(f).recs, locks |-> Image(f).locks, hist |-> f.hist, recent |-> <<>>]
    BY <1>0, ImageParts
<1>4. item \notin New!Names(Image(f))
    BY <1>0, SeenNames
<1> DEFINE withItem == New!WithItem(Image(f), n, p)
           some == [withItem EXCEPT !.recent =
                       IF New!NextItem(Image(f), n) \in New!Range(@) THEN @ ELSE Append(@, New!NextItem(Image(f), n))]
<1>5. New!Stalk(Image(f), n, p) = {some}
    <2>1. New!StalkChecks(Image(f), n, p)
        BY <1>1, <1>2, <1>4 DEF New!StalkChecks
    <2> QED BY <2>1 DEF New!Stalk, New!When
<1>6. [some EXCEPT !.recent = <<>>] = new
    <2>1. withItem = [Image(f) EXCEPT !.recs = Append(@, New!Record(item, p)),
                                      !.hist = New!Put(@, n, Append(Items(f, n), item))]
        BY <1>2 DEF New!WithItem
    <2>2. withItem = [recs |-> Append(Image(f).recs, New!Record(item, p)), locks |-> Image(f).locks,
                      hist |-> New!Put(f.hist, n, Append(Items(f, n), item)), recent |-> <<>>]
        <3> DEFINE img == Image(f)
                   R == Image(f).recs
                   L == Image(f).locks
                   H == f.hist
                   x == New!Record(item, p)
                   i == Append(Items(f, n), item)
        <3>1. img = [recs |-> R, locks |-> L, hist |-> H, recent |-> <<>>]
            BY <1>3
        <3>2. withItem = [img EXCEPT !.recs = Append(@, x), !.hist = New!Put(@, n, i)]
            BY <2>1
        <3> HIDE DEF withItem, img, R, L, H, x, i
        <3>3. withItem = [recs |-> Append(R, x), locks |-> L, hist |-> New!Put(H, n, i), recent |-> <<>>]
            BY <3>1, <3>2
        <3> QED BY <3>3 DEF R, L, H, x, i
    <2> DEFINE R == Append(Image(f).recs, New!Record(item, p))
               L == Image(f).locks
               H == New!Put(f.hist, n, Append(Items(f, n), item))
               X == IF New!NextItem(Image(f), n) \in New!Range(withItem.recent) THEN withItem.recent
                    ELSE Append(withItem.recent, New!NextItem(Image(f), n))
    <2>3. some = [withItem EXCEPT !.recent = X]
        OBVIOUS
    <2>4. withItem = [recs |-> R, locks |-> L, hist |-> H, recent |-> <<>>]
        BY <2>2
    <2>5. new = [recs |-> R, locks |-> L, hist |-> H, recent |-> <<>>]
        OBVIOUS
    <2> HIDE DEF withItem, some, new, R, L, H, X
    <2>6. some = [recs |-> R, locks |-> L, hist |-> H, recent |-> X]
        BY <2>3, <2>4, RecentSet
    <2> QED BY <2>5, <2>6, RecentSet
<1>7. Stalk(f, n, v) # {} /\ \A g \in Stalk(f, n, v) : g = StalkNew(f, n, v)
    BY <1>1 DEF Stalk
<1>8. ASSUME NEW g \in Stalk(f, n, v), BothAccept(g) PROVE Image(g) = new
    <2>1. AddsItem(f, n, item, v, g)
        <3> DEFINE f2 == Add(WithHistory(f, n, item), item, <<v>>)
        <3>1. item \in ItemsOf(n) /\ item \in Seq(Parts)
            BY <1>0, StalkItemIs
        <3>2. CASE g = Forget(f, n)
            <4>1. Stalk(f, n, v) = {StalkNew(f, n, v)}
                BY <1>1 DEF Stalk
            <4>2. g = WithRecent(f2, item)
                BY <4>1 DEF StalkNew
            <4>3. /\ FileOK(WithHistory(f, n, item)) /\ WithHistory(f, n, item).recs = f.recs
                BY <1>0, <3>1, WithHistoryForm
            <4>4. FileOK(f2) /\ f2.recs = Append(f.recs, Record(item, <<v>>))
                BY <1>0, <3>1, <4>3, AddForm, PayloadsAre DEF Add, FileOK, FileTypes
            <4>5. g.recs = f2.recs
                BY <3>1, <4>2, <4>4, WithRecentForm
            <4>6. g.recs = f.recs
                BY <1>0, <3>2 DEF Forget, FileOK, FileTypes
            <4>7. f.recs \in Seq(FileRecords) /\ Record(item, <<v>>) \in FileRecords
                BY <1>0, <3>1, RecordIs, PayloadsAre DEF FileOK, FileTypes
            <4>8. Append(f.recs, Record(item, <<v>>)) # f.recs
                BY <4>7
            <4> QED BY <4>4, <4>5, <4>6, <4>8
        <3> QED BY <1>0, <3>2, StalkForm
    <2>2. Image(g).recs = Append(Image(f).recs, New!Record(item, p))
        <3>1. FileOK(g) /\ g.recs = Append(f.recs, Record(item, p))
            BY <2>1 DEF AddsItem
        <3> HIDE DEF item, p
        <3> QED BY <1>0, <3>1, RecordInImage
    <2>3. Image(g).locks = Image(f).locks
        BY <1>8, <2>1, RecentEntered
    <2>4. g.hist = New!Put(f.hist, n, Append(Items(f, n), item))
        <3>1. g.hist = [m \in DOMAIN g.hist |-> g.hist[m]]
            BY <2>1 DEF AddsItem, FileOK, FileTypes, Histories
        <3>2. /\ DOMAIN g.hist = DOMAIN f.hist \cup {n}
              /\ \A m \in DOMAIN f.hist \cup {n} : g.hist[m] = IF m = n THEN Append(Items(f, n), item) ELSE f.hist[m]
            BY <2>1 DEF AddsItem
        <3> HIDE DEF item
        <3> QED BY <3>1, <3>2 DEF New!Put
    <2>5. Image(g) = [recs |-> Image(g).recs, locks |-> Image(g).locks, hist |-> g.hist, recent |-> <<>>]
        BY <2>1, ImageParts DEF AddsItem
    <2> QED BY <2>2, <2>3, <2>4, <2>5
<1> HIDE DEF new, some
<1>9. Unlisted(New!Stalk(Image(f), n, p)) = {new}
    BY <1>5, <1>6 DEF Unlisted
<1> QED BY <1>7, <1>8, <1>9 DEF Agree
\* The lock of a variable taken out.
LEMMA LocksTakenOut ==
    ASSUME NEW f, FileOK(f), Apart(f.lines, LockLines), NEW n, n # Recent
    PROVE  VarLocks(WithoutLocks(f, <<n>>)) = {l \in VarLocks(f) : l.name # n}
<1> DEFINE ns == <<n>>
           g == WithoutLocks(f, ns)
<1>1. DOMAIN ns = 1..Len(ns) /\ Len(ns) \in Nat /\ Range(ns) = {n}
    BY DEF Range
<1> HIDE DEF ns
<1>2. f \in FileTypes /\ f.lines # <<>>
    BY DEF FileOK
<1>3. FileOK(g)
    BY <1>1, WithoutLocksForm
<1>4. EditsLines(f, {n}, g)
    BY <1>1, WithoutLocksEdit
<1>5. PICK s \in Seq(FileLines) :
         /\ g = [f EXCEPT !.lines = s]
         /\ Apart(f.lines, LockLines) => \A l \in Range(s) : l \in LockLines => l.name \notin Range(ns)
    BY <1>1, <1>2, WithoutLocksKeep
<1>6. g.lines = s
    BY <1>2, <1>5 DEF FileTypes
<1> HIDE DEF g
<1>7. \A l \in VarLocks(g) : l.name # n
    BY <1>1, <1>5, <1>6 DEF VarLocks
<1>8. {l \in VarLocks(g) : l.name \notin {n}} = {l \in VarLocks(f) : l.name \notin {n}}
    BY <1>3, <1>4, OtherVarLocks
<1>9. VarLocks(g) = {l \in VarLocks(f) : l.name # n}
    BY <1>7, <1>8
<1> QED BY <1>9 DEF g, ns

LEMMA RemoveVarAgrees ==
    ASSUME NEW f, BothAccept(f), NEW n \in UserNames, Plain(f, n, "removevar"), ~IsRoot(f, n), n \notin AllItems(f)
    PROVE  Agree(RemoveVar(f, n), New!RemoveDirect(Image(f), n))
<1>0. FileOK(f) /\ n \in Seq(Parts) /\ n # Recent /\ f.recs \in Seq(FileRecords)
    BY NamesAre, LegacyConstantsOK DEF BothAccept, FileOK, FileTypes, Recent, LegacyConstantsOK
<1>1. PICK k \in DOMAIN f.recs, j \in DOMAIN Image(f).recs :
         /\ n \in New!Names(Image(f)) /\ ~New!Locked(Image(f), n, "removevar")
         /\ f.recs[k].name = n /\ f.recs[k].val = Value(f, n) /\ f.recs[k] \in SeenRecords
         /\ \A i \in DOMAIN f.recs : f.recs[i].name = n => i = k
         /\ Found(f, n) /\ Image(f).recs[j] = f.recs[k] /\ New!IndexOf(Image(f), n) = j
    BY PlainCall
<1> DEFINE x == f.recs[k]
           new == New!WithoutVar(Image(f), n)
<1>2. New!RemoveDirect(Image(f), n) = {new}
    <2>1. n \notin DOMAIN Image(f).hist \cup New!HistoryItems(Image(f))
        <3>1. Image(f).hist = f.hist
            BY <1>0, ImageIs
        <3>2. New!HistoryItems(Image(f)) = AllItems(f)
            BY <3>1 DEF New!HistoryItems, AllItems, New!Range, Range
        <3> QED BY <3>1, <3>2 DEF IsRoot
    <2> QED BY <1>1, <2>1 DEF New!RemoveDirect, New!MayRemove, New!When
<1>3. RemoveVar(f, n) # {}
    BY DEF RemoveVar, When
<1>4. ASSUME NEW g \in RemoveVar(f, n), BothAccept(g) PROVE Image(g) = new
    <2> DEFINE h == WithoutRecord(f, n, Value(f, n))
    <2>1. g = WithoutLocks(h, <<n>>)
        BY <1>1 DEF RemoveVar, When
    <2>2. h = [f EXCEPT !.recs = Without(f.recs, {Record(n, Value(f, n))})]
        BY DEF WithoutRecord
    <2>3. x = Record(n, Value(f, n))
        <3>1. x \in FileRecords /\ x.name = n /\ x.val = Value(f, n)
            BY <1>0, <1>1
        <3> HIDE DEF x
        <3> QED BY <3>1 DEF Record, FileRecords
    <2>4. Without(f.recs, {x}) \in Seq(FileRecords)
        BY <1>0, WithoutForm
    <2>5. FileOK(h) /\ h.lines = f.lines /\ h.hist = f.hist /\ h.recs = Without(f.recs, {x})
        <3>1. FileOK(h)
            BY <1>0, <2>2, <2>3, <2>4, NewRecords
        <3> QED BY <1>0, <2>2, <2>3, <3>1 DEF FileOK, FileTypes
    <2> HIDE DEF h, x
    <2>6. Image(g).locks = New!Without(Image(f).locks, n)
        <3>1. VarLocks(g) = {l \in VarLocks(h) : l.name # n}
            BY <1>0, <2>1, <2>5, LocksTakenOut DEF BothAccept
        <3>2. VarLocks(h) = VarLocks(f)
            BY <2>5 DEF VarLocks
        <3> QED BY <1>4, <3>1, <3>2, LocksDropped DEF BothAccept
    <2>7. FileOK(g) /\ g.recs = h.recs /\ g.hist = h.hist
        <3> DEFINE ns == <<n>>
        <3>1. DOMAIN ns = 1..Len(ns) /\ Len(ns) \in Nat
            OBVIOUS
        <3> HIDE DEF ns
        <3>2. /\ FileOK(WithoutLocks(h, ns)) /\ WithoutLocks(h, ns).recs = h.recs
              /\ WithoutLocks(h, ns).hist = h.hist
            BY <2>5, <3>1, WithoutLocksForm
        <3> QED BY <2>1, <3>2 DEF ns
    <2>8. Image(g).recs = New!RemoveFirst(Image(f).recs, x)
        <3> DEFINE s == f.recs
        <3>1. Image(f).recs = Only(s, SeenRecords) /\ Image(g).recs = Only(g.recs, SeenRecords)
            BY <1>0, <2>7, ImageIs
        <3>2. g.recs = Only(s, Range(s) \ {x})
            BY <2>5, <2>7 DEF Without
        <3>3. s \in Seq(FileRecords) /\ k \in DOMAIN s /\ s[k] = x /\ x \in SeenRecords
              /\ \A i \in DOMAIN s : s[i] = x => i = k
            BY <1>0, <1>1 DEF x
        <3> HIDE DEF s
        <3>4. New!RemoveFirst(Only(s, SeenRecords), x) = Only(s, SeenRecords \ {x})
            BY <3>3, OnlyRemoved
        <3>5. Only(Only(s, Range(s) \ {x}), SeenRecords) = Only(s, SeenRecords \cap (Range(s) \ {x}))
            BY <3>3, OnlyTwice
        <3>6. Only(s, SeenRecords \cap (Range(s) \ {x})) = Only(s, SeenRecords \ {x})
            <4>1. (SeenRecords \cap (Range(s) \ {x})) \cap Range(s) = (SeenRecords \ {x}) \cap Range(s)
                OBVIOUS
            <4> QED BY <4>1, OnlyOfRange
        <3> QED BY <3>1, <3>2, <3>4, <3>5, <3>6
    <2>9. /\ Image(g) = [recs |-> Image(g).recs, locks |-> Image(g).locks, hist |-> g.hist, recent |-> <<>>]
          /\ Image(f) = [recs |-> Image(f).recs, locks |-> Image(f).locks, hist |-> f.hist, recent |-> <<>>]
        BY <1>0, <2>7, ImageParts
    <2>10. new = [Image(f) EXCEPT !.recs = New!RemoveFirst(Image(f).recs, x), !.locks = New!Without(Image(f).locks, n)]
        BY <1>1 DEF New!WithoutVar, x
    <2> DEFINE r == New!RemoveFirst(Image(f).recs, x)
               l == New!Without(Image(f).locks, n)
    <2>11. Image(g) = [recs |-> r, locks |-> l, hist |-> f.hist, recent |-> <<>>]
        BY <2>5, <2>6, <2>7, <2>8, <2>9
    <2>12. new = [recs |-> r, locks |-> l, hist |-> f.hist, recent |-> <<>>]
        <3> DEFINE img == Image(f)
        <3>1. new = [img EXCEPT !.recs = r, !.locks = l]
            BY <2>10
        <3>2. img = [recs |-> Image(f).recs, locks |-> Image(f).locks, hist |-> f.hist, recent |-> <<>>]
            BY <2>9
        <3> HIDE DEF new, r, l, img
        <3> QED BY <3>1, <3>2
    <2> QED BY <2>11, <2>12
<1> HIDE DEF new
<1> QED BY <1>2, <1>3, <1>4 DEF Agree

\* The lock of a variable renamed.
RenamesLock(f, n, m, g) ==
    /\ DOMAIN g.lines = DOMAIN f.lines
    /\ \A i \in DOMAIN f.lines :
          g.lines[i] = IF IsLock(f.lines[i]) /\ f.lines[i].name = n THEN Lock(m, f.lines[i].ops) ELSE f.lines[i]

LEMMA LocksRenamed ==
    ASSUME NEW f, FileOK(f), Apart(f.lines, LockLines), NEW n, n # Recent, NEW m \in Seq(Parts), m # Recent,
           NEW g, RenamesLock(f, n, m, g), ~(HasLock(f.lines, n) /\ HasLock(f.lines, m))
    PROVE  MovesLock(f, n, m, g)
<1> DEFINE s == f.lines
           old == LockOf(s, n)
           new == Lock(m, old.ops)
<1>1. s \in Seq(FileLines) /\ \A i \in DOMAIN s : s[i] \in FileLines
    BY DEF FileOK, FileTypes
<1>2. \A i \in DOMAIN s : IsLock(s[i]) <=> s[i] \in LockLines
    BY <1>1, LockLinesAre
<1>3. \A h : VarLocks(h) = {l \in Range(h.lines) : l \in LockLines /\ l.name # Recent}
    BY DEF VarLocks
<1>4. HasLock(s, n) <=> \E i \in DOMAIN s : s[i] \in LockLines /\ s[i].name = n
    BY <1>1, <1>2, LockIs
<1>5. CASE ~HasLock(s, n)
    <2>1. \A i \in DOMAIN s : g.lines[i] = s[i]
        BY <1>2, <1>4, <1>5 DEF RenamesLock
    <2>2. Range(g.lines) = Range(s)
        BY <2>1 DEF Range, RenamesLock
    <2> QED BY <1>3, <1>5, <2>2 DEF MovesLock
<1>6. CASE HasLock(s, n)
    <2>1. old \in VarLocks(f) /\ old.name = n /\ \A l \in VarLocks(f) : l.name = n => l = old
        BY <1>6, OneLock
    <2>2. new \in LockLines /\ new.name = m
        <3>1. old \in LockLines
            BY <2>1 DEF VarLocks
        <3>2. old.ops \in Seq(LockOps \cup Seq(Parts))
            BY <3>1 DEF LockLines
        <3> HIDE DEF old
        <3>3. new \in FileLines /\ IsLock(new) /\ new.name = m
            BY <3>2, LockIn
        <3> QED BY <3>3, LockLinesAre
    <2>3. ASSUME NEW i \in DOMAIN s, s[i] \in LockLines, s[i].name = n PROVE g.lines[i] = new
        <3>1. s[i] \in VarLocks(f)
            BY <2>3 DEF VarLocks, Range
        <3>2. s[i] = old
            BY <2>1, <2>3, <3>1
        <3>3. g.lines[i] = Lock(m, s[i].ops)
            BY <1>2, <2>3 DEF RenamesLock
        <3> QED BY <3>2, <3>3
    <2>4. ASSUME NEW i \in DOMAIN s, ~(s[i] \in LockLines /\ s[i].name = n) PROVE g.lines[i] = s[i]
        BY <1>2, <2>4 DEF RenamesLock
    <2>5. PICK k \in DOMAIN s : s[k] \in LockLines /\ s[k].name = n
        BY <1>4, <1>6
    <2> HIDE DEF old, new
    <2>6. \A l \in VarLocks(g) : l = new \/ (l \in VarLocks(f) /\ l.name # n)
        <3> SUFFICES ASSUME NEW l \in VarLocks(g) PROVE l = new \/ (l \in VarLocks(f) /\ l.name # n)
            OBVIOUS
        <3>1. PICK i \in DOMAIN s : g.lines[i] = l /\ l \in LockLines /\ l.name # Recent
            BY DEF VarLocks, Range, RenamesLock
        <3> QED BY <2>3, <2>4, <3>1 DEF VarLocks, Range
    <2>7. new \in VarLocks(g)
        BY <2>2, <2>3, <2>5 DEF VarLocks, Range, RenamesLock
    <2>8. \A l \in VarLocks(f) : l.name # n => l \in VarLocks(g)
        BY <2>4 DEF VarLocks, Range, RenamesLock
    <2> DEFINE A == {l \in VarLocks(f) : l.name # n}
    <2>9. VarLocks(g) = A \cup {new}
        BY <2>6, <2>7, <2>8
    <2> QED BY <1>6, <2>9 DEF new, old, MovesLock
<1> QED BY <1>5, <1>6

LEMMA EndInSame == ASSUME NEW n \in Seq(Parts), NEW m \in Seq(Parts) PROVE EndIn(n, m, n) = m
<1>1. Len(n) \in Nat
    OBVIOUS
<1>2. SubSeq(n, 1, Len(n) - Len(n)) = <<>>
    BY <1>1
<1> QED BY <1>2 DEF EndIn

LEMMA RenameVarAgrees ==
    ASSUME NEW f, BothAccept(f), NEW n \in UserNames, NEW m \in UserNames, Plain(f, n, "renamevar_stx"),
           ~IsRoot(f, n), n \notin AllItems(f), m \notin Names(f), ~(HasLock(f.lines, n) /\ HasLock(f.lines, m))
    PROVE  Agree(RenameVar(f, n, m), New!RenameDirect(Image(f), n, m))
<1>0. /\ FileOK(f) /\ n \in Seq(Parts) /\ n # Recent /\ m \in Seq(Parts) /\ m # Recent /\ Seen(m)
      /\ f.recs \in Seq(FileRecords) /\ Image(f).recs \in Seq(FileRecords)
    BY NamesAre, KnownIsSeen, ImageIs, LegacyConstantsOK DEF BothAccept, FileOK, FileTypes, Recent, LegacyConstantsOK
<1>1. PICK k \in DOMAIN f.recs, j \in DOMAIN Image(f).recs :
         /\ n \in New!Names(Image(f)) /\ ~New!Locked(Image(f), n, "renamevar_stx")
         /\ f.recs[k].name = n /\ f.recs[k].val = Value(f, n) /\ f.recs[k] \in SeenRecords
         /\ \A i \in DOMAIN f.recs : Meets(n, f.recs[i]) <=> i = k
         /\ Found(f, n) /\ StaysAt(FileRecords, SeenRecords, f.recs, k, j)
         /\ Image(f).recs[j] = f.recs[k] /\ New!IndexOf(Image(f), n) = j
    BY PlainCall
<1> DEFINE img == Image(f)
           r == Record(m, Value(f, n))
           recs == [img.recs EXCEPT ![j] = r]
           locks == New!Moved(img.locks, n, m)
           new == [recs |-> recs, locks |-> locks, hist |-> f.hist, recent |-> <<>>]
<1>2. img = [recs |-> img.recs, locks |-> img.locks, hist |-> f.hist, recent |-> <<>>]
    BY <1>0, ImageParts
<1>n. n # m
    BY <1>1 DEF Names, Range
<1>3. /\ n \in New!Names(img) /\ m \notin New!Names(img) /\ ~New!Locked(img, n, "renamevar_stx")
      /\ n \notin New!HistoryItems(img) /\ n \notin DOMAIN img.hist
    <2>1. img.hist = f.hist
        BY <1>2
    <2>2. New!HistoryItems(img) = AllItems(f)
        BY <2>1 DEF New!HistoryItems, AllItems, New!Range, Range
    <2>3. m \notin New!Names(img)
        BY <1>0, SeenNames
    <2> QED BY <1>1, <2>1, <2>2, <2>3 DEF IsRoot
<1>4. \A x : New!NewName(img, n, m, x) = IF x = n THEN m ELSE x
    BY <1>3 DEF New!NewName
<1>5. New!RenamedHistory(img, n, m) = f.hist
    BY <1>2, <1>3 DEF New!RenamedHistory
<1>6. New!RenamedRecords(img, n, m) = recs
    <2> DEFINE old == img.recs
    <2>1. \A i \in DOMAIN old : New!IndexOf(img, old[i].name) = i
        BY <1>0, IndexIs DEF BothAccept
    <2>2. \A i \in DOMAIN old : old[i] \in FileRecords /\ (old[i].name = n <=> i = j)
        BY <1>0, <1>1, <2>1
    <2>3. New!RenamedRecords(img, n, m) =
             [i \in DOMAIN old |-> IF i = New!IndexOf(img, old[i].name)
                                   THEN [old[i] EXCEPT !.name = New!NewName(img, n, m, @)] ELSE old[i]]
        BY DEF New!RenamedRecords
    <2>4. recs = [i \in DOMAIN old |-> IF i = j THEN r ELSE old[i]]
        BY <1>0, <1>1
    <2> HIDE DEF recs
    <2>5. old[j].val = Value(f, n) /\ old[j].name = n
        BY <1>1
    <2> HIDE DEF img, old
    <2>6. \A i \in DOMAIN old : [old[i] EXCEPT !.name = New!NewName(img, n, m, @)] = IF i = j THEN r ELSE old[i]
        BY <1>4, <2>2, <2>5 DEF FileRecords, Record
    <2> QED BY <2>1, <2>3, <2>4, <2>6
<1> HIDE DEF recs, locks
<1>7. New!RenameDirect(img, n, m) = {new}
    <2> DEFINE some == [img EXCEPT !.recs = recs, !.locks = locks, !.hist = f.hist]
    <2>1. New!RenameOverlay(img, n, m) = {some}
        BY <1>3, <1>5, <1>6 DEF New!RenameOverlay, New!When, locks
    <2> DEFINE rs == img.recs
               ls == img.locks
    <2>2. some = new
        <3> DEFINE b == [img EXCEPT !.recs = recs]
                   c == [b EXCEPT !.locks = locks]
                   d == [c EXCEPT !.hist = f.hist]
        <3>1. img = [recs |-> rs, locks |-> ls, hist |-> f.hist, recent |-> <<>>]
            BY <1>2
        <3> HIDE DEF img, rs, ls
        <3>2. b = [recs |-> recs, locks |-> ls, hist |-> f.hist, recent |-> <<>>]
            BY <3>1
        <3> HIDE DEF b
        <3>3. c = [recs |-> recs, locks |-> locks, hist |-> f.hist, recent |-> <<>>]
            BY <3>2
        <3> HIDE DEF c
        <3>4. d = [recs |-> recs, locks |-> locks, hist |-> f.hist, recent |-> <<>>]
            BY <3>3
        <3>5. some = d
            BY DEF b, c
        <3> QED BY <3>4, <3>5
    <2> HIDE DEF some
    <2> DEFINE listed(i) == [i EXCEPT !.recent = [x \in DOMAIN @ |-> New!NewName(img, n, m, @[x])]]
    <2>3. New!RenameDirect(img, n, m) = {listed(new)}
        <3>1. New!RenameDirect(img, n, m) = {listed(i) : i \in New!RenameOverlay(img, n, m)}
            BY DEF New!RenameDirect
        <3> HIDE DEF listed, new
        <3> QED BY <2>1, <2>2, <3>1
    <2>4. [i \in DOMAIN new.recent |-> New!NewName(img, n, m, new.recent[i])] = <<>>
        <3>1. DOMAIN new.recent = {}
            OBVIOUS
        <3> HIDE DEF new
        <3> QED BY <3>1
    <2>5. listed(new) = [new EXCEPT !.recent = <<>>]
        BY <2>4
    <2>6. [new EXCEPT !.recent = <<>>] = new
        BY RecentSet
    <2> QED BY <2>3, <2>5, <2>6
<1>8. RenameVar(f, n, m) # {}
    BY <1>1 DEF RenameVar, When
<1>9. ASSUME NEW g \in RenameVar(f, n, m), BothAccept(g) PROVE Image(g) = new
    <2>1. /\ FileOK(g) /\ g.hist = f.hist
          /\ DOMAIN g.recs = DOMAIN f.recs /\ DOMAIN g.lines = DOMAIN f.lines
          /\ \A i \in DOMAIN f.recs :
                g.recs[i] = IF Meets(n, f.recs[i]) /\ f.recs[i].val = Value(f, n)
                            THEN Record(EndIn(n, m, f.recs[i].name), f.recs[i].val) ELSE f.recs[i]
          /\ \A i \in DOMAIN f.lines :
                g.lines[i] = IF IsLock(f.lines[i]) /\ f.lines[i].name = n
                             THEN Lock(m, f.lines[i].ops) ELSE f.lines[i]
        BY <1>0, RenameVarForm
    <2>2. EndIn(n, m, n) = m
        BY <1>0, EndInSame
    <2>3. g.recs \in Seq(FileRecords) /\ g.recs[k] = r /\ \A i \in DOMAIN f.recs : i # k => g.recs[i] = f.recs[i]
        BY <1>1, <2>1, <2>2 DEF FileOK, FileTypes
    <2>4. r \in SeenRecords
        <3>1. Value(f, n) \in Seq(Payload)
            <4>1. f.recs[k] \in FileRecords
                BY <1>0
            <4> QED BY <1>1, <4>1 DEF FileRecords
        <3>2. r \in FileRecords /\ r.name = m
            BY <1>0, <3>1, RecordIs
        <3> QED BY <1>0, <3>2 DEF Seen, SeenRecords, Opaque
    <2>5. Image(g).recs = Only(g.recs, SeenRecords) /\ img.recs = Only(f.recs, SeenRecords)
        BY <1>0, <2>1, ImageIs
    <2> HIDE DEF r
    <2>6. Image(g).recs = recs
        BY <1>1, <2>1, <2>3, <2>4, <2>5 DEF StaysAt, recs
    <2>7. Image(g).locks = locks
        <3>1. RenamesLock(f, n, m, g)
            BY <2>1 DEF RenamesLock
        <3>2. FileOK(f) /\ Apart(f.lines, LockLines) /\ FileOK(g) /\ Apart(g.lines, LockLines)
            BY <1>9 DEF BothAccept
        <3>3. MovesLock(f, n, m, g)
            BY <1>0, <3>1, <3>2, LocksRenamed
        <3>4. Image(g).locks = New!Moved(Image(f).locks, n, m)
            BY <1>0, <1>n, <3>2, <3>3, LocksMoved
        <3> QED BY <3>4 DEF locks
    <2>8. Image(g) = [recs |-> Image(g).recs, locks |-> Image(g).locks, hist |-> g.hist, recent |-> <<>>]
        BY <2>1, ImageParts
    <2> QED BY <2>1, <2>6, <2>7, <2>8
<1> HIDE DEF new
<1> QED BY <1>7, <1>8, <1>9 DEF Agree, img

\* A Python set written as a list: its elements in some order.
LEMMA OrdersAre ==
    ASSUME NEW S, IsFiniteSet(S)
    PROVE  /\ SetToSeqs(S) # {}
           /\ \A o \in SetToSeqs(S) : o \in Seq(S) /\ Range(o) = S
<1> DEFINE k == Cardinality(S)
           D == 1..k
<1>1. k \in Nat /\ ExistsBijection(D, S)
    BY FS_CardinalityType
<1>2. IsFiniteSet(D) /\ Cardinality(D) = k
    <2>1. 1 \in Int /\ k \in Int
        BY <1>1
    <2>2. IsFiniteSet(1..k) /\ Cardinality(1..k) = IF 1 > k THEN 0 ELSE k - 1 + 1
        BY <2>1, FS_Interval
    <2> HIDE DEF k
    <2>3. (IF 1 > k THEN 0 ELSE k - 1 + 1) = k
        BY <1>1
    <2> QED BY <2>2, <2>3
<1>3. \A o : o \in SetToSeqs(S) <=> o \in [D -> S] /\ \A i, j \in D : i # j => o[i] # o[j]
    BY DEF SetToSeqs
<1>4. SetToSeqs(S) # {}
    <2>1. PICK o \in Bijection(D, S) : TRUE
        BY <1>1 DEF ExistsBijection
    <2>2. o \in [D -> S] /\ \A i, j \in D : i # j => o[i] # o[j]
        BY <2>1, Zenon DEF Bijection, Injection, IsInjective
    <2> QED BY <1>3, <2>2
<1>5. ASSUME NEW o \in SetToSeqs(S) PROVE o \in Seq(S) /\ Range(o) = S
    <2>1. o \in [D -> S] /\ \A i, j \in D : i # j => o[i] # o[j]
        BY <1>3
    <2>2. o \in Injection(D, S)
        BY <2>1, Zenon DEF Injection, IsInjective
    <2>3. o \in Surjection(D, S)
        BY <1>2, <2>2, FS_Injection
    <2>4. Range(o) = S
        BY <2>1, <2>3 DEF Surjection, Range
    <2> HIDE DEF k
    <2> QED BY <1>1, <2>1, <2>4
<1> QED BY <1>4, <1>5

\* The lock of a variable written anew, and those of all others left.
LEMMA LockedAnew ==
    ASSUME NEW f, BothAccept(f), NEW g, BothAccept(g), NEW x \in LockLines, x \in Range(g.lines), x.name # Recent,
           EditsLines(f, {x.name}, g)
    PROVE  Image(g).locks = New!Put(Image(f).locks, x.name, Range(x.ops))
<1> DEFINE n == x.name
<1>0. /\ FileOK(f) /\ Apart(f.lines, LockLines) /\ FileOK(g) /\ Apart(g.lines, LockLines)
    BY DEF BothAccept
<1>1. {l \in VarLocks(g) : l.name \notin {n}} = {l \in VarLocks(f) : l.name \notin {n}}
    BY <1>0, OtherVarLocks
<1>2. x \in VarLocks(g)
    BY DEF VarLocks
<1>3. \A l \in VarLocks(g) : l.name = n => l = x
    <2>1. HasLock(g.lines, n)
        BY <1>0, <1>2, OneLock
    <2> QED BY <1>0, <1>2, <2>1, OneLock
<1>4. VarLocks(g) = {l \in VarLocks(f) : l.name # n} \cup {x}
    BY <1>1, <1>2, <1>3
<1> QED BY <1>0, <1>4, LocksPut

\* A call of which only the locks of the image tell.
LEMMA LocksAgree ==
    ASSUME NEW f, FileOK(f), NEW g, WritesLines(f, g)
    PROVE  Image(g) = [Image(f) EXCEPT !.locks = Image(g).locks]
<1> DEFINE img == Image(f)
           l == Image(g).locks
           r == Image(f).recs
           k == Image(f).locks
<1>1. FileOK(g) /\ g.recs = f.recs /\ g.hist = f.hist
    BY DEF WritesLines
<1>2. Image(g).recs = r
    BY <1>1, ImageIs
<1>3. /\ Image(g) = [recs |-> r, locks |-> l, hist |-> f.hist, recent |-> <<>>]
      /\ img = [recs |-> r, locks |-> k, hist |-> f.hist, recent |-> <<>>]
    <2>1. /\ Image(g) = [recs |-> Image(g).recs, locks |-> l, hist |-> g.hist, recent |-> <<>>]
          /\ img = [recs |-> r, locks |-> k, hist |-> f.hist, recent |-> <<>>]
        BY <1>1, ImageParts
    <2> QED BY <1>1, <1>2, <2>1
<1> HIDE DEF img, r, l, k
<1>4. [img EXCEPT !.locks = l] = [recs |-> r, locks |-> l, hist |-> f.hist, recent |-> <<>>]
    BY <1>3
<1>5. Image(g) = [img EXCEPT !.locks = l]
    BY <1>3, <1>4
<1> QED BY <1>5 DEF img, l

LEMMA LockVarAgrees ==
    ASSUME NEW f, BothAccept(f), NEW n \in UserNames, NEW ops \in SetToAllKPermutations(LockOps) \ {<<>>},
           Exists(f, n), NullLine \in Range(f.lines) => Len(f.lines) = 1,
           ~(IsLock(Head(f.lines)) /\ Head(f.lines).name = n)
    PROVE  Agree(LockVar(f, n, ops), New!AddLock(Image(f), n, Range(ops)))
<1>0. /\ FileOK(f) /\ n \in Seq(Parts) /\ n # Recent /\ Seen(n)
      /\ f.lines \in Seq(FileLines) /\ f.lines # <<>>
    BY NamesAre, KnownIsSeen, LegacyConstantsOK DEF BothAccept, FileOK, FileTypes, Recent, LegacyConstantsOK
<1>1. ops \in Seq(LockOps) /\ ops # <<>> /\ IsFiniteSet(Range(ops))
    <2>1. IsFiniteSet(LockOps)
        BY LegacyConstantsOK DEF LegacyConstantsOK
    <2>2. ops \in Seq(LockOps) /\ ops # <<>>
        BY <2>1, SomeOf
    <2> QED BY <2>2, RangeFinite
<1> DEFINE had == IF HasLock(f.lines, n) THEN Range(LockOf(f.lines, n).ops) ELSE {}
           new == [Image(f) EXCEPT !.locks = New!Put(Image(f).locks, n, had \cup Range(ops))]
<1>2. New!AddLock(Image(f), n, Range(ops)) = {new}
    <2>1. n \in New!Names(Image(f))
        BY <1>0, ExistsIsNamed
    <2>2. New!LocksOf(Image(f), n) = had
        BY <1>0, LocksOfIs DEF BothAccept
    <2> QED BY <2>1, <2>2 DEF New!AddLock, New!When
<1>3. CASE NullLine \in Range(f.lines)
    <2> DEFINE x == Lock(n, ops)
    <2>1. LockVar(f, n, ops) = {[f EXCEPT !.lines = <<x>>, !.stray = FALSE]}
        BY <1>3 DEF LockVar, LockFirst
    <2>2. x \in LockLines /\ x.name = n /\ x.ops = ops
        <3>1. ops \in Seq(LockOps \cup Seq(Parts))
            BY <1>1
        <3> QED BY <1>0, <3>1 DEF Lock, LockLines
    <2>3. f.lines[1] = NullLine /\ Len(f.lines) = 1
        BY <1>0, <1>3 DEF Range
    <2>4. VarLocks(f) = {} /\ had = {}
        <3>1. Range(f.lines) = {NullLine}
            BY <1>0, <2>3 DEF Range
        <3>2. NullLine \notin LockLines
            BY LockLinesAre
        <3>3. ~HasLock(f.lines, n)
            BY <1>0, <2>3, LockIs DEF IsLock
        <3> QED BY <3>1, <3>2, <3>3 DEF VarLocks
    <2> HIDE DEF x
    <2>5. ASSUME NEW g \in LockVar(f, n, ops), BothAccept(g) PROVE Image(g) = new
        <3>1. WritesLines(f, g)
            BY <1>0, LockVarForm
        <3>2. g.lines = <<x>>
            BY <1>0, <2>1 DEF FileOK, FileTypes
        <3>3. Range(g.lines) = {x}
            BY <3>2 DEF Range
        <3>4. VarLocks(g) = {l \in VarLocks(f) : l.name # x.name} \cup {x}
            BY <1>0, <2>2, <2>4, <3>3 DEF VarLocks
        <3>5. Image(g).locks = New!Put(Image(f).locks, x.name, Range(x.ops))
            BY <2>5, <3>4, LocksPut DEF BothAccept
        <3>6. had \cup Range(ops) = Range(ops)
            BY <2>4
        <3>7. Image(g) = [Image(f) EXCEPT !.locks = Image(g).locks]
            BY <1>0, <3>1, LocksAgree
        <3>8. Image(g).locks = New!Put(Image(f).locks, n, had \cup Range(ops))
            BY <2>2, <3>5, <3>6
        <3> QED BY <3>7, <3>8
    <2> HIDE DEF new
    <2> QED BY <1>2, <2>1, <2>5 DEF Agree
<1>4. CASE NullLine \notin Range(f.lines)
    <2> DEFINE mine == IF HasLock(f.lines, n) THEN {LockOf(f.lines, n)} ELSE {}
               all  == Range(ops) \cup UNION {Range(l.ops) : l \in mine}
               old  == Without(Tail(f.lines), mine)
               made(o) == [f EXCEPT !.lines = <<Head(@)>> \o Append(old, Lock(n, o))]
    <2>1. LockVar(f, n, ops) = {made(o) : o \in SetToSeqs(all)}
        BY <1>4 DEF LockVar, LockAgain
    <2>2. HasLock(f.lines, n) => LockOf(f.lines, n).ops \in Seq(LockOps \cup Seq(Parts))
        BY <1>0, LockIs DEF LockLines
    <2>3. all = had \cup Range(ops)
        BY Zenon
    <2>4. IsFiniteSet(all) /\ all # {} /\ all \subseteq LockOps \cup Seq(Parts)
        <3>1. IsFiniteSet(had) /\ had \subseteq LockOps \cup Seq(Parts)
            <4>1. CASE HasLock(f.lines, n)
                BY <2>2, <4>1, RangeFinite DEF Range
            <4>2. CASE ~HasLock(f.lines, n)
                BY <4>2, FS_EmptySet
            <4> QED BY <4>1, <4>2
        <3>2. Range(ops) # {} /\ Range(ops) \subseteq LockOps
            <4>1. ops[1] \in Range(ops)
                BY <1>1 DEF Range
            <4> QED BY <1>1, <4>1 DEF Range
        <3>3. IsFiniteSet(had \cup Range(ops))
            BY <1>1, <3>1, FS_Union
        <3> HIDE DEF all, had
        <3> QED BY <2>3, <3>1, <3>2, <3>3
    <2> HIDE DEF all
    <2>5. SetToSeqs(all) # {} /\ \A o \in SetToSeqs(all) : o \in Seq(all) /\ Range(o) = all
        BY <2>4, OrdersAre
    <2>6. mine = OwnLocks(f, n) /\ \A l \in mine : l.name = n
        BY <1>0, LockIs DEF OwnLocks
    <2>7. ASSUME NEW o \in SetToSeqs(all), NEW g, g = made(o), BothAccept(g) PROVE Image(g) = new
        <3> DEFINE x == Lock(n, o)
        <3>1. o \in Seq(LockOps \cup Seq(Parts)) /\ o # <<>> /\ Range(o) = all
            <4>1. o \in Seq(all) /\ Range(o) = all
                BY <2>5
            <4>2. o \in Seq(LockOps \cup Seq(Parts))
                BY <2>4, <4>1
            <4>3. o # <<>>
                BY <2>4, <4>1 DEF Range
            <4> QED BY <4>1, <4>2, <4>3
        <3>2. g.lines = <<Head(f.lines)>> \o Append(Without(Tail(f.lines), mine), Lock(n, o))
            BY <1>0, <2>7 DEF FileOK, FileTypes
        <3>3. EditsLines(f, {n}, g)
            <4> HIDE DEF mine
            <4> QED BY <1>0, <2>6, <3>1, <3>2, LockWrittenAgain
        <3>4. g \in LockVar(f, n, ops)
            BY <2>1, <2>7
        <3>5. WritesLines(f, g)
            BY <1>0, <3>4, LockVarForm
        <3>6. x \in LockLines /\ x.name = n /\ x.ops = o
            BY <1>0, <3>1 DEF Lock, LockLines
        <3>7. x \in Range(g.lines)
            <4> DEFINE h == <<Head(f.lines)>>
                       t == Without(Tail(f.lines), mine)
            <4>1. Head(f.lines) \in FileLines /\ Tail(f.lines) \in Seq(FileLines)
                BY <1>0, HeadTailProperties
            <4>2. h \in Seq(FileLines)
                BY <4>1
            <4> HIDE DEF mine, h
            <4>3. t \in Seq(FileLines)
                BY <4>1, OnlySeq DEF Without
            <4>4. x \in FileLines
                BY <3>6 DEF FileLines
            <4> HIDE DEF t, x
            <4>5. Range(Append(t, x)) = Range(t) \cup {x} /\ Append(t, x) \in Seq(FileLines)
                BY <4>3, <4>4, LinesRange
            <4>6. Range(h \o Append(t, x)) = Range(h) \cup Range(Append(t, x))
                BY <4>2, <4>5, LinesRange
            <4>7. g.lines = h \o Append(t, x)
                BY <3>2 DEF h, t, x
            <4> QED BY <4>5, <4>6, <4>7
        <3> HIDE DEF x
        <3>8. Image(g).locks = New!Put(Image(f).locks, n, Range(o))
            BY <1>0, <2>7, <3>3, <3>6, <3>7, LockedAnew
        <3>9. Image(g) = [Image(f) EXCEPT !.locks = Image(g).locks]
            BY <1>0, <3>5, LocksAgree
        <3>10. Range(o) = had \cup Range(ops)
            BY <2>3, <3>1
        <3> QED BY <3>8, <3>9, <3>10
    <2> HIDE DEF new, made
    <2> QED BY <1>2, <2>1, <2>5, <2>7 DEF Agree
<1> QED BY <1>3, <1>4

LEMMA LockDelAgrees ==
    ASSUME NEW f, BothAccept(f), NEW n \in UserNames, NEW all \in BOOLEAN, NEW ops, Exists(f, n), HasLock(f.lines, n)
    PROVE  Agree(LockDel(f, n, all, ops),
                 New!DeleteLock(Image(f), n, IF all THEN Range(LockOf(f.lines, n).ops) ELSE Range(ops)))
<1> DEFINE mine == LockOf(f.lines, n)
           had  == Range(mine.ops)
           gone == IF all THEN had ELSE Range(ops)
           left == Without(mine.ops, Range(ops))
           locks == IF had \subseteq gone THEN New!Without(Image(f).locks, n)
                    ELSE New!Put(Image(f).locks, n, had \ gone)
           new  == [Image(f) EXCEPT !.locks = locks]
<1>0. /\ FileOK(f) /\ Apart(f.lines, LockLines) /\ n \in Seq(Parts) /\ n # Recent /\ Seen(n)
      /\ f.lines \in Seq(FileLines) /\ f.lines # <<>>
    BY NamesAre, KnownIsSeen, LegacyConstantsOK DEF BothAccept, FileOK, FileTypes, Recent, LegacyConstantsOK
<1>1. New!DeleteLock(Image(f), n, gone) = {new}
    <2>1. n \in New!Names(Image(f))
        BY <1>0, ExistsIsNamed
    <2>2. New!LocksOf(Image(f), n) = had
        BY <1>0, LocksOfIs
    <2> QED BY <2>1, <2>2 DEF New!DeleteLock, New!When
<1>2. /\ mine.ops \in Seq(LockOps \cup Seq(Parts)) /\ mine \in VarLocks(f) /\ mine.name = n
    <2>1. mine \in LockLines
        BY <1>0, LockIs
    <2> QED BY <1>0, <2>1, OneLock DEF LockLines
<1>3. left \in Seq(LockOps \cup Seq(Parts)) /\ Range(left) = had \ Range(ops)
    <2> DEFINE s == mine.ops
    <2>1. s \in Seq(LockOps \cup Seq(Parts))
        BY <1>2
    <2> HIDE DEF s
    <2>2. Only(s, Range(s) \ Range(ops)) \in Seq(LockOps \cup Seq(Parts))
        BY <2>1, OnlySeq
    <2>3. Range(Only(s, Range(s) \ Range(ops))) = Range(s) \cap (Range(s) \ Range(ops))
        BY <2>1, OnlyRange
    <2>4. Range(s) \cap (Range(s) \ Range(ops)) = Range(s) \ Range(ops)
        OBVIOUS
    <2> QED BY <2>2, <2>3, <2>4 DEF Without, s
<1>4. left = <<>> <=> Range(left) = {}
    <2> HIDE DEF left
    <2>1. left # <<>> => left[1] \in Range(left)
        BY <1>3 DEF Range
    <2>2. left = <<>> => Range(left) = {}
        BY DEF Range
    <2> QED BY <2>1, <2>2
<1>5. had \subseteq gone <=> all \/ left = <<>>
    BY <1>3, <1>4
<1> HIDE DEF left, mine
<1>6. LockDel(f, n, all, ops) =
         IF all \/ left = <<>> THEN {WithoutLocks(f, <<n>>)}
         ELSE {[f EXCEPT !.lines = ReplaceAllLines(@, mine, Lock(n, left))]}
    BY DEF LockDel, left, mine
<1>7. ASSUME NEW g \in LockDel(f, n, all, ops), BothAccept(g) PROVE Image(g) = new
    <2>1. WritesLines(f, g)
        BY <1>0, LockDelForm
    <2>2. CASE all \/ left = <<>>
        <3>1. g = WithoutLocks(f, <<n>>)
            BY <1>6, <1>7, <2>2
        <3>2. VarLocks(g) = {l \in VarLocks(f) : l.name # n}
            BY <1>0, <3>1, LocksTakenOut
        <3>3. Image(g).locks = New!Without(Image(f).locks, n)
            BY <1>0, <1>7, <3>2, LocksDropped DEF BothAccept
        <3>4. Image(g).locks = locks
            BY <1>5, <2>2, <3>3
        <3>5. Image(g) = [Image(f) EXCEPT !.locks = Image(g).locks]
            BY <1>0, <2>1, LocksAgree
        <3> HIDE DEF locks
        <3> QED BY <3>4, <3>5
    <2>3. CASE ~all /\ left # <<>>
        <3> DEFINE x == Lock(n, left)
        <3>1. g.lines = ReplaceAllLines(f.lines, mine, x)
            BY <1>0, <1>6, <1>7, <2>3 DEF FileOK, FileTypes
        <3>2. EditsLines(f, {n}, g)
            BY <1>0, <1>3, <2>3, <3>1, LockWritten DEF mine
        <3>3. x \in LockLines /\ x.name = n /\ x.ops = left
            BY <1>0, <1>3 DEF Lock, LockLines
        <3> HIDE DEF x
        <3>4. x \in Range(g.lines)
            <4>1. PICK i \in DOMAIN f.lines : f.lines[i] = mine
                BY <1>2 DEF VarLocks, Range
            <4>2. g.lines[i] = x /\ i \in DOMAIN g.lines
                BY <3>1, <4>1 DEF ReplaceAllLines
            <4> QED BY <4>2 DEF Range
        <3>5. Image(g).locks = New!Put(Image(f).locks, n, Range(left))
            BY <1>0, <1>7, <3>2, <3>3, <3>4, LockedAnew
        <3>6. Image(g).locks = locks
            BY <1>3, <1>5, <2>3, <3>5
        <3>7. Image(g) = [Image(f) EXCEPT !.locks = Image(g).locks]
            BY <1>0, <2>1, LocksAgree
        <3> HIDE DEF locks
        <3> QED BY <3>6, <3>7
    <2> QED BY <2>2, <2>3
<1> HIDE DEF new
<1>8. LockDel(f, n, all, ops) # {}
    BY <1>6
<1>9. New!DeleteLock(Image(f), n, IF all THEN Range(LockOf(f.lines, n).ops) ELSE Range(ops)) = {new}
    BY <1>1 DEF mine
<1> QED BY <1>7, <1>8, <1>9 DEF Agree

\* The calls that may be comparable, each with its arguments.
LEMMA CallArgs ==
    ASSUME NEW f, NEW c \in Calls(f)
    PROVE  LET known == UserNames \cup AllItems(f)
               some  == SetToAllKPermutations(UserNames) IN
           \/ c.op = "addvar" /\ c.name \in UserNames /\ c.val \in Values
           \/ c.op = "changevar" /\ c.name \in known /\ c.val \in Values
           \/ c.op = "removevar" /\ c.name \in known
           \/ c.op = "renamevar_stx" /\ c.name \in known /\ c.to \in UserNames
           \/ c.op = "joinvars" /\ c.name \in UserNames /\ c.from \in some \ {<<>>}
           \/ c.op = "lockvar" /\ c.name \in UserNames /\ c.locks \in SetToAllKPermutations(LockOps) \ {<<>>}
           \/ c.op = "lockdel" /\ c.name \in UserNames /\ c.all \in BOOLEAN
           \/ c.op = "stalkvar" /\ c.name \in StalkNames /\ c.val \in Values
           \/ c.op \in {"corevar", "appvar", "appvar_locks", "renumber"}
<1> DEFINE known == UserNames \cup AllItems(f)
           some  == SetToAllKPermutations(UserNames)
           perms == SetToAllKPermutations(LockOps)
<1>1. \/ c \in [op : Ops \cap {"addvar"}, name : UserNames, val : Values]
      \/ c \in [op : Ops \cap {"corevar"}, name : UserNames]
      \/ c \in [op : Ops \cap {"appvar"}, name : {ns \in some \ {<<>>} : Len(ns) <= 2}, val : {<<>>} \cup {<<v>> : v \in Values}]
      \/ c \in [op : Ops \cap {"appvar_locks"}, name : {ns \in some \ {<<>>} : Len(ns) = 1}, val : {<<v>> : v \in Values},
                on : UserNames, lock : LockOps]
      \/ c \in [op : Ops \cap {"changevar"}, name : known, val : Values]
      \/ c \in [op : Ops \cap {"removevar"}, name : known]
      \/ c \in [op : Ops \cap {"renamevar_stx"}, name : known, to : UserNames]
      \/ c \in [op : Ops \cap {"renumber"}, name : StalkNames, to : {0, 1}]
      \/ c \in [op : Ops \cap {"joinvars"}, name : UserNames, from : {ns \in some \ {<<>>} : Len(ns) <= 2}]
      \/ c \in [op : Ops \cap {"lockvar"}, name : UserNames, locks : perms \ {<<>>}]
      \/ c \in [op : Ops \cap {"lockdel"}, name : UserNames, all : BOOLEAN, locks : {<<o>> : o \in LockOps}]
      \/ c \in [op : Ops \cap {"stalkvar"}, name : StalkNames, val : Values]
    BY Zenon DEF Calls
<1> HIDE DEF some, perms
<1>2. \A A : \A x \in Ops \cap A : x \in A
    OBVIOUS
<1>3. \/ c.op = "addvar" /\ c.name \in UserNames /\ c.val \in Values
      \/ c.op = "changevar" /\ c.name \in known /\ c.val \in Values
      \/ c.op = "removevar" /\ c.name \in known
      \/ c.op = "renamevar_stx" /\ c.name \in known /\ c.to \in UserNames
      \/ c.op = "joinvars" /\ c.name \in UserNames /\ c.from \in some \ {<<>>}
      \/ c.op = "lockvar" /\ c.name \in UserNames /\ c.locks \in perms \ {<<>>}
      \/ c.op = "lockdel" /\ c.name \in UserNames /\ c.all \in BOOLEAN
      \/ c.op = "stalkvar" /\ c.name \in StalkNames /\ c.val \in Values
      \/ c.op \in {"corevar", "appvar", "appvar_locks", "renumber"}
    BY <1>1
<1> QED BY <1>3 DEF some, perms

\* Whatever the call.
LEMMA CallAgrees ==
    ASSUME BothAccept(file), NEW c \in Calls(file), Comparable(file, c), ~Collides(file, c)
    PROVE  Agree(Results(file, c), NewResults(Image(file), c))
<1>1. CASE c.op = "addvar" /\ c.name \in UserNames /\ c.val \in Values
    <2>1. Record(c.name, Core) \notin Range(file.recs)
        BY <1>1 DEF Collides
    <2>2. Results(file, c) = AddVar(file, c.name, c.val)
          /\ NewResults(Image(file), c) = New!AddVar(Image(file), c.name, <<c.val>>)
        BY <1>1 DEF Results, NewResults
    <2> QED BY <1>1, <2>1, <2>2, AddVarAgrees
<1>2. CASE c.op = "changevar" /\ c.name \in UserNames \cup AllItems(file) /\ c.val \in Values
    <2>1. Plain(file, c.name, "changevar") /\ ~IsRoot(file, c.name)
        BY <1>2 DEF Comparable
    <2>2. Results(file, c) = ChangeVar(file, c.name, c.val)
          /\ NewResults(Image(file), c) = New!ChangeVar(Image(file), c.name, <<c.val>>)
        BY <1>2 DEF Results, NewResults
    <2>3. ChangeVar(file, c.name, c.val) = ChangePlain(file, c.name, c.val)
        BY <2>1 DEF ChangeVar
    <2> QED BY <1>2, <2>1, <2>2, <2>3, ChangePlainAgrees
<1>3. CASE c.op = "removevar" /\ c.name \in UserNames \cup AllItems(file)
    <2>1. Plain(file, c.name, "removevar") /\ ~IsRoot(file, c.name) /\ c.name \notin AllItems(file)
        BY <1>3 DEF Comparable
    <2>2. Results(file, c) = RemoveVar(file, c.name)
          /\ NewResults(Image(file), c) = New!RemoveDirect(Image(file), c.name)
        BY <1>3 DEF Results, NewResults
    <2> QED BY <1>3, <2>1, <2>2, RemoveVarAgrees
<1>4. CASE c.op = "renamevar_stx" /\ c.name \in UserNames \cup AllItems(file) /\ c.to \in UserNames
    <2>1. Plain(file, c.name, "renamevar_stx") /\ ~IsRoot(file, c.name) /\ c.name \notin AllItems(file)
        BY <1>4 DEF Comparable
    <2>2. /\ \A r \in Range(file.recs) : Meets(c.name, r) => EndIn(c.name, c.to, r.name) \notin Names(file)
          /\ ~(HasLock(file.lines, c.name) /\ HasLock(file.lines, c.to))
        BY <1>4 DEF Collides
    <2>3. Results(file, c) = RenameVar(file, c.name, c.to)
          /\ NewResults(Image(file), c) = New!RenameDirect(Image(file), c.name, c.to)
        BY <1>4 DEF Results, NewResults
    <2>4. c.to \notin Names(file)
        <3>1. PICK r \in Range(file.recs) : r.name = c.name /\ r.val # Core
            BY <2>1 DEF Plain, Exists
        <3>2. c.name \in Seq(Parts) /\ c.to \in Seq(Parts)
            BY <1>4, <2>1, NamesAre
        <3>3. Meets(c.name, r)
            BY <3>1, <3>2, EndsItself DEF Meets
        <3>4. EndIn(c.name, c.to, c.name) = c.to
            BY <3>2, EndInSame
        <3> QED BY <2>2, <3>1, <3>3, <3>4
    <2> QED BY <1>4, <2>1, <2>2, <2>3, <2>4, RenameVarAgrees
<1>5. CASE c.op = "joinvars" /\ c.name \in UserNames /\ c.from \in SetToAllKPermutations(UserNames) \ {<<>>}
    <2>1. ~IsRoot(file, c.name) /\ \A n \in Range(c.from) : Plain(file, n, "joinvars")
        BY <1>5 DEF Comparable
    <2>2. c.name \notin Names(file)
        BY <1>5, <2>1 DEF Collides
    <2>3. Results(file, c) = JoinVars(file, c.name, c.from)
          /\ NewResults(Image(file), c) = New!JoinVars(Image(file), c.name, Range(c.from))
        BY <1>5 DEF Results, NewResults
    <2>4. c.from \in Seq(UserNames) /\ c.from # <<>>
        <3>1. IsFiniteSet(UserNames)
            BY LegacyConstantsOK DEF LegacyConstantsOK
        <3> QED BY <1>5, <3>1, SomeOf
    <2> QED BY <1>5, <2>1, <2>2, <2>3, <2>4, JoinVarsAgrees
<1>6. CASE c.op = "lockvar" /\ c.name \in UserNames /\ c.locks \in SetToAllKPermutations(LockOps) \ {<<>>}
    <2>1. Exists(file, c.name) /\ (NullLine \in Range(file.lines) => Len(file.lines) = 1)
        BY <1>6 DEF Comparable
    <2>2. ~(IsLock(Head(file.lines)) /\ Head(file.lines).name = c.name)
        BY <1>6 DEF Collides
    <2>3. Results(file, c) = LockVar(file, c.name, c.locks)
          /\ NewResults(Image(file), c) = New!AddLock(Image(file), c.name, Range(c.locks))
        BY <1>6 DEF Results, NewResults
    <2> QED BY <1>6, <2>1, <2>2, <2>3, LockVarAgrees
<1>7. CASE c.op = "lockdel" /\ c.name \in UserNames /\ c.all \in BOOLEAN
    <2>1. Exists(file, c.name) /\ HasLock(file.lines, c.name)
        BY <1>7 DEF Comparable
    <2>2. /\ Results(file, c) = LockDel(file, c.name, c.all, c.locks)
          /\ NewResults(Image(file), c) =
                New!DeleteLock(Image(file), c.name,
                               IF c.all THEN Range(LockOf(file.lines, c.name).ops) ELSE Range(c.locks))
        BY <1>7 DEF Results, NewResults
    <2> QED BY <1>7, <2>1, <2>2, LockDelAgrees
<1>8. CASE c.op = "stalkvar" /\ c.name \in StalkNames /\ c.val \in Values
    <2>1. Plain(file, c.name, "stalkvar") /\ Contiguous(file, c.name) /\ Value(file, c.name) # <<c.val>>
        BY <1>8 DEF Comparable
    <2>2. StalkItem(file, c.name) \notin Names(file)
        BY <1>8 DEF Collides
    <2>3. /\ Results(file, c) = Stalk(file, c.name, c.val)
          /\ NewResults(Image(file), c) = Unlisted(New!Stalk(Image(file), c.name, <<c.val>>))
        BY <1>8 DEF Results, NewResults, Unlisted
    <2> QED BY <1>8, <2>1, <2>2, <2>3, StalkAgrees
<1>9. CASE c.op \in {"corevar", "appvar", "appvar_locks", "renumber"}
    BY <1>9 DEF Comparable
<1> QED BY CallArgs, <1>1, <1>2, <1>3, <1>4, <1>5, <1>6, <1>7, <1>8, <1>9


-----------------------------------------------------------------------------
(***************************************************************************)
(* The theorems.                                                           *)
(***************************************************************************)
LEMMA NewFileForm == FileOK(NewFile)
<1>1. << >> \in Seq(FileRecords) /\ << >> \in Seq(Seq(Parts)) /\ DOMAIN << >> = {}
    OBVIOUS
<1>2. <<NullLine>> \in Seq(FileLines) /\ <<NullLine>> # <<>>
    BY DEF FileLines
<1>3. << >> \in Histories
    <2>1. << >> \in [{} -> Seq(Seq(Parts))] /\ {} \in SUBSET StalkNames
        OBVIOUS
    <2> QED BY <2>1 DEF Histories
<1>4. OwnItems(NewFile)
    BY <1>1 DEF OwnItems, NewFile
<1> QED BY <1>1, <1>2, <1>3, <1>4 DEF FileOK, FileTypes, NewFile

\* The file has always the form of a file: records, lock lines and histories whose items
\* have the name of the history, whatever calls come and wherever a stalkvar is cut off.
THEOREM FilesKeepTheirForm == Spec => []FileOK(file)
<1>1. Init => FileOK(file)
    BY NewFileForm DEF Init
<1>2. FileOK(file) /\ [Next]_vars => FileOK(file)'
    <2> SUFFICES ASSUME FileOK(file), [Next]_vars PROVE FileOK(file')
        OBVIOUS
    <2>1. ASSUME NEW c \in Calls(file), Call(c) PROVE FileOK(file')
        BY <2>1, FormStays DEF Call
    <2>2. ASSUME NEW n \in StalkNames, NEW v \in Values, Cut(n, v) PROVE FileOK(file')
        BY <2>2, StalkCutForm DEF Cut
    <2>3. CASE UNCHANGED vars
        BY <2>3 DEF vars
    <2> QED BY <2>1, <2>2, <2>3 DEF Next, Refused
<1> QED BY <1>1, <1>2, PTL DEF Spec

\* A history names records that exist: only removing or renaming an item by its own name
\* (original.py:1126, 1281) or a crash within stalkvar leaves one without.
THEOREM HistoriesKeepTheirRecords ==
    ASSUME NamesEndNoItem PROVE Spec => []ItemsKeepRecords
<1>1. FileOK(file) => ItemsKeepRecords
    <2> SUFFICES ASSUME FileOK(file), NEW c \in Calls(file), NEW g \in Follows(file, c),
                        NEW i \in Dangling(g) \ Dangling(file)
                 PROVE  c.op \in {"removevar", "renamevar_stx"} /\ c.name = i
        BY DEF ItemsKeepRecords
    <2>1. g \in Results(file, c)
        BY DEF Follows
    <2> QED BY <2>1, CallKeepsRecords
<1> QED BY <1>1, FilesKeepTheirForm, PTL

\* What is kept about the file: its form, its locks, its names, and the bounds of the
\* instance.
FileInv ==
    /\ FileOK(file) /\ LocksOK(file) /\ NamesOK(file)
    /\ \A r \in Range(file.recs) : Len(r.val) <= MaxPayload
    /\ calls \in 0..MaxCalls /\ cuts \in 0..MaxCuts

LEMMA FileInvIsKept == Spec => []FileInv
<1>1. Init => FileInv
    <2> SUFFICES ASSUME Init PROVE FileInv
        OBVIOUS
    <2>1. MaxCalls \in Nat /\ MaxCuts \in Nat
        BY LegacyConstantsOK DEF LegacyConstantsOK
    <2>2. file = NewFile /\ calls \in 0..MaxCalls /\ cuts \in 0..MaxCuts
        BY <2>1 DEF Init
    <2>3. Range(NewFile.recs) = {} /\ Range(NewFile.lines) = {NullLine} /\ DOMAIN NewFile.lines = {1}
        BY DEF NewFile, Range
    <2>4. LocksOK(NewFile) /\ NamesOK(NewFile)
        BY <2>3 DEF LocksOK, OpsOK, Apart, IsLock, NamesOK
    <2> QED BY <2>2, <2>3, <2>4, NewFileForm DEF FileInv
<1>2. FileInv /\ [Next]_vars => FileInv'
    <2> SUFFICES ASSUME FileInv, [Next]_vars PROVE FileInv'
        OBVIOUS
    <2>0. MaxCalls \in Nat /\ MaxCuts \in Nat
        BY LegacyConstantsOK DEF LegacyConstantsOK
    <2>1. ASSUME NEW c \in Calls(file), Call(c) PROVE FileInv'
        <3>1. file' \in Results(file, c) /\ Within(file') /\ calls < MaxCalls /\ calls' = calls + 1 /\ cuts' = cuts
            BY <2>1 DEF Call
        <3>2. FileOK(file') /\ LocksOK(file')
            BY <3>1, FormStays, LocksStay DEF FileInv
        <3>3. NamesOK(file')
            BY <3>1, CallGoesOn DEF FileInv, GoesOn, RecordsGo
        <3> QED BY <3>3, <2>0, <3>1, <3>2 DEF FileInv, Within
    <2>2. ASSUME NEW n \in StalkNames, NEW v \in Values, Cut(n, v) PROVE FileInv'
        <3>1. /\ file' \in StalkCut(file, n, v) /\ calls < MaxCalls /\ cuts < MaxCuts
              /\ calls' = calls + 1 /\ cuts' = cuts + 1
            BY <2>2 DEF Cut
        <3>2. FileOK(file') /\ file'.recs = file.recs /\ file'.lines = file.lines
            BY <3>1, StalkCutForm DEF FileInv
        <3>3. LocksOK(file') /\ NamesOK(file')
            BY <3>2 DEF FileInv, LocksOK, OpsOK, NamesOK
        <3> QED BY <2>0, <3>1, <3>2, <3>3 DEF FileInv
    <2>3. CASE UNCHANGED vars
        BY <2>3 DEF vars, FileInv
    <2> QED BY <2>1, <2>2, <2>3 DEF Next, Refused
<1> QED BY <1>1, <1>2, PTL DEF Spec

LEMMA FormIsTyped == FileInv => TypeOK
<1> SUFFICES ASSUME FileInv PROVE TypeOK
    OBVIOUS
<1>0. /\ file.recs \in Seq(FileRecords) /\ file.lines \in Seq(FileLines) /\ DOMAIN file.hist \subseteq StalkNames
      /\ MaxPayload \in Nat
    BY HistoryIs, LegacyConstantsOK DEF FileInv, FileOK, FileTypes, LegacyConstantsOK
<1>1. ASSUME NEW r \in Range(file.recs)
      PROVE  r.val \in BoundedSeq(Values \cup {NullLine}, MaxPayload)
    <2>0. r \in FileRecords
        BY <1>0, <1>1 DEF Range
    <2>1. r.val \in Seq(Payload) /\ Len(r.val) <= MaxPayload
        BY <1>1, <2>0 DEF FileInv, FileRecords
    <2> DEFINE m == Len(r.val)
    <2>2. m \in 0..MaxPayload /\ r.val \in [1..m -> Values \cup {NullLine}]
        BY <1>0, <2>1 DEF Payload
    <2> QED BY <2>2, Zenon DEF BoundedSeq, SeqOf
<1>2. \A l \in Range(file.lines) : IsLock(l) => l.ops # <<>>
    BY DEF FileInv, LocksOK, OpsOK
<1>3. OneOfEach(Only(file.lines, {l \in Range(file.lines) : IsLock(l) /\ l.name = Recent}))
    <2> DEFINE s == file.lines
               T == {l \in Range(s) : IsLock(l) /\ l.name = Recent}
    <2>1. Range(s) \subseteq FileLines
        BY <1>0 DEF Range
    <2>2. T \cap Range(s) = RecentLocks \cap Range(s)
        BY <2>1, LockLinesAre DEF RecentLocks
    <2>3. s \in Seq(FileLines) /\ Apart(s, RecentLocks)
        BY <1>0 DEF FileInv, LocksOK
    <2> HIDE DEF s, T
    <2>4. OneOfEach(Only(s, RecentLocks))
        BY <2>3, ApartIsOne
    <2>5. Only(s, T) = Only(s, RecentLocks)
        BY <2>2, OnlyOfRange
    <2>6. OneOfEach(Only(s, T))
        BY <2>4, <2>5
    <2> QED BY <2>6 DEF s, T
<1> QED BY <1>0, <1>1, <1>2, <1>3 DEF TypeOK, FileInv

LEMMA CallKeepsOthersLocks ==
    ASSUME NEW f, FileOK(f), NEW c \in Calls(f), NEW g \in Results(f, c) PROVE OthersKeepLocks(f, c, g)
<1> DEFINE named == Aims(f, c) \cup {Recent} \cup (IF c.op = "appvar_locks" THEN {c.on} ELSE {})
           others(h) == Only(h.lines, {l \in Range(h.lines) : IsLock(l) /\ l.name \notin named})
           S == {l \in LockLines : l.name \notin named}
<1>1. f.lines \in Seq(FileLines) /\ g.lines \in Seq(FileLines)
    BY FormStays DEF FileOK, FileTypes
<1>2. \A l \in S : l.name \notin Touched(f, c)
    BY DEF Touched
<1>3. ASSUME NEW h, h.lines \in Seq(FileLines) PROVE others(h) = Only(h.lines, S)
    <2> DEFINE T == {l \in Range(h.lines) : IsLock(l) /\ l.name \notin named}
    <2>1. Range(h.lines) \subseteq FileLines
        BY <1>3 DEF Range
    <2> HIDE DEF named
    <2>2. T \cap Range(h.lines) = S \cap Range(h.lines)
        BY <2>1, LockLinesAre
    <2> HIDE DEF T, S
    <2>3. Only(h.lines, T) = Only(h.lines, S)
        BY <2>2, OnlyOfRange
    <2> QED BY <2>3 DEF T
<1>4. S \in SUBSET LockLines
    OBVIOUS
<1>5. OthersKeepLocks(f, c, g) <=> (others(g) = others(f) \/ (c.op = "lockvar" /\ NullLine \in Range(f.lines)))
    BY DEF OthersKeepLocks
<1> HIDE DEF S, others
<1>6. CASE EditsLines(f, Touched(f, c), g)
    <2>1. Only(g.lines, S) = Only(f.lines, S)
        BY <1>2, <1>4, <1>6 DEF EditsLines
    <2> QED BY <1>1, <1>3, <1>5, <2>1
<1>7. CASE FirstLock(f, c, g)
    BY <1>5, <1>7 DEF FirstLock
<1> QED BY <1>6, <1>7, CallEditsLines

\* The file keeps its form, and a call leaves the records and locks of all variables it is
\* not about: editing the whole text by str.replace (original.py:1253, 1131, 1281) and
\* taking out lock lines (2167-2204) meets nothing else, whatever the names and values.
THEOREM OthersAreUntouched == Spec => []OthersUntouched
<1>1. FileInv => OthersUntouched
    <2> SUFFICES ASSUME FileInv, NEW c \in Calls(file), NEW g \in Follows(file, c)
                 PROVE  OthersKeepRecords(file, c, g) /\ OthersKeepLocks(file, c, g)
        BY FormIsTyped DEF OthersUntouched
    <2>1. g \in Results(file, c) /\ FileOK(file)
        BY DEF Follows, FileInv
    <2> QED BY <2>1, CallKeepsOthersRecords, CallKeepsOthersLocks
<1> QED BY <1>1, FileInvIsKept, PTL

\* A file of 1.2 that the new engine can open stays one, whatever calls come, but for a
\* call that enters a name again without looking (original.py:1103, 1131, 2806, 1826,
\* 848, 894) and appvar with a lock (986).
THEOREM CollisionsAlone == Spec => []OnlyCollisionsBreakFiles
<1>1. FileInv => OnlyCollisionsBreakFiles
    <2> SUFFICES ASSUME FileInv, Accepted(file), NEW c \in Calls(file), NEW g \in Follows(file, c), ~Collides(file, c)
                 PROVE  Accepted(g)
        BY DEF OnlyCollisionsBreakFiles
    <2>1. g \in Results(file, c) /\ FileOK(file) /\ NamesOK(file)
        BY DEF Follows, FileInv
    <2>2. FileOK(g) /\ GoesOn(file, c, g)
        BY <2>1, FormStays, CallGoesOn
    <2>3. Apart(file.recs, SeenRecords) /\ Apart(file.lines, LockLines) /\ ~file.stray
        BY <2>1, AcceptedIs
    <2>4. Apart(g.recs, SeenRecords) /\ Apart(g.lines, LockLines) /\ ~g.stray
        BY <2>2, <2>3 DEF GoesOn, RecordsGo, LinesGo
    <2> QED BY <2>2, <2>4, AcceptedIs
<1> QED BY <1>1, FileInvIsKept, PTL

\* On a file that both engines accept, and where no name is entered twice, met by its
\* ending or locked, the legacy call and the new one both refuse, or leave the same
\* records in the same order, the same locks and the same histories
\* (COMPATIBILITY_MATRIX.md:5), whatever the names, the values and the calls before.
THEOREM OracleAlwaysAgrees == Spec => []OracleAgrees
<1>1. FileInv => OracleAgrees
    <2> SUFFICES ASSUME FileInv, Accepted(file), NEW c \in Calls(file), Comparable(file, c), ~Collides(file, c)
                 PROVE  /\ NewResults(Image(file), c) = {} <=> Results(file, c) = {}
                        /\ \A g \in Follows(file, c) : Image(g) \in NewResults(Image(file), c)
        BY DEF OracleAgrees
    <2>1. FileOK(file) /\ NamesOK(file)
        BY DEF FileInv
    <2>2. BothAccept(file) /\ ~file.stray
        BY <2>1, AcceptedIs DEF BothAccept
    <2>3. Agree(Results(file, c), NewResults(Image(file), c))
        BY <2>2, CallAgrees
    <2>4. ASSUME NEW g \in Follows(file, c) PROVE Image(g) \in NewResults(Image(file), c)
        <3>1. g \in Results(file, c) /\ Within(g)
            BY DEF Follows
        <3>2. FileOK(g) /\ GoesOn(file, c, g)
            BY <2>1, <3>1, FormStays, CallGoesOn
        <3>3. BothAccept(g)
            BY <2>2, <3>2 DEF BothAccept, GoesOn, RecordsGo, LinesGo
        <3> QED BY <2>3, <3>1, <3>3 DEF Agree
    <2> QED BY <2>3, <2>4 DEF Agree
<1> QED BY <1>1, FileInvIsKept, PTL
=============================================================================
