--------------------------- MODULE VFSImage_proofs ---------------------------
(***************************************************************************)
(* Machine-checked theorems about VFSImage, for all names, payloads, locks,    *)
(* numbers of calls and of commits.                                         *)
(***************************************************************************)
EXTENDS VFSImage, SequenceTheorems, TLAPS

(***************************************************************************)
(* Names.                                                                  *)
(***************************************************************************)
Letters == (UNION {Range(n) : n \in UserNames}) \cup Nat

\* The numbers that end the names of items are letters.
LEMMA NumbersAreLetters == \A k \in Nat : k \in Letters
<1> DEFINE U == UNION {Range(n) : n \in UserNames}
<1>1. Letters = U \cup Nat
  BY DEF Letters
<1> HIDE DEF U
<1> QED BY <1>1

\* Names of variables and of items are sequences over the same letters.
LEMMA NamesAreSequences ==
  ASSUME NEW n \in UserNames
  PROVE  n \in Seq(Letters)
<1> DEFINE U == UNION {Range(m) : m \in UserNames}
<1>1. n \in Seq(U)
  BY ImageConstantsOK
<1>2. PICK l \in Nat : l = Len(n)
  BY <1>1
<1> HIDE DEF U
<1>3. n \in [1..l -> U]
  BY <1>1, <1>2
<1>4. U \subseteq Letters
  BY DEF U, Letters
<1>5. n \in [1..l -> Letters]
  BY <1>3, <1>4
<1> QED BY <1>5, SeqDef

\* An item's name tells whose item it is, and which.
LEMMA ItemNamesDiffer ==
  ASSUME NEW n \in UserNames, NEW m \in UserNames, NEW k \in Nat, NEW j \in Nat,
         Append(n, k) = Append(m, j)
  PROVE  n = m /\ k = j
<1>1. n \in Seq(Letters) /\ m \in Seq(Letters)
  BY NamesAreSequences
<1>2. k \in Letters /\ j \in Letters
  BY NumbersAreLetters
<1> QED BY <1>1, <1>2, AppendInjective

\* What a renamed root's items are called.
LEMMA DerivedNames ==
  ASSUME NEW n \in UserNames, NEW m \in UserNames, NEW k \in Nat
  PROVE  IsPrefix(n, Append(n, k)) /\ Derived(n, m, Append(n, k)) = Append(m, k)
<1>a. n \in Seq(Letters) /\ m \in Seq(Letters)
  BY NamesAreSequences
<1>b. k \in Letters
  BY NumbersAreLetters
<1>0. n \in Seq(Letters) /\ m \in Seq(Letters) /\ k \in Letters
  BY <1>a, <1>b
<1>1. PICK l \in Nat : l = Len(n)
  BY <1>0
<1> DEFINE item == Append(n, k)
<1>2. /\ item \in Seq(Letters) /\ Len(item) = l + 1
      /\ (\A i \in 1..l : item[i] = n[i]) /\ item[l + 1] = k
  BY <1>0, <1>1, AppendProperties
<1> HIDE DEF item
<1>3. SubSeq(item, 1, l) = n
  <2> DEFINE s == SubSeq(item, 1, l)
  <2>1. \A i \in 1..l : item[i] \in Letters
    BY <1>2
  <2>2. /\ s \in Seq(Letters) /\ Len(s) = (IF 1 <= l THEN l - 1 + 1 ELSE 0)
        /\ \A i \in 1..l - 1 + 1 : s[i] = item[1 + i - 1]
    BY <1>1, <2>1, SubSeqProperties
  <2> HIDE DEF s
  <2>3. Len(s) = l /\ \A i \in 1..l : s[i] = n[i]
    BY <1>2, <2>2
  <2>4. s = n
    BY <1>0, <1>1, <2>2, <2>3, SeqEqual
  <2> QED BY <2>4 DEF s
<1>4. SubSeq(n, 1, l) = n
  BY <1>0, <1>1, SubSeqFull
<1>5. IsPrefix(n, item)
  BY <1>1, <1>2, <1>3, <1>4 DEF IsPrefix
<1>6. SubSeq(item, l + 1, l + 1) = <<k>>
  <2> DEFINE s == SubSeq(item, l + 1, l + 1)
  <2>1. \A i \in l + 1..l + 1 : item[i] \in Letters
    BY <1>2
  <2>2. /\ s \in Seq(Letters)
        /\ Len(s) = (IF l + 1 <= l + 1 THEN (l + 1) - (l + 1) + 1 ELSE 0)
        /\ \A i \in 1..(l + 1) - (l + 1) + 1 : s[i] = item[l + 1 + i - 1]
    BY <1>1, <2>1, SubSeqProperties
  <2> HIDE DEF s
  <2>3. Len(s) = 1 /\ s[1] = k
    BY <1>2, <2>2
  <2>4. <<k>> \in Seq(Letters) /\ Len(<<k>>) = 1 /\ <<k>>[1] = k
    BY <1>0
  <2>5. \A i \in 1..1 : s[i] = <<k>>[i]
    BY <2>3, <2>4
  <2>6. s = <<k>>
    BY <2>2, <2>3, <2>4, <2>5, SeqEqual
  <2> QED BY <2>6 DEF s
<1>7. Derived(n, m, item) = m \o <<k>>
  BY <1>1, <1>2, <1>6 DEF Derived
<1>8. m \o <<k>> = Append(m, k)
  BY <1>0, AppendIsConcat
<1> QED BY <1>5, <1>7, <1>8 DEF item

(***************************************************************************)
(* Records.                                                                *)
(***************************************************************************)
Recs(S) == Seq([name : S, val : Values])
ValueOf(img, n) == img.recs[IndexOf(img, n)].val

\* With distinct names the index of a name is where it stands.
LEMMA IndexIsPlace ==
  ASSUME NEW img, Parses(img), NEW S, img.recs \in Recs(S), NEW i \in DOMAIN img.recs
  PROVE  /\ IndexOf(img, img.recs[i].name) = i
         /\ ValueOf(img, img.recs[i].name) = img.recs[i].val
         /\ img.recs[i].name \in Names(img) /\ img.recs[i].name \in S /\ img.recs[i].val \in Values
<1> DEFINE n == img.recs[i].name
           I == {j \in 1..Len(img.recs) : img.recs[j].name = n}
<1> DEFINE E == [name : S, val : Values]
<1>0. DOMAIN img.recs = 1..Len(img.recs) /\ img.recs[i] \in E
  <2>1. img.recs \in Seq(E)
    BY DEF Recs
  <2> HIDE DEF E
  <2> QED BY <2>1
<1>1. I = {i}
  BY <1>0 DEF Parses
<1>2. IndexOf(img, n) = IF I # {} THEN Max(I) ELSE 0
  BY DEF IndexOf, SelectLastInSeq
<1>3. Max({i}) = i
  BY <1>0 DEF Max
<1>4. IndexOf(img, n) = i
  BY <1>1, <1>2, <1>3
<1>5. n \in Names(img)
  BY DEF Names, Range
<1> QED BY <1>0, <1>4, <1>5 DEF ValueOf

\* A name of the image stands at its index, and has a value.
LEMMA NameIsPlaced ==
  ASSUME NEW img, Parses(img), NEW S, img.recs \in Recs(S), NEW n \in Names(img)
  PROVE  \E i \in DOMAIN img.recs : /\ img.recs[i].name = n /\ IndexOf(img, n) = i
                                    /\ ValueOf(img, n) = img.recs[i].val
                                    /\ n \in S /\ ValueOf(img, n) \in Values
<1>1. PICK i \in DOMAIN img.recs : img.recs[i].name = n
  BY DEF Names, Range
<1> QED BY <1>1, IndexIsPlace

\* A record that is in both images has the same value in both.
LEMMA SameValue ==
  ASSUME NEW img, NEW new, Parses(img), Parses(new), NEW S, img.recs \in Recs(S),
         NEW T, new.recs \in Recs(T), NEW i \in DOMAIN img.recs, NEW j \in DOMAIN new.recs,
         new.recs[j].name = img.recs[i].name, new.recs[j].val = img.recs[i].val
  PROVE  /\ img.recs[i].name \in Names(new)
         /\ ValueOf(new, img.recs[i].name) = ValueOf(img, img.recs[i].name)
BY IndexIsPlace

\* RemoveFirst of an element that occurs once closes the gap.
LEMMA RemoveOnce ==
  ASSUME NEW E, NEW s \in Seq(E), NEW i \in 1..Len(s), \A j \in 1..Len(s) : s[j] = s[i] => j = i
  PROVE  /\ RemoveFirst(s, s[i]) \in Seq(E) /\ Len(RemoveFirst(s, s[i])) = Len(s) - 1
         /\ \A j \in 1..Len(s) - 1 : RemoveFirst(s, s[i])[j] = IF j < i THEN s[j] ELSE s[j + 1]
<1>0. PICK l \in Nat : l = Len(s)
  OBVIOUS
<1> DEFINE I == {j \in 1..Len(s) : s[j] = s[i]}
           a == SubSeq(s, 1, i - 1)
           b == SubSeq(s, i + 1, l)
<1>1. I = {i} /\ i \in 1..l
  BY <1>0
<1>2. SelectInSeq(s, LAMBDA v : v = s[i]) = IF I # {} THEN Min(I) ELSE 0
  BY DEF SelectInSeq
<1>3. Min({i}) = i
  BY <1>1 DEF Min
<1>4. SelectInSeq(s, LAMBDA v : v = s[i]) = i
  BY <1>1, <1>2, <1>3
<1>5. RemoveFirst(s, s[i]) = a \o b
  BY <1>0, <1>4 DEF RemoveFirst, RemoveAt
<1>6. /\ a \in Seq(E) /\ Len(a) = i - 1 /\ \A j \in 1..i - 1 : a[j] = s[j]
  <2>1. \A j \in 1..i - 1 : s[j] \in E
    BY <1>0, <1>1
  <2>2. /\ a \in Seq(E) /\ Len(a) = (IF 1 <= i - 1 THEN i - 1 - 1 + 1 ELSE 0)
        /\ \A j \in 1..i - 1 - 1 + 1 : a[j] = s[1 + j - 1]
    BY <1>1, <2>1, SubSeqProperties
  <2> HIDE DEF a
  <2> QED BY <1>1, <2>2
<1>7. /\ b \in Seq(E) /\ Len(b) = l - i /\ \A j \in 1..l - i : b[j] = s[i + j]
  <2>1. \A j \in i + 1..l : s[j] \in E
    BY <1>0, <1>1
  <2>2. /\ b \in Seq(E) /\ Len(b) = (IF i + 1 <= l THEN l - (i + 1) + 1 ELSE 0)
        /\ \A j \in 1..l - (i + 1) + 1 : b[j] = s[(i + 1) + j - 1]
    BY <1>1, <2>1, SubSeqProperties
  <2> HIDE DEF b
  <2>3. \A j \in 1..l - i : (i + 1) + j - 1 = i + j
    BY <1>1
  <2> QED BY <1>1, <2>2, <2>3
<1> HIDE DEF a, b
<1>8. /\ a \o b \in Seq(E) /\ Len(a \o b) = (i - 1) + (l - i)
      /\ \A j \in 1..(i - 1) + (l - i) : (a \o b)[j] = IF j <= i - 1 THEN a[j] ELSE b[j - (i - 1)]
  BY <1>6, <1>7, ConcatProperties
<1>9. \A j \in 1..l - 1 : (a \o b)[j] = IF j < i THEN s[j] ELSE s[j + 1]
  <2> SUFFICES ASSUME NEW j \in 1..l - 1 PROVE (a \o b)[j] = IF j < i THEN s[j] ELSE s[j + 1]
    OBVIOUS
  <2>1. CASE j < i
    BY <1>1, <1>6, <1>8, <2>1
  <2>2. CASE ~(j < i)
    <3>1. j - (i - 1) \in 1..l - i /\ i + (j - (i - 1)) = j + 1
      BY <1>1, <2>2
    <3>2. (a \o b)[j] = b[j - (i - 1)]
      BY <1>1, <1>8, <2>2
    <3> QED BY <1>7, <2>2, <3>1, <3>2
  <2> QED BY <2>1, <2>2
<1> QED BY <1>0, <1>1, <1>5, <1>8, <1>9

(***************************************************************************)
(* What a call does to an image: it stays tidy, and what locks forbid does not  *)
(* happen.                                                                 *)
(***************************************************************************)
Same(img, new, n) == /\ n \in Names(new) /\ ValueOf(new, n) = ValueOf(img, n)
                     /\ Items(new, n) = Items(img, n)

KeepsLocked(img, new) ==
    \A n \in Names(img) :
        /\ "*" \in LocksOf(img, n) => Same(img, new, n)
        /\ "changevar" \in LocksOf(img, n) /\ n \in Names(new) => ValueOf(new, n) = ValueOf(img, n)

Right(img, new) == Tidy(new) /\ KeepsLocked(img, new)

AllNames(img) == UserNames \cup HistoryItems(img)

\* The records of a tidy image.
LEMMA TidyRecords ==
  ASSUME NEW img, Tidy(img)
  PROVE  Parses(img) /\ img.recs \in Recs(AllNames(img)) /\ Names(img) \subseteq AllNames(img)
<1>1. Parses(img) /\ img.recs \in Recs(AllNames(img))
  BY DEF Tidy, Recs, AllNames
<1>2. \A n \in Names(img) : n \in AllNames(img)
  BY <1>1, NameIsPlaced
<1> QED BY <1>1, <1>2

\* Items stand under the names that their place gives them.
LEMMA ItemsOf ==
  ASSUME NEW img, HistoriesCount(img)
  PROVE  /\ \A n \in DOMAIN img.hist : \A k \in 1..Len(img.hist[n]) :
               /\ Append(n, k) \in HistoryItems(img) /\ img.hist[n][k] = Append(n, k)
               /\ Append(n, k) \in Range(img.hist[n])
         /\ \A x \in HistoryItems(img) : \E n \in DOMAIN img.hist : \E k \in 1..Len(img.hist[n]) :
               x = Append(n, k)
         /\ \A n \in DOMAIN img.hist : DOMAIN img.hist[n] = 1..Len(img.hist[n])
         /\ HistoryItems(img) \subseteq Names(img)
<1>1. ASSUME NEW n \in DOMAIN img.hist
      PROVE  /\ DOMAIN img.hist[n] = 1..Len(img.hist[n])
             /\ \A k \in 1..Len(img.hist[n]) : img.hist[n][k] = Append(n, k)
             /\ Range(img.hist[n]) \subseteq Names(img)
  <2> DEFINE h == img.hist[n]
             L == Len(h)
  <2>1. h = [k \in 1..L |-> Append(n, k)] /\ Range(h) \subseteq Names(img)
    BY DEF HistoriesCount
  <2> HIDE DEF h, L
  <2>2. DOMAIN h = 1..L /\ \A k \in 1..L : h[k] = Append(n, k)
    BY <2>1
  <2> QED BY <2>1, <2>2 DEF h, L
<1>2. \A n \in DOMAIN img.hist : Range(img.hist[n]) = {Append(n, k) : k \in 1..Len(img.hist[n])}
  BY <1>1 DEF Range
<1>3. \A x : x \in HistoryItems(img) <=> \E n \in DOMAIN img.hist : x \in Range(img.hist[n])
  BY DEF HistoryItems
<1>4. \A n \in DOMAIN img.hist : \A k \in 1..Len(img.hist[n]) :
               /\ Append(n, k) \in HistoryItems(img) /\ img.hist[n][k] = Append(n, k)
               /\ Append(n, k) \in Range(img.hist[n])
  BY <1>1, <1>2, <1>3
<1>5. \A x \in HistoryItems(img) : \E n \in DOMAIN img.hist : \E k \in 1..Len(img.hist[n]) :
               x = Append(n, k)
  BY <1>2, <1>3
<1>6. HistoryItems(img) \subseteq Names(img)
  BY <1>1, <1>3
<1> QED BY <1>1, <1>4, <1>5, <1>6

\* No caller's name is an item's.
LEMMA ItemsAreNotUsers ==
  ASSUME NoItemNamed, NEW img, HistoriesCount(img), NEW x \in HistoryItems(img)
  PROVE  x \notin UserNames
<1>0. PICK n \in DOMAIN img.hist : \E k \in 1..Len(img.hist[n]) : x = Append(n, k)
  BY ItemsOf
<1>1. PICK k \in 1..Len(img.hist[n]) : x = Append(n, k)
  BY <1>0
<1>2. n \in UserNames /\ k \in Nat
  BY DEF HistoriesCount
<1> QED BY <1>1, <1>2 DEF NoItemNamed

\* A call that only adds records of new names, and perhaps the items of a history, or
\* changes locks, leaves alone what it finds.
LEMMA RecordsKept ==
  ASSUME NEW img, Tidy(img), NEW new, Tidy(new),
         \A i \in DOMAIN img.recs : \E j \in DOMAIN new.recs : new.recs[j] = img.recs[i],
         NEW n \in Names(img)
  PROVE  n \in Names(new) /\ ValueOf(new, n) = ValueOf(img, n)
<1>1. PICK i \in DOMAIN img.recs : img.recs[i].name = n
  BY DEF Names, Range
<1>2. PICK j \in DOMAIN new.recs : new.recs[j] = img.recs[i]
  OBVIOUS
<1>3. /\ Parses(img) /\ img.recs \in Recs(AllNames(img))
      /\ Parses(new) /\ new.recs \in Recs(AllNames(new))
  BY TidyRecords
<1> QED BY <1>1, <1>2, <1>3, SameValue

Distinct(recs) == \A i, j \in DOMAIN recs : recs[i].name = recs[j].name => i = j
NamesIn(recs)  == {r.name : r \in Range(recs)}
Grown(recs, new, n) == /\ \A i \in DOMAIN recs : i \in DOMAIN new /\ new[i] = recs[i]
                       /\ NamesIn(new) = NamesIn(recs) \cup {n}

\* Appending a record of a new name.
LEMMA Appended ==
  ASSUME NEW S, NEW recs \in Recs(S), Distinct(recs),
         NEW n \in S, NEW v \in Values, \A i \in DOMAIN recs : recs[i].name # n,
         NEW new, new = Append(recs, Record(n, v))
  PROVE  /\ new \in Recs(S)
         /\ Distinct(new)
         /\ Grown(recs, new, n)
<1> DEFINE E == [name : S, val : Values]
           r == Record(n, v)
<1>1. r \in E /\ r.name = n /\ recs \in Seq(E) /\ new = Append(recs, r)
  BY DEF Recs, Record
<1> HIDE DEF E, r
<1>2. PICK l \in Nat : l = Len(recs)
  BY <1>1
<1>3. /\ new \in Seq(E) /\ Len(new) = l + 1
      /\ (\A i \in 1..l : new[i] = recs[i]) /\ new[l + 1] = r
  BY <1>1, <1>2, AppendProperties
<1>4. DOMAIN recs = 1..l /\ DOMAIN new = 1..(l + 1)
  BY <1>1, <1>2, <1>3
<1>5. \A i \in DOMAIN new : i \in DOMAIN recs \/ i = l + 1
  BY <1>4
<1>6. Distinct(new)
  BY <1>1, <1>3, <1>4, <1>5 DEF Distinct
<1>7. Range(new) = Range(recs) \cup {r}
  BY <1>3, <1>4, <1>5 DEF Range
<1>8. NamesIn(new) = NamesIn(recs) \cup {n}
  BY <1>1, <1>7 DEF NamesIn
<1>9. \A i \in DOMAIN recs : i \in DOMAIN new /\ new[i] = recs[i]
  BY <1>3, <1>4
<1>10. new \in Recs(S)
  BY <1>3 DEF Recs, E
<1> QED BY <1>6, <1>8, <1>9, <1>10 DEF Grown

\* addvar, appvar and joinvars: a record more and perhaps a lock.
LEMMA AddIsRight ==
  ASSUME NEW img, Tidy(img), NEW n \in UserNames \ Names(img), NEW v \in Values,
         NEW new, new = [img EXCEPT !.recs = Append(@, Record(n, v)), !.locks = new.locks],
         \/ new.locks = img.locks
         \/ \E m \in UserNames \cap (Names(img) \cup {n}) : \E ls \in SUBSET LockOps :
               new.locks = Put(img.locks, m, ls)
  PROVE  Right(img, new)
<1>0. img = [recs |-> img.recs, locks |-> img.locks, hist |-> img.hist, recent |-> img.recent]
  BY DEF Tidy
<1>1. /\ new = [recs |-> new.recs, locks |-> new.locks, hist |-> new.hist, recent |-> new.recent]
      /\ new.recs = Append(img.recs, Record(n, v)) /\ new.hist = img.hist /\ new.recent = img.recent
  BY <1>0
<1>2. /\ Parses(img) /\ img.recs \in Recs(AllNames(img)) /\ n \in AllNames(img)
      /\ \A i \in DOMAIN img.recs : img.recs[i].name # n
  BY TidyRecords DEF AllNames, Names, Range
<1>3. /\ new.recs \in Recs(AllNames(img)) /\ Parses(new)
      /\ \A i \in DOMAIN img.recs : i \in DOMAIN new.recs /\ new.recs[i] = img.recs[i]
      /\ Names(new) = Names(img) \cup {n}
  <2>0. PICK S, recs, after : S = AllNames(img) /\ recs = img.recs /\ after = new.recs
    OBVIOUS
  <2>1. /\ recs \in Recs(S) /\ Distinct(recs)
        /\ n \in S /\ (\A i \in DOMAIN recs : recs[i].name # n) /\ after = Append(recs, Record(n, v))
    BY <1>1, <1>2, <2>0 DEF Parses, Distinct
  <2>2. after \in Recs(S) /\ Distinct(after) /\ Grown(recs, after, n)
    BY <2>1, Appended, Zenon
  <2> QED BY <2>0, <2>2 DEF Parses, Names, Distinct, NamesIn, Grown
<1>4. HistoryItems(new) = HistoryItems(img)
  BY <1>1 DEF HistoryItems
<1>5. HistoriesCount(new)
  BY <1>1, <1>3 DEF Tidy, HistoriesCount
<1>6. DOMAIN new.locks \subseteq UserNames \cap Names(new) /\ \A m \in DOMAIN new.locks : new.locks[m] \subseteq LockOps
  BY <1>3 DEF Tidy, Put
<1>7. Tidy(new)
  BY <1>1, <1>3, <1>4, <1>5, <1>6 DEF Tidy, Recs, AllNames
<1>8. \A x \in Names(img) : Same(img, new, x)
  <2>1. \A x : Items(new, x) = Items(img, x)
    BY <1>1 DEF Items
  <2> QED BY <1>3, <1>7, <2>1, RecordsKept DEF Same
<1> QED BY <1>7, <1>8 DEF Right, KeepsLocked, Same

\* A change of locks alone leaves all records and histories.
LEMMA RelockIsRight ==
  ASSUME NEW img, Tidy(img), NEW new, new = [img EXCEPT !.locks = new.locks],
         DOMAIN new.locks \subseteq UserNames \cap Names(img),
         \A n \in DOMAIN new.locks : new.locks[n] \subseteq LockOps
  PROVE  Right(img, new)
<1>0. img = [recs |-> img.recs, locks |-> img.locks, hist |-> img.hist, recent |-> img.recent]
  BY DEF Tidy
<1>1. /\ new = [recs |-> new.recs, locks |-> new.locks, hist |-> new.hist, recent |-> new.recent]
      /\ new.recs = img.recs /\ new.hist = img.hist /\ new.recent = img.recent
  BY <1>0
<1>2. /\ Names(new) = Names(img) /\ HistoryItems(new) = HistoryItems(img)
      /\ Parses(new) <=> Parses(img)
      /\ \A n : Items(new, n) = Items(img, n)
      /\ \A n : ValueOf(new, n) = ValueOf(img, n)
  <2>1. Names(new) = Names(img) /\ HistoryItems(new) = HistoryItems(img)
    BY <1>1 DEF Names, HistoryItems
  <2>2. \A n : IndexOf(new, n) = IndexOf(img, n)
    BY <1>1 DEF IndexOf
  <2> QED BY <1>1, <2>1, <2>2 DEF Parses, Items, ValueOf
<1>3. HistoriesCount(new)
  BY <1>1, <1>2 DEF Tidy, HistoriesCount
<1>4. Tidy(new)
  BY <1>1, <1>2, <1>3 DEF Tidy
<1> QED BY <1>2, <1>4 DEF Right, KeepsLocked, Same

\* changevar: the record of n has another payload, and no lock of n forbids it.
LEMMA ChangeIsRight ==
  ASSUME NEW img, Tidy(img), NEW n \in UserNames, NEW v \in Values, NEW new \in ChangeVar(img, n, v)
  PROVE  Right(img, new)
<1>0. img = [recs |-> img.recs, locks |-> img.locks, hist |-> img.hist, recent |-> img.recent]
  BY DEF Tidy
<1>1. n \in Names(img) /\ ~Locked(img, n, "changevar") /\ new = SetValue(img, n, v)
  BY DEF ChangeVar, When
<1>2. /\ Parses(img) /\ img.recs \in Recs(AllNames(img))
  BY TidyRecords
<1>3. PICK i \in DOMAIN img.recs : img.recs[i].name = n /\ IndexOf(img, n) = i
  BY <1>1, <1>2, NameIsPlaced
<1>4. /\ new = [recs |-> new.recs, locks |-> new.locks, hist |-> new.hist, recent |-> new.recent]
      /\ new.recs = ReplaceAt(img.recs, i, Record(n, v))
      /\ new.hist = img.hist /\ new.recent = img.recent /\ new.locks = img.locks
  BY <1>0, <1>1, <1>3 DEF SetValue
<1>5. PICK E : E = [name : AllNames(img), val : Values]
  OBVIOUS
<1>6. Record(n, v) \in E /\ Record(n, v).name = n
  BY <1>5 DEF Record, AllNames
<1>7. /\ new.recs \in Seq(E) /\ DOMAIN new.recs = DOMAIN img.recs
      /\ new.recs[i] = Record(n, v) /\ \A j \in DOMAIN img.recs \ {i} : new.recs[j] = img.recs[j]
  BY <1>2, <1>4, <1>5, <1>6 DEF Recs, ReplaceAt
<1>8. new.recs \in Recs(AllNames(img))
  BY <1>5, <1>7 DEF Recs
<1>9. \A j \in DOMAIN img.recs : new.recs[j].name = img.recs[j].name
  BY <1>3, <1>6, <1>7
<1>10. Parses(new)
  BY <1>2, <1>7, <1>9 DEF Parses
<1>11. Names(new) = Names(img)
  BY <1>7, <1>9 DEF Names, Range
<1>12. HistoryItems(new) = HistoryItems(img) /\ HistoriesCount(new)
  BY <1>4, <1>11 DEF Tidy, HistoryItems, HistoriesCount
<1>13. Tidy(new)
  BY <1>4, <1>8, <1>10, <1>11, <1>12 DEF Tidy, Recs, AllNames
<1>14. ASSUME NEW x \in Names(img), x # n PROVE ValueOf(new, x) = ValueOf(img, x)
  <2>1. PICK j \in DOMAIN img.recs : img.recs[j].name = x
    BY DEF Names, Range
  <2>2. new.recs[j] = img.recs[j] /\ j \in DOMAIN new.recs
    BY <1>3, <1>7, <1>14, <2>1
  <2> QED BY <1>2, <1>8, <1>10, <2>1, <2>2, SameValue
<1>15. "*" \notin LocksOf(img, n) /\ "changevar" \notin LocksOf(img, n)
  BY <1>1 DEF Locked
<1>16. \A x : Items(new, x) = Items(img, x)
  BY <1>4 DEF Items
<1> QED BY <1>11, <1>13, <1>14, <1>15, <1>16 DEF Right, KeepsLocked, Same

\* removevar: n is neither a root nor an item, and is not locked against it.
LEMMA RemoveIsRight ==
  ASSUME NEW img, Tidy(img), NEW n \in UserNames, NEW new \in RemoveDirect(img, n)
  PROVE  Right(img, new)
<1>0. img = [recs |-> img.recs, locks |-> img.locks, hist |-> img.hist, recent |-> img.recent]
  BY DEF Tidy
<1>1. /\ n \in Names(img) /\ ~Locked(img, n, "removevar") /\ new = WithoutVar(img, n)
      /\ n \notin DOMAIN img.hist /\ n \notin HistoryItems(img)
  BY DEF RemoveDirect, When, MayRemove
<1>2. /\ Parses(img) /\ img.recs \in Recs(AllNames(img))
  BY TidyRecords
<1>3. PICK i \in DOMAIN img.recs : img.recs[i].name = n /\ IndexOf(img, n) = i
  BY <1>1, <1>2, NameIsPlaced
<1>4. /\ new = [recs |-> new.recs, locks |-> new.locks, hist |-> new.hist, recent |-> new.recent]
      /\ new.recs = RemoveFirst(img.recs, img.recs[i])
      /\ new.hist = img.hist /\ new.recent = img.recent /\ new.locks = Without(img.locks, n)
  BY <1>0, <1>1, <1>3 DEF WithoutVar
<1>5. PICK E : E = [name : AllNames(img), val : Values]
  OBVIOUS
<1>6. PICK s, t : s = img.recs /\ t = new.recs
  OBVIOUS
<1>7. s \in Seq(E) /\ i \in DOMAIN s /\ t = RemoveFirst(s, s[i])
  BY <1>2, <1>4, <1>5, <1>6 DEF Recs
<1>8. PICK l \in Nat : l = Len(s) /\ DOMAIN s = 1..l
  BY <1>7
<1>9. \A j, k \in 1..l : s[j].name = s[k].name => j = k
  BY <1>2, <1>6, <1>8 DEF Parses
<1>10. t \in Seq(E) /\ Len(t) = l - 1 /\ \A j \in 1..l - 1 : t[j] = IF j < i THEN s[j] ELSE s[j + 1]
  <2>1. i \in 1..Len(s) /\ \A j \in 1..Len(s) : s[j] = s[i] => j = i
    BY <1>7, <1>8, <1>9
  <2> QED BY <1>7, <1>8, <2>1, RemoveOnce
<1>11. DOMAIN t = 1..l - 1 /\ i \in 1..l
  BY <1>7, <1>8, <1>10
<1>12. \A j \in 1..l - 1 : IF j < i THEN j \in 1..l /\ t[j] = s[j] ELSE j + 1 \in 1..l /\ t[j] = s[j + 1]
  BY <1>10, <1>11
<1>13. \A j \in 1..l \ {i} : \E k \in 1..l - 1 : t[k] = s[j]
  <2> SUFFICES ASSUME NEW j \in 1..l \ {i} PROVE \E k \in 1..l - 1 : t[k] = s[j]
    OBVIOUS
  <2>1. CASE j < i
    BY <1>11, <1>12, <2>1
  <2>2. CASE ~(j < i)
    <3>1. j - 1 \in 1..l - 1 /\ ~(j - 1 < i) /\ (j - 1) + 1 = j
      BY <1>11, <2>2
    <3> QED BY <1>12, <3>1
  <2> QED BY <2>1, <2>2
<1>14. \A j, k \in 1..l - 1 : t[j].name = t[k].name => j = k
  <2> SUFFICES ASSUME NEW j \in 1..l - 1, NEW k \in 1..l - 1, t[j].name = t[k].name PROVE j = k
    OBVIOUS
  <2>1. PICK a \in 1..l : t[j] = s[a] /\ a = IF j < i THEN j ELSE j + 1
    BY <1>12
  <2>2. PICK b \in 1..l : t[k] = s[b] /\ b = IF k < i THEN k ELSE k + 1
    BY <1>12
  <2>3. a = b
    BY <1>9, <2>1, <2>2
  <2> QED BY <1>11, <2>1, <2>2, <2>3
<1>15. \A k \in 1..l - 1 : \E j \in 1..l \ {i} : t[k] = s[j]
  <2> SUFFICES ASSUME NEW k \in 1..l - 1 PROVE \E j \in 1..l \ {i} : t[k] = s[j]
    OBVIOUS
  <2>1. CASE k < i
    BY <1>12, <2>1
  <2>2. CASE ~(k < i)
    <3>1. k + 1 \in 1..l \ {i}
      BY <1>11, <2>2
    <3> QED BY <1>12, <2>2, <3>1
  <2> QED BY <2>1, <2>2
<1>16. Names(new) = Names(img) \ {n}
  <2>1. ASSUME NEW x \in Names(img) \ {n} PROVE x \in Names(new)
    <3>1. PICK j \in 1..l : s[j].name = x
      BY <1>6, <1>8 DEF Names, Range
    <3>2. PICK k \in 1..l - 1 : t[k] = s[j]
      BY <1>3, <1>6, <1>13, <3>1
    <3> QED BY <1>6, <1>11, <3>1, <3>2 DEF Names, Range
  <2>2. ASSUME NEW x \in Names(new) PROVE x \in Names(img) \ {n}
    <3>1. PICK k \in 1..l - 1 : t[k].name = x
      BY <1>6, <1>11 DEF Names, Range
    <3>2. PICK j \in 1..l \ {i} : t[k] = s[j]
      BY <1>15
    <3>3. x \in Names(img)
      BY <1>6, <1>8, <3>1, <3>2 DEF Names, Range
    <3>4. x # n
      BY <1>3, <1>6, <1>9, <1>11, <3>1, <3>2
    <3> QED BY <3>3, <3>4
  <2> QED BY <2>1, <2>2
<1>17. Parses(new) /\ new.recs \in Recs(AllNames(img))
  BY <1>5, <1>6, <1>10, <1>11, <1>14 DEF Parses, Recs
<1>18. HistoryItems(new) = HistoryItems(img)
  BY <1>4 DEF HistoryItems
<1>19. HistoriesCount(new)
  <2>1. \A m \in DOMAIN img.hist : Range(img.hist[m]) \subseteq HistoryItems(img)
    BY DEF HistoryItems
  <2> QED BY <1>1, <1>4, <1>16, <2>1 DEF Tidy, HistoriesCount
<1>20. DOMAIN new.locks \subseteq UserNames \cap Names(new) /\ \A m \in DOMAIN new.locks : new.locks[m] \subseteq LockOps
  BY <1>4, <1>16 DEF Tidy, Without, Restrict
<1>21. Tidy(new)
  BY <1>4, <1>17, <1>18, <1>19, <1>20 DEF Tidy, Recs, AllNames
<1>22. ASSUME NEW x \in Names(img) \ {n} PROVE Same(img, new, x)
  <2>1. PICK j \in 1..l : s[j].name = x
    BY <1>6, <1>8 DEF Names, Range
  <2>2. PICK k \in 1..l - 1 : t[k] = s[j]
    BY <1>3, <1>6, <1>13, <2>1
  <2>3. x \in Names(new) /\ ValueOf(new, x) = ValueOf(img, x)
    BY <1>2, <1>6, <1>8, <1>11, <1>17, <2>1, <2>2, SameValue
  <2> QED BY <1>4, <2>3 DEF Same, Items
<1>23. "*" \notin LocksOf(img, n)
  BY <1>1 DEF Locked
<1> QED BY <1>16, <1>21, <1>22, <1>23 DEF Right, KeepsLocked, Same

\* A history and its next item.
LEMMA NextItemFacts ==
  ASSUME NoItemNamed, NEW img, Tidy(img), NEW n \in UserNames
  PROVE  \E l \in Nat :
           /\ l = Len(Items(img, n)) /\ NextItem(img, n) = Append(n, l + 1)
           /\ Items(img, n) = [k \in 1..l |-> Append(n, k)]
           /\ Append(Items(img, n), NextItem(img, n)) = [k \in 1..(l + 1) |-> Append(n, k)]
           /\ Len(Append(Items(img, n), NextItem(img, n))) = l + 1
           /\ NextItem(img, n) \notin UserNames
<1>1. PICK h : h = Items(img, n)
  OBVIOUS
<1>2. \E l \in Nat : h = [k \in 1..l |-> Append(n, k)] /\ l = Len(h)
  <2>1. CASE n \in DOMAIN img.hist
    <3>1. h = img.hist[n]
      BY <1>1, <2>1 DEF Items
    <3>2. h = [k \in 1..Len(h) |-> Append(n, k)] /\ Len(h) \in Nat
      BY <2>1, <3>1 DEF Tidy, HistoriesCount
    <3> QED BY <3>2
  <2>2. CASE n \notin DOMAIN img.hist
    <3>1. h = <<>>
      BY <1>1, <2>2 DEF Items
    <3>2. h = [k \in 1..0 |-> Append(n, k)] /\ Len(h) = 0
      BY <3>1
    <3> QED BY <3>2
  <2> QED BY <2>1, <2>2
<1>3. PICK l \in Nat : h = [k \in 1..l |-> Append(n, k)] /\ l = Len(h)
  BY <1>2
<1>4. PICK A : A = {Append(n, k) : k \in Nat}
  OBVIOUS
<1>5. h \in Seq(A)
  <2>1. \A k \in 1..l : Append(n, k) \in A
    BY <1>4
  <2>2. h \in [1..l -> A]
    BY <1>3, <2>1
  <2> QED BY <2>2, SeqDef
<1>6. PICK x : x = Append(n, l + 1)
  OBVIOUS
<1>7. x \in A
  BY <1>4, <1>6
<1>a. l = Len(h)
  BY <1>3
<1>8. /\ Append(h, x) \in Seq(A) /\ Len(Append(h, x)) = l + 1
      /\ (\A k \in 1..l : Append(h, x)[k] = h[k]) /\ Append(h, x)[l + 1] = x
  <2>1. /\ Append(h, x) \in Seq(A) /\ Len(Append(h, x)) = Len(h) + 1
        /\ (\A k \in 1..Len(h) : Append(h, x)[k] = h[k]) /\ Append(h, x)[Len(h) + 1] = x
    BY <1>5, <1>7, AppendProperties
  <2> QED BY <1>a, <2>1, Zenon
<1>9. Append(h, x) = [k \in 1..(l + 1) |-> Append(n, k)]
  <2>1. PICK t : t = Append(h, x)
    OBVIOUS
  <2>2. t \in Seq(A) /\ Len(t) = l + 1
    BY <1>8, <2>1
  <2>3. DOMAIN t = 1..(l + 1) /\ t = [k \in DOMAIN t |-> t[k]]
    BY <2>2
  <2>4. \A k \in 1..(l + 1) : t[k] = Append(n, k)
    <3> SUFFICES ASSUME NEW k \in 1..(l + 1) PROVE t[k] = Append(n, k)
      OBVIOUS
    <3>1. CASE k \in 1..l
      BY <1>3, <1>8, <2>1, <3>1
    <3>2. CASE k = l + 1
      BY <1>6, <1>8, <2>1, <3>2
    <3> QED BY <3>1, <3>2
  <2> QED BY <2>1, <2>3, <2>4
<1>10. NextItem(img, n) = x
  BY <1>1, <1>3, <1>6 DEF NextItem
<1>11. x \notin UserNames
  <2>1. l + 1 \in Nat
    OBVIOUS
  <2>2. \A m \in UserNames : m # Append(n, l + 1)
    BY <2>1, Zenon DEF NoItemNamed
  <2> QED BY <1>6, <2>2, Zenon
<1> QED BY <1>1, <1>3, <1>6, <1>8, <1>9, <1>10, <1>11

\* stalkvar: n, which is not locked, has one item more, the newest one.
LEMMA StalkIsRight ==
  ASSUME NoItemNamed, NEW img, Tidy(img), NEW n \in UserNames, NEW v \in Values, NEW new \in Stalk(img, n, v)
  PROVE  Right(img, new)
<1>0. img = [recs |-> img.recs, locks |-> img.locks, hist |-> img.hist, recent |-> img.recent]
  BY DEF Tidy
<1>1. /\ n \in Names(img) /\ ~Locked(img, n, "stalkvar") /\ NextItem(img, n) \notin Names(img)
      /\ new = [WithItem(img, n, v) EXCEPT !.recent =
             IF NextItem(img, n) \in Range(@) THEN @ ELSE Append(@, NextItem(img, n))]
  BY DEF Stalk, When, StalkChecks
<1>2. PICK l \in Nat :
           /\ l = Len(Items(img, n)) /\ NextItem(img, n) = Append(n, l + 1)
           /\ Items(img, n) = [k \in 1..l |-> Append(n, k)]
           /\ Append(Items(img, n), NextItem(img, n)) = [k \in 1..(l + 1) |-> Append(n, k)]
           /\ Len(Append(Items(img, n), NextItem(img, n))) = l + 1
           /\ NextItem(img, n) \notin UserNames
  BY NextItemFacts
<1>3. PICK item, h : item = NextItem(img, n) /\ h = Append(Items(img, n), NextItem(img, n))
  OBVIOUS
<1>4. /\ item = Append(n, l + 1) /\ h = [k \in 1..(l + 1) |-> Append(n, k)] /\ Len(h) = l + 1
      /\ item \notin UserNames /\ item \notin Names(img)
  BY <1>1, <1>2, <1>3
<1>5. WithItem(img, n, v) =
         [recs |-> Append(img.recs, Record(item, v)), locks |-> img.locks,
          hist |-> Put(img.hist, n, h), recent |-> img.recent]
  <2>1. WithItem(img, n, v) = [img EXCEPT !.recs = Append(@, Record(item, v)),
                                         !.hist = Put(@, n, h)]
    BY <1>3, Zenon DEF WithItem
  <2> QED BY <1>0, <2>1
<1>6. /\ new = [recs |-> new.recs, locks |-> new.locks, hist |-> new.hist, recent |-> new.recent]
      /\ new.recs = Append(img.recs, Record(item, v)) /\ new.locks = img.locks
      /\ new.hist = Put(img.hist, n, h)
      /\ new.recent = IF item \in Range(img.recent) THEN img.recent ELSE Append(img.recent, item)
  <2>1. PICK wi : wi = WithItem(img, n, v)
    OBVIOUS
  <2>2. new = [wi EXCEPT !.recent = IF item \in Range(@) THEN @ ELSE Append(@, item)]
    BY <1>1, <1>3, <2>1, Zenon
  <2>3. wi = [recs |-> Append(img.recs, Record(item, v)), locks |-> img.locks,
              hist |-> Put(img.hist, n, h), recent |-> img.recent]
    BY <1>5, <2>1, Zenon
  <2> QED BY <2>2, <2>3
<1>7. /\ Parses(img) /\ img.recs \in Recs(AllNames(img)) /\ HistoriesCount(img)
      /\ HistoryItems(img) \subseteq Names(img)
  BY TidyRecords, ItemsOf DEF Tidy
<1>8. item \notin HistoryItems(img) /\ item \notin Range(img.recent)
  BY <1>4, <1>7 DEF Tidy
<1>9. /\ DOMAIN new.hist = DOMAIN img.hist \cup {n} /\ new.hist[n] = h
      /\ \A m \in DOMAIN img.hist \ {n} : new.hist[m] = img.hist[m]
  BY <1>6 DEF Put
<1>10. Range(h) = Range(Items(img, n)) \cup {item}
  <2>1. DOMAIN h = 1..(l + 1) /\ \A k \in 1..(l + 1) : h[k] = Append(n, k)
    BY <1>4
  <2>2. DOMAIN Items(img, n) = 1..l /\ \A k \in 1..l : Items(img, n)[k] = Append(n, k)
    BY <1>2
  <2>3. Range(h) = {Append(n, k) : k \in 1..(l + 1)}
    BY <2>1 DEF Range
  <2>4. Range(Items(img, n)) = {Append(n, k) : k \in 1..l}
    BY <2>2 DEF Range
  <2>5. \A k \in 1..(l + 1) : k \in 1..l \/ k = l + 1
    OBVIOUS
  <2>6. \A k \in 1..l : k \in 1..(l + 1)
    OBVIOUS
  <2>7. l + 1 \in 1..(l + 1)
    OBVIOUS
  <2>8. Range(h) \subseteq Range(Items(img, n)) \cup {item}
    BY <1>4, <2>3, <2>4, <2>5
  <2>9. Range(Items(img, n)) \cup {item} \subseteq Range(h)
    BY <1>4, <2>3, <2>4, <2>6, <2>7
  <2> QED BY <2>8, <2>9
<1>11. HistoryItems(new) = HistoryItems(img) \cup {item}
  <2>1. \A x : x \in HistoryItems(img) <=> \E m \in DOMAIN img.hist : x \in Range(img.hist[m])
    BY DEF HistoryItems
  <2>2. \A x : x \in HistoryItems(new) <=> \E m \in DOMAIN new.hist : x \in Range(new.hist[m])
    BY DEF HistoryItems
  <2>3. \A x : x \in Range(Items(img, n)) => n \in DOMAIN img.hist /\ x \in Range(img.hist[n])
    BY DEF Items, Range
  <2>4. n \in DOMAIN img.hist => Items(img, n) = img.hist[n]
    BY DEF Items
  <2> QED BY <1>9, <1>10, <2>1, <2>2, <2>3, <2>4
<1>12. PICK S : S = AllNames(img) \cup {item}
  OBVIOUS
<1>13. /\ new.recs \in Recs(S) /\ Parses(new) /\ Grown(img.recs, new.recs, item)
  <2>0. PICK recs, after : recs = img.recs /\ after = new.recs
    OBVIOUS
  <2>1. recs \in Recs(S)
    <3>1. PICK E, F : E = [name : AllNames(img), val : Values] /\ F = [name : S, val : Values]
      OBVIOUS
    <3>2. E \subseteq F
      BY <1>12, <3>1
    <3>3. recs \in Seq(E)
      BY <1>7, <2>0, <3>1 DEF Recs
    <3>4. recs \in [1..Len(recs) -> F] /\ Len(recs) \in Nat
      BY <3>2, <3>3
    <3>5. recs \in Seq(F)
      BY <3>4, SeqDef
    <3> QED BY <3>1, <3>5 DEF Recs
  <2>2. /\ Distinct(recs) /\ item \in S /\ (\A i \in DOMAIN recs : recs[i].name # item)
        /\ after = Append(recs, Record(item, v))
    BY <1>4, <1>6, <1>7, <1>12, <2>0 DEF Parses, Distinct, Names, Range
  <2>3. after \in Recs(S) /\ Distinct(after) /\ Grown(recs, after, item)
    BY <2>1, <2>2, Appended, Zenon
  <2> QED BY <2>0, <2>3 DEF Parses, Distinct
<1>14. Names(new) = Names(img) \cup {item}
  BY <1>13 DEF Grown, NamesIn, Names
<1>15. AllNames(new) = S
  BY <1>11, <1>12 DEF AllNames
<1>16. HistoriesCount(new)
  <2>1. DOMAIN new.hist \subseteq UserNames \cap Names(new)
    BY <1>1, <1>7, <1>9, <1>14 DEF HistoriesCount
  <2>2. ASSUME NEW m \in DOMAIN new.hist, m # n
        PROVE  /\ Len(new.hist[m]) \in Nat \ {0} /\ new.hist[m] = [k \in 1..Len(new.hist[m]) |-> Append(m, k)]
               /\ Range(new.hist[m]) \subseteq Names(new)
    BY <1>7, <1>9, <1>14, <2>2 DEF HistoriesCount
  <2>3. /\ Len(h) \in Nat \ {0} /\ h = [k \in 1..Len(h) |-> Append(n, k)]
    BY <1>4
  <2>4. Range(h) \subseteq Names(new)
    <3>1. Range(Items(img, n)) \subseteq HistoryItems(img)
      BY DEF HistoryItems, Items, Range
    <3> QED BY <1>7, <1>10, <1>14, <3>1
  <2> QED BY <1>9, <2>1, <2>2, <2>3, <2>4 DEF HistoriesCount
<1>17. /\ new.recent \in Seq(HistoryItems(new)) /\ IsInjective(new.recent)
       /\ Range(new.recent) = HistoryItems(new)
  <2>1. PICK r, s, H : r = img.recent /\ s = new.recent /\ H = HistoryItems(new)
    OBVIOUS
  <2>2. item \in H /\ r \in Seq(H) /\ s = Append(r, item) /\ IsInjective(r) /\ H = Range(r) \cup {item}
    <3>1. r \in Seq(HistoryItems(img)) /\ IsInjective(r) /\ Range(r) = HistoryItems(img)
      BY <2>1 DEF Tidy
    <3>2. r \in [1..Len(r) -> H] /\ Len(r) \in Nat
      BY <1>11, <2>1, <3>1
    <3>3. r \in Seq(H)
      BY <3>2, SeqDef
    <3> QED BY <1>6, <1>8, <1>11, <2>1, <3>1, <3>3
  <2>3. PICK d \in Nat : d = Len(r)
    BY <2>2
  <2>4. /\ s \in Seq(H) /\ Len(s) = d + 1 /\ (\A i \in 1..d : s[i] = r[i]) /\ s[d + 1] = item
    BY <2>2, <2>3, AppendProperties
  <2>5. DOMAIN s = 1..(d + 1) /\ DOMAIN r = 1..d /\ \A i \in 1..(d + 1) : i \in 1..d \/ i = d + 1
    BY <2>2, <2>3, <2>4
  <2>6. \A i \in 1..d : r[i] # item
    BY <1>8, <2>1, <2>5 DEF Range
  <2>7. IsInjective(s)
    BY <2>2, <2>4, <2>5, <2>6 DEF IsInjective
  <2>8. Range(s) = Range(r) \cup {item}
    BY <2>4, <2>5 DEF Range
  <2> QED BY <2>1, <2>2, <2>4, <2>7, <2>8
<1>18. Tidy(new)
  BY <1>6, <1>13, <1>14, <1>15, <1>16, <1>17 DEF Tidy, Recs, AllNames
<1>19. \A i \in DOMAIN img.recs : \E j \in DOMAIN new.recs : new.recs[j] = img.recs[i]
  BY <1>13 DEF Grown
<1>20. \A x \in Names(img) : x \in Names(new) /\ ValueOf(new, x) = ValueOf(img, x)
  BY <1>18, <1>19, RecordsKept
<1>21. \A x : x # n => Items(new, x) = Items(img, x)
  BY <1>9 DEF Items
<1>22. "*" \notin LocksOf(img, n)
  BY <1>1 DEF Locked
<1> QED BY <1>18, <1>20, <1>21, <1>22 DEF Right, KeepsLocked, Same

\* What renaming n to m, which is no variable, calls a variable or an item: no two the
\* same, and all but n and its items as before.
LEMMA RenamedNames ==
  ASSUME NoItemNamed, NEW img, Tidy(img), NEW n \in UserNames \cap Names(img),
         NEW m \in UserNames \ Names(img)
  PROVE  /\ NewName(img, n, m, n) = m
         /\ \A x \in UserNames : x # n => NewName(img, n, m, x) = x
         /\ n \in DOMAIN img.hist => \A k \in 1..Len(img.hist[n]) :
               /\ ItemName(img, n, m, k) = Append(m, k)
               /\ NewName(img, n, m, Append(n, k)) = Append(m, k)
         /\ \A r \in DOMAIN img.hist : r # n => \A k \in 1..Len(img.hist[r]) :
               NewName(img, n, m, Append(r, k)) = Append(r, k)
         /\ \A k \in Nat : Append(m, k) \notin Names(img) /\ Append(m, k) # m
<1>0. /\ HistoriesCount(img) /\ Names(img) \subseteq AllNames(img)
      /\ DOMAIN img.hist \subseteq UserNames /\ DOMAIN img.hist \subseteq Names(img)
  BY TidyRecords DEF Tidy, HistoriesCount
<1>1. NewName(img, n, m, n) = m
  BY DEF NewName
<1>2. ASSUME NEW x \in UserNames, x # n PROVE NewName(img, n, m, x) = x
  <2>1. n \in DOMAIN img.hist => x \notin Range(img.hist[n])
    <3>1. x \notin HistoryItems(img)
      BY <1>0, ItemsAreNotUsers
    <3> QED BY <3>1 DEF HistoryItems
  <2> QED BY <1>2, <2>1 DEF NewName
<1>3. ASSUME n \in DOMAIN img.hist, NEW k \in 1..Len(img.hist[n])
      PROVE  /\ ItemName(img, n, m, k) = Append(m, k)
             /\ NewName(img, n, m, Append(n, k)) = Append(m, k)
  <2>1. k \in Nat
    OBVIOUS
  <2>2. IsPrefix(n, Append(n, k)) /\ Derived(n, m, Append(n, k)) = Append(m, k)
    BY <2>1, DerivedNames
  <2>3. /\ \A j \in 1..Len(img.hist[n]) : img.hist[n][j] = Append(n, j)
        /\ DOMAIN img.hist[n] = 1..Len(img.hist[n]) /\ Append(n, k) \in Range(img.hist[n])
    BY <1>0, <1>3, ItemsOf
  <2>4. ItemName(img, n, m, k) = Append(m, k)
    BY <2>2, <2>3 DEF ItemName
  <2>5. Append(n, k) # n
    BY <2>1 DEF NoItemNamed
  <2>6. (CHOOSE j \in DOMAIN img.hist[n] : img.hist[n][j] = Append(n, k)) = k
    <3>1. \A j \in DOMAIN img.hist[n] : img.hist[n][j] = Append(n, k) => j = k
      <4> SUFFICES ASSUME NEW j \in DOMAIN img.hist[n], img.hist[n][j] = Append(n, k) PROVE j = k
        OBVIOUS
      <4>1. j \in Nat /\ Append(n, j) = Append(n, k)
        BY <2>3
      <4> QED BY <2>1, <4>1, ItemNamesDiffer
    <3>2. k \in DOMAIN img.hist[n] /\ img.hist[n][k] = Append(n, k)
      BY <2>3
    <3> QED BY <3>1, <3>2
  <2>7. NewName(img, n, m, Append(n, k)) =
           ItemName(img, n, m, CHOOSE j \in DOMAIN img.hist[n] : img.hist[n][j] = Append(n, k))
    BY <1>3, <2>3, <2>5 DEF NewName
  <2> QED BY <2>4, <2>6, <2>7
<1>4. ASSUME NEW r \in DOMAIN img.hist, r # n, NEW k \in 1..Len(img.hist[r])
      PROVE  NewName(img, n, m, Append(r, k)) = Append(r, k)
  <2>1. r \in UserNames /\ k \in Nat
    BY <1>0
  <2>2. Append(r, k) # n
    BY <2>1 DEF NoItemNamed
  <2>3. n \in DOMAIN img.hist => Append(r, k) \notin Range(img.hist[n])
    <3> SUFFICES ASSUME n \in DOMAIN img.hist, Append(r, k) \in Range(img.hist[n]) PROVE FALSE
      OBVIOUS
    <3>0. /\ DOMAIN img.hist[n] = 1..Len(img.hist[n])
          /\ \A j \in 1..Len(img.hist[n]) : img.hist[n][j] = Append(n, j)
      BY <1>0, ItemsOf
    <3>1. PICK j \in 1..Len(img.hist[n]) : Append(r, k) = Append(n, j)
      BY <3>0 DEF Range
    <3>2. j \in Nat
      OBVIOUS
    <3>3. r = n
      BY <2>1, <3>1, <3>2, ItemNamesDiffer
    <3> QED BY <1>4, <3>3
  <2> QED BY <2>2, <2>3 DEF NewName
<1>5. ASSUME NEW k \in Nat PROVE Append(m, k) \notin Names(img) /\ Append(m, k) # m
  <2>1. Append(m, k) \notin UserNames
    BY DEF NoItemNamed
  <2>2. Append(m, k) \notin HistoryItems(img)
    <3> SUFFICES ASSUME Append(m, k) \in HistoryItems(img) PROVE FALSE
      OBVIOUS
    <3>1. PICK r \in DOMAIN img.hist : \E j \in 1..Len(img.hist[r]) : Append(m, k) = Append(r, j)
      BY <1>0, ItemsOf
    <3>2. PICK j \in 1..Len(img.hist[r]) : Append(m, k) = Append(r, j)
      BY <3>1
    <3>3. r \in UserNames /\ j \in Nat
      BY <1>0
    <3>4. r = m
      BY <3>2, <3>3, ItemNamesDiffer
    <3> QED BY <1>0, <3>4
  <2> QED BY <1>0, <2>1, <2>2 DEF AllNames
<1> QED BY <1>1, <1>2, <1>3, <1>4, <1>5

\* The same for all the names of the image at once.
Renaming(img, n, m, f) ==
    /\ f[n] = m
    /\ \A x \in UserNames : x # n => f[x] = x
    /\ n \in DOMAIN img.hist => \A k \in 1..Len(img.hist[n]) : f[Append(n, k)] = Append(m, k)
    /\ \A r \in DOMAIN img.hist : r # n => \A k \in 1..Len(img.hist[r]) : f[Append(r, k)] = Append(r, k)
    /\ \A x, y \in Names(img) : f[x] = f[y] => x = y

\* NewName on the names of the image is such a renaming.
LEMMA RenamingExists ==
  ASSUME NoItemNamed, NEW img, Tidy(img), NEW n \in UserNames \cap Names(img),
         NEW m \in UserNames \ Names(img),
         NEW f, f = [x \in AllNames(img) |-> NewName(img, n, m, x)]
  PROVE  Renaming(img, n, m, f)
<1>0. /\ HistoriesCount(img) /\ Names(img) \subseteq AllNames(img)
      /\ DOMAIN img.hist \subseteq UserNames /\ UserNames \subseteq AllNames(img)
  BY TidyRecords DEF Tidy, HistoriesCount, AllNames
<1>1. \A x \in AllNames(img) : f[x] = NewName(img, n, m, x)
  OBVIOUS
<1>2. f[n] = m /\ \A x \in UserNames : x # n => f[x] = x
  BY <1>0, <1>1, RenamedNames
<1>3. \A r \in DOMAIN img.hist : \A k \in 1..Len(img.hist[r]) : Append(r, k) \in AllNames(img)
  BY <1>0, ItemsOf DEF AllNames
<1>4. n \in DOMAIN img.hist => \A k \in 1..Len(img.hist[n]) : f[Append(n, k)] = Append(m, k)
  BY <1>1, <1>3, RenamedNames
<1>5. \A r \in DOMAIN img.hist : r # n => \A k \in 1..Len(img.hist[r]) : f[Append(r, k)] = Append(r, k)
  BY <1>1, <1>3, RenamedNames
<1>6. \A k \in Nat : Append(m, k) \notin Names(img) /\ Append(m, k) # m
  BY RenamedNames
<1>7. ASSUME NEW x \in Names(img)
      PROVE  \/ x = n /\ f[x] = m
             \/ \E k \in Nat : x = Append(n, k) /\ f[x] = Append(m, k)
             \/ f[x] = x
  <2>1. CASE x \in UserNames
    BY <1>2, <2>1
  <2>2. CASE x \in HistoryItems(img)
    <3>1. PICK r \in DOMAIN img.hist : \E k \in 1..Len(img.hist[r]) : x = Append(r, k)
      BY <1>0, <2>2, ItemsOf
    <3>2. PICK k \in 1..Len(img.hist[r]) : x = Append(r, k)
      BY <3>1
    <3>3. k \in Nat
      OBVIOUS
    <3>4. CASE r = n
      BY <1>4, <3>2, <3>3, <3>4
    <3>5. CASE r # n
      BY <1>5, <3>2, <3>5
    <3> QED BY <3>4, <3>5
  <2> QED BY <1>0, <2>1, <2>2 DEF AllNames
<1>8. \A k, j \in Nat : Append(m, k) = Append(m, j) => k = j
  BY ItemNamesDiffer
<1>9. ASSUME NEW x \in Names(img), NEW y \in Names(img), f[x] = f[y] PROVE x = y
  <2>1. CASE x = n /\ f[x] = m
    BY <1>6, <1>7, <1>9, <2>1
  <2>2. CASE \E k \in Nat : x = Append(n, k) /\ f[x] = Append(m, k)
    <3>1. PICK k \in Nat : x = Append(n, k) /\ f[x] = Append(m, k)
      BY <2>2
    <3>2. f[y] \notin Names(img) /\ f[y] # m
      BY <1>6, <1>9, <3>1
    <3>3. PICK j \in Nat : y = Append(n, j) /\ f[y] = Append(m, j)
      BY <1>7, <3>2
    <3>4. k = j
      BY <1>8, <1>9, <3>1, <3>3
    <3> QED BY <3>1, <3>3, <3>4
  <2>3. CASE f[x] = x
    <3>1. f[y] # m /\ \A k \in Nat : f[y] # Append(m, k)
      BY <1>6, <1>9, <2>3
    <3>2. f[y] = y
      BY <1>7, <3>1
    <3> QED BY <1>9, <2>3, <3>2
  <2> QED BY <1>7, <2>1, <2>2, <2>3
<1> QED BY <1>2, <1>4, <1>5, <1>9 DEF Renaming

\* The image that renamevar_stx leaves: every name and item by its new name.
LEMMA RenamedImage ==
  ASSUME NoItemNamed, NEW img, Tidy(img), NEW n \in UserNames, NEW m \in UserNames,
         NEW new \in RenameDirect(img, n, m),
         NEW f, f = [x \in AllNames(img) |-> NewName(img, n, m, x)]
  PROVE  /\ new = [recs |-> new.recs, locks |-> new.locks, hist |-> new.hist, recent |-> new.recent]
         /\ new.recs = [i \in DOMAIN img.recs |-> Record(f[img.recs[i].name], img.recs[i].val)]
         /\ new.locks = Moved(img.locks, n, m)
         /\ new.hist = RenamedHistory(img, n, m)
         /\ new.recent = [k \in DOMAIN img.recent |-> f[img.recent[k]]]
         /\ n \in Names(img) /\ m \notin Names(img) /\ ~Locked(img, n, "renamevar_stx")
<1>0. img = [recs |-> img.recs, locks |-> img.locks, hist |-> img.hist, recent |-> img.recent]
  BY DEF Tidy
<1>1. PICK mid \in RenameOverlay(img, n, m) :
         new = [mid EXCEPT !.recent = [k \in DOMAIN @ |-> NewName(img, n, m, @[k])]]
  BY DEF RenameDirect
<1>2. /\ n \in Names(img) /\ m \notin Names(img) /\ ~Locked(img, n, "renamevar_stx")
      /\ mid = [img EXCEPT !.recs = RenamedRecords(img, n, m), !.locks = Moved(@, n, m),
                           !.hist = RenamedHistory(img, n, m)]
  BY DEF RenameOverlay, When
<1>3. mid = [recs |-> RenamedRecords(img, n, m), locks |-> Moved(img.locks, n, m),
             hist |-> RenamedHistory(img, n, m), recent |-> img.recent]
  BY <1>0, <1>2
<1>4. new = [recs |-> RenamedRecords(img, n, m), locks |-> Moved(img.locks, n, m),
             hist |-> RenamedHistory(img, n, m),
             recent |-> [k \in DOMAIN img.recent |-> NewName(img, n, m, img.recent[k])]]
  BY <1>1, <1>3
<1>5. RenamedRecords(img, n, m) = [i \in DOMAIN img.recs |-> Record(f[img.recs[i].name], img.recs[i].val)]
  <2>1. /\ Parses(img) /\ img.recs \in Recs(AllNames(img))
    BY TidyRecords
  <2>2. ASSUME NEW i \in DOMAIN img.recs
        PROVE  (IF i = IndexOf(img, img.recs[i].name)
                THEN [img.recs[i] EXCEPT !.name = NewName(img, n, m, @)] ELSE img.recs[i])
               = Record(f[img.recs[i].name], img.recs[i].val)
    <3>1. IndexOf(img, img.recs[i].name) = i /\ img.recs[i].name \in AllNames(img)
      BY <2>1, IndexIsPlace
    <3>2. PICK r : r = img.recs[i]
      OBVIOUS
    <3>3. r \in [name : AllNames(img), val : Values]
      <4>1. PICK E : E = [name : AllNames(img), val : Values]
        OBVIOUS
      <4>2. PICK s : s = img.recs
        OBVIOUS
      <4>3. s \in Seq(E) /\ i \in DOMAIN s /\ r = s[i]
        BY <2>1, <3>2, <4>1, <4>2 DEF Recs
      <4>4. r \in E
        BY <4>3
      <4> QED BY <4>1, <4>4
    <3>4. [r EXCEPT !.name = NewName(img, n, m, @)] = [name |-> f[r.name], val |-> r.val]
      BY <3>3
    <3> QED BY <3>1, <3>2, <3>4 DEF Record
  <2> QED BY <2>2 DEF RenamedRecords
<1>6. [k \in DOMAIN img.recent |-> NewName(img, n, m, img.recent[k])] = [k \in DOMAIN img.recent |-> f[img.recent[k]]]
  <2>1. \A k \in DOMAIN img.recent : img.recent[k] \in AllNames(img)
    BY DEF Tidy, AllNames
  <2> QED BY <2>1
<1> QED BY <1>2, <1>4, <1>5, <1>6

\* The histories of a renamed image, and the items in them.
LEMMA RenamedHistories ==
  ASSUME NoItemNamed, NEW img, Tidy(img), NEW n \in UserNames \cap Names(img),
         NEW m \in UserNames \ Names(img), NEW f, Renaming(img, n, m, f),
         NEW new, new.hist = RenamedHistory(img, n, m),
         \A x \in Names(img) : f[x] \in Names(new)
  PROVE  /\ HistoriesCount(new)
         /\ \A x : x \in HistoryItems(new) <=> \E y \in HistoryItems(img) : x = f[y]
         /\ \A r : r # n /\ r # m => Items(new, r) = Items(img, r)
<1>0. /\ HistoriesCount(img) /\ Names(img) \subseteq AllNames(img)
      /\ DOMAIN img.hist \subseteq UserNames /\ DOMAIN img.hist \subseteq Names(img)
      /\ m \notin DOMAIN img.hist
  BY TidyRecords DEF Tidy, HistoriesCount
<1>1. CASE n \notin DOMAIN img.hist
  <2>1. new.hist = img.hist
    BY <1>1 DEF RenamedHistory
  <2>2. HistoryItems(new) = HistoryItems(img) /\ \A r : Items(new, r) = Items(img, r)
    BY <2>1 DEF HistoryItems, Items
  <2>3. \A x \in HistoryItems(img) : f[x] = x /\ x \in Names(img)
    <3> SUFFICES ASSUME NEW x \in HistoryItems(img) PROVE f[x] = x /\ x \in Names(img)
      OBVIOUS
    <3>1. PICK r \in DOMAIN img.hist : \E k \in 1..Len(img.hist[r]) : x = Append(r, k)
      BY <1>0, ItemsOf
    <3>2. x \in Names(img)
      BY <1>0, ItemsOf
    <3> QED BY <1>1, <3>1, <3>2 DEF Renaming
  <2>4. \A r \in DOMAIN img.hist : f[r] = r
    BY <1>0, <1>1 DEF Renaming
  <2>5. DOMAIN new.hist \subseteq UserNames \cap Names(new)
    <3> SUFFICES ASSUME NEW r \in DOMAIN img.hist PROVE r \in UserNames /\ r \in Names(new)
      BY <2>1
    <3>1. r \in Names(img) /\ f[r] = r
      BY <1>0, <2>4
    <3> QED BY <1>0, <3>1
  <2>6. \A r \in DOMAIN new.hist : Range(new.hist[r]) \subseteq Names(new)
    <3>1. \A r \in DOMAIN img.hist : \A x \in Range(img.hist[r]) : x \in HistoryItems(img)
      BY DEF HistoryItems
    <3>2. \A x \in HistoryItems(img) : x \in Names(new)
      <4> SUFFICES ASSUME NEW x \in HistoryItems(img) PROVE x \in Names(new)
        OBVIOUS
      <4>1. x \in Names(img) /\ f[x] = x
        BY <2>3
      <4> QED BY <4>1
    <3> QED BY <2>1, <3>1, <3>2
  <2>7. HistoriesCount(new)
    BY <1>0, <2>1, <2>5, <2>6 DEF HistoriesCount
  <2>8. ASSUME NEW x
        PROVE x \in HistoryItems(new) <=> \E y \in HistoryItems(img) : x = f[y]
    <3>1. CASE x \in HistoryItems(img)
      BY <2>2, <2>3, <3>1
    <3>2. CASE x \notin HistoryItems(img)
      BY <2>2, <2>3, <3>2
    <3> QED BY <3>1, <3>2
  <2>9. \A x : x \in HistoryItems(new) <=> \E y \in HistoryItems(img) : x = f[y]
    BY <2>8, Zenon
  <2>10. \A r : r # n /\ r # m => Items(new, r) = Items(img, r)
    BY <2>2, Zenon
  <2> QED BY <2>7, <2>9, <2>10, Zenon
<1>2. CASE n \in DOMAIN img.hist
  <2>0. Len(img.hist[n]) \in Nat \ {0}
    BY <1>0, <1>2, Zenon DEF HistoriesCount
  <2>1. PICK L \in Nat \ {0} : L = Len(img.hist[n])
    BY <2>0, Zenon
  <2>2. PICK h : h = [k \in DOMAIN img.hist[n] |-> ItemName(img, n, m, k)]
    OBVIOUS
  <2>3. h = [k \in 1..L |-> Append(m, k)]
    <3>1. DOMAIN img.hist[n] = 1..L
      BY <1>0, <1>2, <2>1, ItemsOf
    <3>2. \A k \in 1..Len(img.hist[n]) : ItemName(img, n, m, k) = Append(m, k)
      BY <1>2, RenamedNames
    <3>3. \A k \in 1..L : ItemName(img, n, m, k) = Append(m, k)
      BY <2>1, <3>2
    <3> QED BY <2>2, <3>1, <3>3
  <2>4. new.hist = Put(Without(img.hist, n), m, h)
    BY <1>2, <2>2 DEF RenamedHistory
  <2>5. /\ DOMAIN new.hist = (DOMAIN img.hist \ {n}) \cup {m} /\ new.hist[m] = h
        /\ \A r \in DOMAIN img.hist \ {n} : new.hist[r] = img.hist[r]
    BY <1>0, <2>4 DEF Put, Without, Restrict
  <2>6. Len(h) = L /\ DOMAIN h = 1..L /\ \A k \in 1..L : h[k] = Append(m, k)
    <3>1. h \in [1..L -> {Append(m, k) : k \in Nat}]
      BY <2>3
    <3>2. h \in Seq({Append(m, k) : k \in Nat}) /\ Len(h) = L
      BY <2>1, <3>1, LenProperties, SeqDef
    <3> QED BY <2>3, <3>2
  <2>7. \A k \in 1..L : f[Append(n, k)] = Append(m, k)
    BY <1>2, <2>1 DEF Renaming
  <2>8. \A r \in DOMAIN img.hist \ {n} : \A k \in 1..Len(img.hist[r]) : f[Append(r, k)] = Append(r, k)
    BY DEF Renaming
  <2>9. \A k \in 1..L : Append(n, k) \in HistoryItems(img) /\ Append(n, k) \in Names(img)
    BY <1>0, <1>2, <2>1, ItemsOf
  <2>10. ASSUME NEW x
         PROVE x \in HistoryItems(new) <=> \E y \in HistoryItems(img) : x = f[y]
    <3>1. x \in HistoryItems(new) <=> \E r \in DOMAIN new.hist : x \in Range(new.hist[r])
      BY DEF HistoryItems
    <3>2. ASSUME x \in HistoryItems(new) PROVE \E y \in HistoryItems(img) : x = f[y]
      <4>1. PICK r \in DOMAIN new.hist : x \in Range(new.hist[r])
        BY <3>1, <3>2
      <4>2. CASE r = m
        <5>1. PICK k \in 1..L : x = Append(m, k)
          BY <2>5, <2>6, <4>1, <4>2 DEF Range
        <5> QED BY <2>7, <2>9, <5>1
      <4>3. CASE r # m
        <5>1. r \in DOMAIN img.hist \ {n} /\ x \in Range(img.hist[r])
          BY <2>5, <4>1, <4>3
        <5>0. /\ DOMAIN img.hist[r] = 1..Len(img.hist[r])
              /\ \A k \in 1..Len(img.hist[r]) : img.hist[r][k] = Append(r, k)
                                               /\ Append(r, k) \in HistoryItems(img)
          BY <1>0, <5>1, ItemsOf
        <5>2. PICK k \in 1..Len(img.hist[r]) : x = Append(r, k) /\ Append(r, k) \in HistoryItems(img)
          BY <5>0, <5>1 DEF Range
        <5> QED BY <2>8, <5>1, <5>2
      <4> QED BY <4>2, <4>3
    <3>3. ASSUME NEW y \in HistoryItems(img), x = f[y] PROVE x \in HistoryItems(new)
      <4>1. PICK r \in DOMAIN img.hist : \E k \in 1..Len(img.hist[r]) : y = Append(r, k)
        BY <1>0, ItemsOf
      <4>2. PICK k \in 1..Len(img.hist[r]) : y = Append(r, k)
        BY <4>1
      <4>3. CASE r = n
        <5>1. k \in 1..L /\ x = Append(m, k)
          BY <2>1, <2>7, <3>3, <4>2, <4>3
        <5>2. x \in Range(h)
          BY <2>6, <5>1 DEF Range
        <5> QED BY <2>5, <3>1, <5>2
      <4>4. CASE r # n
        <5>1. x = Append(r, k)
          BY <2>8, <3>3, <4>2, <4>4
        <5>2. x \in Range(img.hist[r])
          BY <1>0, <5>1, ItemsOf
        <5> QED BY <2>5, <3>1, <4>4, <5>2
      <4> QED BY <4>3, <4>4
    <3> QED BY <3>2, <3>3
  <2>11. \A r : r # n /\ r # m => Items(new, r) = Items(img, r)
    BY <2>5 DEF Items
  <2>12. ASSUME NEW r \in DOMAIN new.hist
         PROVE  /\ r \in UserNames /\ r \in Names(new)
                /\ Len(new.hist[r]) \in Nat \ {0} /\ new.hist[r] = [k \in 1..Len(new.hist[r]) |-> Append(r, k)]
                /\ Range(new.hist[r]) \subseteq Names(new)
    <3>1. CASE r = m
      <4>1. m \in Names(new)
        <5>1. f[n] = m
          BY DEF Renaming
        <5> QED BY <5>1
      <4>2. Range(h) \subseteq Names(new)
        <5> SUFFICES ASSUME NEW k \in 1..L PROVE Append(m, k) \in Names(new)
          BY <2>6 DEF Range
        <5>1. Append(n, k) \in Names(img) /\ f[Append(n, k)] = Append(m, k)
          BY <2>7, <2>9
        <5>2. f[Append(n, k)] \in Names(new)
          BY <5>1
        <5> QED BY <5>1, <5>2
      <4> QED BY <2>1, <2>3, <2>5, <2>6, <3>1, <4>1, <4>2
    <3>2. CASE r # m
      <4>1. r \in DOMAIN img.hist \ {n} /\ new.hist[r] = img.hist[r]
        BY <2>5, <3>2
      <4>2. r \in UserNames /\ r \in Names(img)
        BY <1>0, <4>1
      <4>3. f[r] = r
        BY <4>1, <4>2 DEF Renaming
      <4>4. r \in Names(new)
        <5>1. f[r] \in Names(new)
          BY <4>2
        <5> QED BY <4>3, <5>1
      <4>5. Range(img.hist[r]) \subseteq Names(new)
        <5>1. /\ DOMAIN img.hist[r] = 1..Len(img.hist[r]) /\ HistoryItems(img) \subseteq Names(img)
              /\ \A k \in 1..Len(img.hist[r]) : img.hist[r][k] = Append(r, k)
                                               /\ Append(r, k) \in HistoryItems(img)
          BY <1>0, <4>1, ItemsOf
        <5>2. ASSUME NEW k \in 1..Len(img.hist[r]) PROVE img.hist[r][k] \in Names(new)
          <6>1. img.hist[r][k] \in Names(img) /\ f[img.hist[r][k]] = img.hist[r][k]
            BY <2>8, <4>1, <5>1
          <6>2. f[img.hist[r][k]] \in Names(new)
            BY <6>1
          <6> QED BY <6>1, <6>2
        <5> QED BY <5>1, <5>2 DEF Range
      <4> QED BY <1>0, <4>1, <4>2, <4>4, <4>5 DEF HistoriesCount
    <3> QED BY <3>1, <3>2
  <2>13. HistoriesCount(new)
    BY <2>12 DEF HistoriesCount
  <2> QED BY <2>10, <2>11, <2>13
<1> QED BY <1>1, <1>2

\* renamevar_stx: the image has the same records, histories, locks and most-recent list
\* under the new names, and the locked variables keep theirs.
LEMMA RenameIsRight ==
  ASSUME NoItemNamed, NEW img, Tidy(img), NEW n \in UserNames, NEW m \in UserNames,
         NEW new \in RenameDirect(img, n, m)
  PROVE  Right(img, new)
<1>0. PICK f : f = [x \in AllNames(img) |-> NewName(img, n, m, x)]
  OBVIOUS
<1>1. /\ new = [recs |-> new.recs, locks |-> new.locks, hist |-> new.hist, recent |-> new.recent]
      /\ new.recs = [i \in DOMAIN img.recs |-> Record(f[img.recs[i].name], img.recs[i].val)]
      /\ new.locks = Moved(img.locks, n, m)
      /\ new.hist = RenamedHistory(img, n, m)
      /\ new.recent = [k \in DOMAIN img.recent |-> f[img.recent[k]]]
      /\ n \in Names(img) /\ m \notin Names(img) /\ ~Locked(img, n, "renamevar_stx")
  BY <1>0, RenamedImage
<1>2. Renaming(img, n, m, f)
  BY <1>0, <1>1, RenamingExists
<1>3. /\ Parses(img) /\ img.recs \in Recs(AllNames(img)) /\ Names(img) \subseteq AllNames(img)
      /\ HistoriesCount(img) /\ HistoryItems(img) \subseteq Names(img)
  BY TidyRecords, ItemsOf DEF Tidy
<1>4. PICK s, t : s = img.recs /\ t = new.recs
  OBVIOUS
<1>5. PICK l \in Nat : l = Len(s) /\ DOMAIN s = 1..l
  BY <1>3, <1>4 DEF Recs
<1>6. /\ DOMAIN t = 1..l
      /\ \A i \in 1..l : t[i] = Record(f[s[i].name], s[i].val)
      /\ \A i \in 1..l : t[i].name = f[s[i].name] /\ t[i].val = s[i].val
  BY <1>1, <1>4, <1>5 DEF Record
<1>7. \A i \in 1..l : s[i].name \in Names(img) /\ s[i].val \in Values
  BY <1>3, <1>4, <1>5, IndexIsPlace
<1>8. \A x : x \in Names(new) <=> \E y \in Names(img) : x = f[y]
  <2>1. \A x : x \in Names(img) <=> \E i \in 1..l : x = s[i].name
    BY <1>4, <1>5 DEF Names, Range
  <2>2. \A x : x \in Names(new) <=> \E i \in 1..l : x = t[i].name
    BY <1>4, <1>6 DEF Names, Range
  <2> QED BY <1>6, <2>1, <2>2
<1>9. Parses(new)
  BY <1>2, <1>3, <1>4, <1>5, <1>6, <1>7 DEF Parses, Renaming
<1>10. /\ HistoriesCount(new)
       /\ \A x : x \in HistoryItems(new) <=> \E y \in HistoryItems(img) : x = f[y]
       /\ \A r : r # n /\ r # m => Items(new, r) = Items(img, r)
  BY <1>1, <1>2, <1>8, RenamedHistories
<1>11. \A x \in Names(img) : f[x] \in AllNames(new)
  <2> SUFFICES ASSUME NEW x \in Names(img) PROVE f[x] \in AllNames(new)
    OBVIOUS
  <2>1. CASE x \in UserNames
    <3>1. f[x] \in UserNames
      BY <1>2, <2>1 DEF Renaming
    <3> QED BY <3>1 DEF AllNames
  <2>2. CASE x \in HistoryItems(img)
    BY <1>10, <2>2 DEF AllNames
  <2> QED BY <1>3, <2>1, <2>2 DEF AllNames
<1>12. new.recs \in Recs(AllNames(new))
  <2>1. PICK E : E = [name : AllNames(new), val : Values]
    OBVIOUS
  <2>2. \A i \in 1..l : t[i] \in E
    BY <1>6, <1>7, <1>11, <2>1 DEF Record
  <2>3. t = [i \in 1..l |-> t[i]]
    BY <1>1, <1>4, <1>6
  <2>4. t \in [1..l -> E]
    BY <2>2, <2>3
  <2>5. t \in Seq(E)
    BY <2>4, SeqDef
  <2> QED BY <1>4, <2>1, <2>5 DEF Recs
<1>13. /\ new.recent \in Seq(HistoryItems(new)) /\ IsInjective(new.recent)
       /\ Range(new.recent) = HistoryItems(new)
  <2>1. PICK r, z, H, G : r = img.recent /\ z = new.recent /\ H = HistoryItems(img) /\ G = HistoryItems(new)
    OBVIOUS
  <2>2. r \in Seq(H) /\ IsInjective(r) /\ Range(r) = H
    BY <2>1 DEF Tidy
  <2>3. PICK d \in Nat : d = Len(r)
    BY <2>2
  <2>4. DOMAIN r = 1..d /\ \A i \in 1..d : r[i] \in H
    BY <2>2, <2>3
  <2>5. z = [k \in 1..d |-> f[r[k]]]
    BY <1>1, <2>1, <2>4
  <2>6. DOMAIN z = 1..d /\ \A k \in 1..d : z[k] = f[r[k]]
    BY <2>5
  <2>7. \A k \in 1..d : z[k] \in G
    BY <1>10, <2>1, <2>4, <2>6
  <2>8. z \in Seq(G)
    <3>1. z \in [1..d -> G]
      BY <2>5, <2>6, <2>7
    <3> QED BY <3>1, SeqDef
  <2>9. \A x, y \in H : f[x] = f[y] => x = y
    BY <1>2, <1>3, <2>1 DEF Renaming
  <2>10. IsInjective(z)
    BY <2>2, <2>4, <2>6, <2>9 DEF IsInjective
  <2>11. Range(z) = G
    BY <1>10, <2>1, <2>2, <2>4, <2>6, <2>7 DEF Range
  <2> QED BY <2>1, <2>8, <2>10, <2>11
<1>14. \A x \in UserNames \cap Names(img) : x # n => f[x] = x /\ x \in Names(new)
  BY <1>2, <1>8 DEF Renaming
<1>15. m \in Names(new)
  BY <1>1, <1>2, <1>8 DEF Renaming
<1>16. /\ DOMAIN new.locks \subseteq UserNames \cap Names(new)
       /\ \A x \in DOMAIN new.locks : new.locks[x] \subseteq LockOps
  <2>1. /\ DOMAIN img.locks \subseteq UserNames \cap Names(img)
        /\ \A x \in DOMAIN img.locks : img.locks[x] \subseteq LockOps
    BY DEF Tidy
  <2>2. CASE n \in DOMAIN img.locks
    BY <1>1, <1>14, <1>15, <2>1, <2>2 DEF Moved, Put, Without, Restrict
  <2>3. CASE n \notin DOMAIN img.locks
    BY <1>1, <1>14, <1>15, <2>1, <2>3 DEF Moved
  <2> QED BY <2>2, <2>3
<1>17. Tidy(new)
  BY <1>1, <1>9, <1>10, <1>12, <1>13, <1>16 DEF Tidy, Recs, AllNames
<1>18. ASSUME NEW x \in UserNames \cap Names(img), x # n PROVE Same(img, new, x)
  <2>1. PICK i \in 1..l : s[i].name = x
    BY <1>4, <1>5 DEF Names, Range
  <2>2. t[i].name = x /\ t[i].val = s[i].val
    BY <1>6, <1>14, <1>18, <2>1
  <2>3. x \in Names(new) /\ ValueOf(new, x) = ValueOf(img, x)
    <3>1. i \in DOMAIN img.recs /\ i \in DOMAIN new.recs /\ img.recs[i].name = x
          /\ new.recs[i].name = img.recs[i].name /\ new.recs[i].val = img.recs[i].val
      BY <1>4, <1>5, <1>6, <2>1, <2>2
    <3> QED BY <1>3, <1>9, <1>12, <3>1, SameValue
  <2>4. x # m
    BY <1>1
  <2> QED BY <1>10, <1>18, <2>3, <2>4 DEF Same
<1>19. n \in Names(new) => FALSE
  <2>1. \A y \in Names(img) : f[y] # n
    <3> SUFFICES ASSUME NEW y \in Names(img), f[y] = n PROVE FALSE
      OBVIOUS
    <3>1. CASE y \in UserNames
      BY <1>1, <1>2, <3>1 DEF Renaming
    <3>2. CASE y \in HistoryItems(img)
      <4>1. n \in HistoryItems(new)
        BY <1>10, <3>2
      <4> QED BY <1>10, <4>1, ItemsAreNotUsers
    <3> QED BY <1>3, <3>1, <3>2 DEF AllNames
  <2> QED BY <1>8, <2>1
<1>20. "*" \notin LocksOf(img, n)
  BY <1>1 DEF Locked
<1>21. ASSUME NEW x \in Names(img), LocksOf(img, x) # {} PROVE x \in UserNames
  BY <1>21 DEF LocksOf, Tidy
<1> QED BY <1>17, <1>18, <1>19, <1>20, <1>21 DEF Right, KeepsLocked, Same

(***************************************************************************)
(* Every call, directly and in a transaction.                              *)
(***************************************************************************)
\* joinvars adds a record of a new name.
LEMMA JoinsAreRight ==
  ASSUME NEW img, Tidy(img), NEW n \in UserNames, NEW from, NEW new \in JoinVars(img, n, from)
  PROVE  Right(img, new)
<1>0. img = [recs |-> img.recs, locks |-> img.locks, hist |-> img.hist, recent |-> img.recent]
  BY DEF Tidy
<1>1. n \notin Names(img) /\ new \in Joined(img, n)
  BY DEF JoinVars
<1>2. PICK v \in Values : new = [img EXCEPT !.recs = Append(@, Record(n, v))]
  BY <1>1 DEF Joined
<1>3. new.locks = img.locks /\ new = [img EXCEPT !.recs = Append(@, Record(n, v)), !.locks = new.locks]
  BY <1>0, <1>2
<1> QED BY <1>1, <1>3, AddIsRight

\* addvar and appvar; the lock entry that appvar replaces may be another variable's.
LEMMA AddsAreRight ==
  ASSUME NEW img, Tidy(img), NEW n \in UserNames, NEW v \in Values
  PROVE  /\ \A new \in AddVar(img, n, v) : Right(img, new)
         /\ \A m \in UserNames : \A ls \in SUBSET LockOps : \A new \in AppVar(img, n, v, m, ls) :
               Right(img, new)
<1>0. img = [recs |-> img.recs, locks |-> img.locks, hist |-> img.hist, recent |-> img.recent]
  BY DEF Tidy
<1>1. ASSUME NEW new \in AddVar(img, n, v) PROVE Right(img, new)
  <2>1. n \notin Names(img) /\ new = [img EXCEPT !.recs = Append(@, Record(n, v))]
    BY <1>1 DEF AddVar, When
  <2>2. new.locks = img.locks /\ new = [img EXCEPT !.recs = Append(@, Record(n, v)), !.locks = new.locks]
    BY <1>0, <2>1
  <2>3. n \in UserNames \ Names(img)
    BY <2>1
  <2> QED BY <2>2, <2>3, AddIsRight
<1>2. ASSUME NEW m \in UserNames, NEW ls \in SUBSET LockOps, NEW new \in AppVar(img, n, v, m, ls)
      PROVE  Right(img, new)
  <2>1. /\ n \notin Names(img) /\ m \in Names(img) \cup {n}
        /\ new = [img EXCEPT !.recs = Append(@, Record(n, v)), !.locks = Put(@, m, ls)]
    BY <1>2 DEF AppVar, When
  <2>2. /\ new.locks = Put(img.locks, m, ls)
        /\ new = [img EXCEPT !.recs = Append(@, Record(n, v)), !.locks = new.locks]
    BY <1>0, <2>1
  <2>3. m \in UserNames \cap (Names(img) \cup {n}) /\ n \in UserNames \ Names(img)
    BY <2>1
  <2>4. \E k \in UserNames \cap (Names(img) \cup {n}) : \E xs \in SUBSET LockOps :
           new.locks = Put(img.locks, k, xs)
    BY <2>2, <2>3, Zenon
  <2> QED BY <2>2, <2>3, <2>4, AddIsRight
<1> QED BY <1>1, <1>2

\* lockvar and lockdel.
LEMMA LocksAreRight ==
  ASSUME NEW img, Tidy(img), NEW n \in UserNames, NEW ls \in SUBSET LockOps
  PROVE  /\ \A new \in AddLock(img, n, ls) : Right(img, new)
         /\ \A new \in DeleteLock(img, n, ls) : Right(img, new)
<1>0. /\ img = [recs |-> img.recs, locks |-> img.locks, hist |-> img.hist, recent |-> img.recent]
      /\ DOMAIN img.locks \subseteq UserNames \cap Names(img)
      /\ \A x \in DOMAIN img.locks : img.locks[x] \subseteq LockOps
      /\ LocksOf(img, n) \subseteq LockOps
  BY DEF Tidy, LocksOf
<1>1. ASSUME NEW new, n \in Names(img), NEW xs \in SUBSET LockOps,
             new = [img EXCEPT !.locks = Put(@, n, xs)] \/ new = [img EXCEPT !.locks = Without(@, n)]
      PROVE  Right(img, new)
  <2>1. /\ new = [img EXCEPT !.locks = new.locks]
        /\ new.locks = Put(img.locks, n, xs) \/ new.locks = Without(img.locks, n)
    BY <1>0, <1>1
  <2>2. /\ DOMAIN new.locks \subseteq UserNames \cap Names(img)
        /\ \A x \in DOMAIN new.locks : new.locks[x] \subseteq LockOps
    BY <1>0, <1>1, <2>1 DEF Put, Without, Restrict
  <2> QED BY <2>1, <2>2, RelockIsRight
<1>2. ASSUME NEW new \in AddLock(img, n, ls) PROVE Right(img, new)
  <2>1. n \in Names(img) /\ new = [img EXCEPT !.locks = Put(@, n, LocksOf(img, n) \cup ls)]
    BY <1>2 DEF AddLock, When
  <2> QED BY <1>0, <1>1, <2>1
<1>3. ASSUME NEW new \in DeleteLock(img, n, ls) PROVE Right(img, new)
  <2>1. /\ n \in Names(img)
        /\ new = [img EXCEPT !.locks = IF LocksOf(img, n) \subseteq ls THEN Without(@, n)
                                       ELSE Put(@, n, LocksOf(img, n) \ ls)]
    BY <1>3 DEF DeleteLock, When
  <2>2. LocksOf(img, n) \ ls \in SUBSET LockOps
    BY <1>0
  <2> QED BY <1>1, <2>1, <2>2
<1> QED BY <1>2, <1>3

\* The arguments calls are made with.
LEMMA CallArguments ==
  ASSUME NEW ops, NEW c \in Calls(ops)
  PROVE  /\ c.op \in ops /\ c.name \in UserNames
         /\ c.op \in {"addvar", "changevar", "set_value", "stalkvar", "removevar", "renamevar_stx",
                      "joinvars", "appvar", "lockvar", "lockdel"}
         /\ c.op \in {"addvar", "changevar", "set_value", "stalkvar", "appvar"} => c.val \in Values
         /\ c.op \in {"renamevar_stx", "appvar"} => c.to \in UserNames
         /\ c.op \in {"appvar", "lockvar", "lockdel"} => c.locks \in SUBSET LockOps
BY DEF Calls

\* A direct call.
LEMMA DirectIsRight ==
  ASSUME NoItemNamed, NEW img, Tidy(img), NEW ops, NEW c \in Calls(ops),
         NEW new \in DirectResults(img, c)
  PROVE  Right(img, new)
<1>0. /\ c.name \in UserNames
      /\ c.op \in {"addvar", "changevar", "set_value", "stalkvar", "removevar", "renamevar_stx",
                   "joinvars", "appvar", "lockvar", "lockdel"}
      /\ c.op \in {"addvar", "changevar", "set_value", "stalkvar", "appvar"} => c.val \in Values
      /\ c.op \in {"renamevar_stx", "appvar"} => c.to \in UserNames
      /\ c.op \in {"appvar", "lockvar", "lockdel"} => c.locks \in SUBSET LockOps
  BY CallArguments
<1>1. CASE c.op = "addvar"
  BY <1>0, <1>1, AddsAreRight DEF DirectResults
<1>2. CASE c.op = "appvar"
  <2>1. new \in AppVar(img, c.name, c.val, c.to, c.locks)
    BY <1>2 DEF DirectResults
  <2> QED BY <1>0, <1>2, <2>1, AddsAreRight
<1>3. CASE c.op = "set_value"
  <2>1. new \in ChangeVar(img, c.name, c.val) \/ new \in AddVar(img, c.name, c.val)
    BY <1>3 DEF DirectResults, SetDirect
  <2> QED BY <1>0, <1>3, <2>1, AddsAreRight, ChangeIsRight
<1>4. CASE c.op = "changevar"
  <2>1. new \in ChangeVar(img, c.name, c.val)
    BY <1>4 DEF DirectResults
  <2> QED BY <1>0, <1>4, <2>1, ChangeIsRight
<1>5. CASE c.op = "renamevar_stx"
  <2>1. new \in RenameDirect(img, c.name, c.to)
    BY <1>5 DEF DirectResults
  <2> QED BY <1>0, <1>5, <2>1, RenameIsRight
<1>6. CASE c.op = "removevar"
  <2>1. new \in RemoveDirect(img, c.name)
    BY <1>6 DEF DirectResults
  <2> QED BY <1>0, <2>1, RemoveIsRight
<1>7. CASE c.op = "joinvars"
  <2>1. new \in JoinVars(img, c.name, c.from)
    BY <1>7 DEF DirectResults
  <2> QED BY <1>0, <2>1, JoinsAreRight
<1>8. CASE c.op = "lockvar"
  <2>1. new \in AddLock(img, c.name, c.locks)
    BY <1>8 DEF DirectResults
  <2> QED BY <1>0, <1>8, <2>1, LocksAreRight
<1>9. CASE c.op = "lockdel"
  <2>1. new \in DeleteLock(img, c.name, c.locks)
    BY <1>9 DEF DirectResults
  <2> QED BY <1>0, <1>9, <2>1, LocksAreRight
<1>10. CASE c.op = "stalkvar"
  <2>1. new \in Stalk(img, c.name, c.val)
    BY <1>10 DEF DirectResults
  <2> QED BY <1>0, <1>10, <2>1, StalkIsRight
<1> QED BY <1>0, <1>1, <1>2, <1>3, <1>4, <1>5, <1>6, <1>7, <1>8, <1>9, <1>10

\* A call of a transaction: what is not set_value is dispatched as a direct call is.
LEMMA OverlayIsRight ==
  ASSUME NoItemNamed, NoBatchedMoves, NEW img, Tidy(img), NEW c \in Calls(BatchedOps),
         NEW new \in OverlayResults(img, c)
  PROVE  Right(img, new)
<1>1. c.op # "renamevar_stx" /\ c.op # "removevar"
  BY CallArguments DEF NoBatchedMoves
<1>2. CASE c.op = "set_value"
  <2>1. new \in ChangeVar(img, c.name, c.val) \/ new \in AddVar(img, c.name, c.val)
    BY <1>2 DEF OverlayResults, SetOverlay
  <2>2. c.name \in UserNames /\ c.val \in Values
    BY <1>2, CallArguments
  <2> QED BY <2>1, <2>2, AddsAreRight, ChangeIsRight
<1>3. CASE c.op # "set_value"
  <2>1. new \in DirectResults(img, c)
    BY <1>1, <1>3 DEF OverlayResults
  <2> QED BY <2>1, DirectIsRight
<1> QED BY <1>2, <1>3

(***************************************************************************)
(* The inductive invariant.                                                *)
(***************************************************************************)
\* The empty image is tidy.
LEMMA ImageInit == Init => ImageInv
<1> SUFFICES ASSUME Init PROVE ImageInv
  OBVIOUS
<1>1. image = [recs |-> <<>>, locks |-> <<>>, hist |-> <<>>, recent |-> <<>>]
  BY DEF Init, Empty
<1>2. HistoryItems(image) = {} /\ Names(image) = {}
  BY <1>1 DEF HistoryItems, Names, Range
<1>3. Tidy(image)
  <2>1. /\ image = [recs |-> image.recs, locks |-> image.locks, hist |-> image.hist, recent |-> image.recent]
        /\ Parses(image)
    BY <1>1 DEF Parses
  <2>2. image.recs \in Seq([name : UserNames \cup HistoryItems(image), val : Values])
    BY <1>1
  <2>3. HistoriesCount(image)
    BY <1>1 DEF HistoriesCount
  <2>4. image.recent \in Seq(HistoryItems(image)) /\ IsInjective(image.recent) /\ Range(image.recent) = {}
    BY <1>1 DEF IsInjective, Range
  <2>5. DOMAIN image.locks = {}
    BY <1>1
  <2>6. DOMAIN image.locks \subseteq UserNames \cap Names(image) /\ Range(image.recent) = HistoryItems(image)
    BY <1>2, <2>4, <2>5
  <2>7. \A n \in DOMAIN image.locks : image.locks[n] \subseteq LockOps
    BY <2>5
  <2>8. image.recent \in Seq(HistoryItems(image)) /\ IsInjective(image.recent)
    BY <2>4
  <2>9. /\ \A n \in DOMAIN image.locks : image.locks[n] \subseteq LockOps
        /\ DOMAIN image.locks \subseteq UserNames \cap Names(image)
        /\ Range(image.recent) = HistoryItems(image)
    BY <2>6, <2>7, Zenon
  <2> QED BY <2>1, <2>2, <2>3, <2>8, <2>9, Zenon DEF Tidy
<1>4. overlay = image /\ ~open /\ open \in BOOLEAN /\ applied = 0 /\ commits = 0
  BY DEF Init
<1>5. Tidy(overlay) /\ applied \in 0..MaxBatch /\ commits \in 0..MaxCommits
  BY <1>3, <1>4, ImageConstantsOK
<1> QED BY <1>3, <1>4, <1>5 DEF ImageInv

\* One step of a call that is not given up changes the overlay rightly.
LEMMA ImageStep ==
  ASSUME NoItemNamed, NoBatchedMoves
  PROVE  ImageInv /\ [Next]_vars => ImageInv' /\ (Right(overlay, overlay') \/ Abort \/ overlay' = overlay)
<1> SUFFICES ASSUME ImageInv, [Next]_vars
             PROVE  ImageInv' /\ (Right(overlay, overlay') \/ Abort \/ overlay' = overlay)
  OBVIOUS
<1>0. /\ Tidy(image) /\ Tidy(overlay) /\ MaxBatch \in Nat /\ MaxCommits \in Nat
      /\ open \in BOOLEAN /\ applied \in 0..MaxBatch /\ commits \in 0..MaxCommits
      /\ open => commits < MaxCommits
      /\ ~open => overlay = image /\ applied = 0
  BY ImageConstantsOK DEF ImageInv
<1>1. ASSUME NEW c \in Calls(DirectOps), Direct(c) PROVE ImageInv' /\ Right(overlay, overlay')
  <2>1. image' \in DirectResults(image, c) /\ overlay' = image' /\ overlay = image
    BY <1>0, <1>1 DEF Direct
  <2>2. Right(image, image')
    BY <1>0, <2>1, DirectIsRight
  <2>3. Tidy(image') /\ Tidy(overlay') /\ Right(overlay, overlay')
    BY <2>1, <2>2 DEF Right
  <2>4. Tidy(image)' /\ Tidy(overlay)'
    BY <2>3
  <2>5. ~open' /\ open' \in BOOLEAN /\ applied' = 0 /\ commits' \in 0..MaxCommits
    BY <1>0, <1>1 DEF Direct
  <2> QED BY <1>0, <2>1, <2>3, <2>4, <2>5 DEF ImageInv
<1>2. ASSUME NEW c \in Calls(BatchedOps), Apply(c) PROVE ImageInv' /\ Right(overlay, overlay')
  <2>1. overlay' \in OverlayResults(overlay, c) /\ open /\ UNCHANGED <<image, open, commits>>
    BY <1>2 DEF Apply
  <2>2. Right(overlay, overlay')
    BY <1>0, <2>1, OverlayIsRight
  <2>3. Tidy(image)' /\ Tidy(overlay)'
    BY <1>0, <2>1, <2>2 DEF Right
  <2>4. applied' \in 0..MaxBatch
    BY <1>0, <1>2 DEF Apply
  <2> QED BY <1>0, <2>1, <2>2, <2>3, <2>4 DEF ImageInv
<1>3. CASE Open
  <2>1. Tidy(image)' /\ Tidy(overlay)'
    BY <1>0, <1>3 DEF Open
  <2> QED BY <1>0, <1>3, <2>1 DEF ImageInv, Open
<1>4. CASE Commit
  <2>1. Tidy(image)' /\ Tidy(overlay)'
    BY <1>0, <1>4 DEF Commit
  <2>2. /\ ~open' /\ open' \in BOOLEAN /\ overlay' = image' /\ overlay' = overlay /\ applied' = 0
        /\ commits' = commits + 1 /\ open
    BY <1>4 DEF Commit
  <2>3. commits' \in 0..MaxCommits /\ applied' \in 0..MaxBatch
    BY <1>0, <2>2
  <2> QED BY <2>1, <2>2, <2>3 DEF ImageInv
<1>5. CASE Abort
  <2>1. Tidy(image)' /\ Tidy(overlay)'
    BY <1>0, <1>5 DEF Abort
  <2>2. ~open' /\ open' \in BOOLEAN /\ overlay' = image' /\ applied' = 0 /\ commits' = commits
    BY <1>5 DEF Abort
  <2> QED BY <1>0, <1>5, <2>1, <2>2 DEF ImageInv
<1>6. CASE UNCHANGED vars
  <2>1. Tidy(image)' /\ Tidy(overlay)'
    BY <1>0, <1>6 DEF vars
  <2> QED BY <1>0, <1>6, <2>1 DEF ImageInv, vars
<1> QED BY <1>1, <1>2, <1>3, <1>4, <1>5, <1>6 DEF Next, Refused

\* Histories count their items under their variables' names, the most-recent list names
\* the items, locks are on variables, and the file parses: in the committed image and in
\* the overlay, whatever is called in whatever order.
THEOREM ImageInvariant ==
  ASSUME NoItemNamed, NoBatchedMoves
  PROVE  Spec => []ImageInv
<1>1. Init => ImageInv
  BY ImageInit
<1>2. ImageInv /\ [Next]_vars => ImageInv'
  BY ImageStep
<1> QED BY <1>1, <1>2, PTL DEF Spec

\* No sequence of accepted calls commits a file that the parser refuses (parser.py:51),
\* provided no caller names a variable like an item of a history and renames and
\* removals are direct calls.  Both provisos are needed: run image_collision breaks a file
\* with batched removals, and addvar a, stalkvar a, addvar b_1, renamevar_stx a b does
\* without them.
THEOREM FilesAlwaysParse ==
  ASSUME NoItemNamed, NoBatchedMoves
  PROVE  Spec => []AlwaysParses
<1>1. ImageInv => AlwaysParses
  BY DEF ImageInv, Tidy, AlwaysParses
<1> QED BY <1>1, ImageInvariant, PTL

\* What the invariant says of an image in terms of the checked properties.
LEMMA TidyIsBacked ==
  ASSUME NEW img, Tidy(img)
  PROVE  /\ IsImage(img)
         /\ DOMAIN img.hist \cup HistoryItems(img) \subseteq Names(img)
         /\ \A r, s \in DOMAIN img.hist : \A i \in DOMAIN img.hist[r], j \in DOMAIN img.hist[s] :
               img.hist[r][i] = img.hist[s][j] => r = s /\ i = j
         /\ Range(img.recent) = HistoryItems(img)
         /\ DOMAIN img.locks \subseteq Names(img)
<1>0. /\ Parses(img) /\ img.recs \in Recs(AllNames(img)) /\ HistoriesCount(img)
      /\ HistoryItems(img) \subseteq Names(img) /\ DOMAIN img.hist \subseteq UserNames
      /\ DOMAIN img.hist \subseteq Names(img)
  BY TidyRecords, ItemsOf DEF Tidy, HistoriesCount
<1>1. img.recs \in Seq([name : Names(img), val : Values])
  <2>1. PICK s, E, F : /\ s = img.recs /\ E = [name : AllNames(img), val : Values]
                       /\ F = [name : Names(img), val : Values]
    OBVIOUS
  <2>2. s \in Seq(E)
    BY <1>0, <2>1 DEF Recs
  <2>a. \A i \in DOMAIN img.recs : img.recs[i].name \in Names(img) /\ img.recs[i].val \in Values
    BY <1>0, IndexIsPlace
  <2>3. \A i \in DOMAIN s : s[i] \in E /\ s[i].name \in Names(img) /\ s[i].val \in Values
    <3>1. \A i \in DOMAIN s : s[i] \in E
      BY <2>2
    <3> QED BY <2>1, <2>a, <3>1
  <2>4. \A i \in DOMAIN s : s[i] \in F
    BY <2>1, <2>3
  <2>5. s \in [1..Len(s) -> F] /\ Len(s) \in Nat
    BY <2>2, <2>4
  <2>6. s \in Seq(F)
    BY <2>5, SeqDef
  <2> QED BY <2>1, <2>6
<1>2. \A n \in DOMAIN img.hist : img.hist[n] # <<>>
  <2> SUFFICES ASSUME NEW n \in DOMAIN img.hist, img.hist[n] = <<>> PROVE FALSE
    OBVIOUS
  <2>1. Len(img.hist[n]) \in Nat \ {0}
    BY <1>0, Zenon DEF HistoriesCount
  <2>2. Len(<<>>) = 0
    OBVIOUS
  <2> QED BY <2>1, <2>2
<1>3. IsImage(img)
  BY <1>1, <1>2 DEF IsImage, Tidy
<1>4. ASSUME NEW r \in DOMAIN img.hist, NEW s \in DOMAIN img.hist,
             NEW i \in DOMAIN img.hist[r], NEW j \in DOMAIN img.hist[s],
             img.hist[r][i] = img.hist[s][j]
      PROVE  r = s /\ i = j
  <2>1. /\ \A x \in DOMAIN img.hist : DOMAIN img.hist[x] = 1..Len(img.hist[x])
        /\ \A x \in DOMAIN img.hist : \A k \in 1..Len(img.hist[x]) : img.hist[x][k] = Append(x, k)
    BY <1>0, ItemsOf
  <2>a. i \in 1..Len(img.hist[r]) /\ j \in 1..Len(img.hist[s])
    BY <2>1
  <2>b. img.hist[r][i] = Append(r, i) /\ img.hist[s][j] = Append(s, j)
    BY <2>1, <2>a
  <2>2. Append(r, i) = Append(s, j) /\ i \in Nat /\ j \in Nat
    <3>1. Len(img.hist[r]) \in Nat \ {0} /\ Len(img.hist[s]) \in Nat \ {0}
      BY <1>0, Zenon DEF HistoriesCount
    <3>2. i \in Nat /\ j \in Nat
      BY <2>a, <3>1
    <3> QED BY <1>4, <2>b, <3>2
  <2> QED BY <1>0, <2>2, ItemNamesDiffer
<1> QED BY <1>0, <1>3, <1>4 DEF Tidy

\* Histories, the most-recent list and locks name only records the file has, and each
\* other (engine.py:448-500), under the same provisos.
THEOREM SectionsStayBacked ==
  ASSUME NoItemNamed, NoBatchedMoves
  PROVE  Spec => []SectionsBacked
<1>1. ASSUME ImageInv PROVE SectionsBacked
  <2>1. Tidy(image) /\ Tidy(overlay)
    BY <1>1 DEF ImageInv
  <2>2. TypeOK
    BY <1>1, <2>1, TidyIsBacked DEF ImageInv, TypeOK
  <2>3. HistoryBacked
    BY <2>1, TidyIsBacked DEF HistoryBacked
  <2>4. RecentBacked /\ LocksHaveVars
    BY <2>1, TidyIsBacked DEF RecentBacked, LocksHaveVars
  <2> QED BY <2>2, <2>3, <2>4 DEF SectionsBacked
<1> QED BY <1>1, ImageInvariant, PTL

\* No single call, direct or in a transaction, does what a lock forbids
\* (_ensure_not_locked, engine.py), under the same provisos.
THEOREM LocksAreRespected ==
  ASSUME NoItemNamed, NoBatchedMoves
  PROVE  Spec => LocksRespected
<1> DEFINE Kept == \A n \in Names(overlay) :
                      /\ "*" \in LocksOf(overlay, n) => Same(overlay, overlay', n)
                      /\ "changevar" \in LocksOf(overlay, n) /\ n \in Names(overlay')
                           => ValueOf(overlay', n) = ValueOf(overlay, n)
           Step == (open => open' \/ commits' > commits) => Kept
<1>1. ImageInv /\ [Next]_vars => [Step]_vars
  <2> SUFFICES ASSUME ImageInv, [Next]_vars, open => open' \/ commits' > commits PROVE Kept
    OBVIOUS
  <2>1. CASE Right(overlay, overlay')
    BY <2>1 DEF Right, KeepsLocked
  <2>2. CASE Abort
    BY <2>2 DEF Abort, ImageInv
  <2>3. CASE overlay' = overlay
    BY <2>3 DEF Same
  <2> QED BY <2>1, <2>2, <2>3, ImageStep
<1>2. LocksRespected <=> [][Step]_vars
  BY PTL DEF LocksRespected, Same, ValueOf
<1> QED BY <1>1, <1>2, ImageInvariant, PTL DEF Spec
=============================================================================
