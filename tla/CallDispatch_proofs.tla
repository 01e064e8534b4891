------------------------ MODULE CallDispatch_proofs -------------------------
(***************************************************************************)
(* Machine-checked theorems about Selection as CallDispatch uses it: any      *)
(* processes and workers create and select files, any lists of calls select,  *)
(* and any of them die.                                                      *)
(***************************************************************************)
EXTENDS CallDispatch, TLAPS

\* What a process that is about to persist a selection, or to fill a file, relies on.
PersistsWhole == \A p \in Procs : IsAt(p, "persist") => Whole(making[p].vfs)
WritesOwn == \A p \in Procs : IsAt(p, "write") =>
                store[making[p].vfs] = [state |-> "partial", by |-> p]

SelInv == /\ SelectionTypeOK /\ SelectionUsable /\ PersistsWhole /\ WritesOwn
          /\ calls \in CallLists

\* What every step does to the files.
FilesKept == \A v \in VFSs : store[v] # Absent =>
                /\ store'[v].by = store[v].by
                /\ Whole(v) => Whole(v)'

-----------------------------------------------------------------------------
\* At the start nothing is selected and no file stands.
LEMMA InitOK == Init => SelInv
<1> SUFFICES ASSUME Init PROVE SelInv
    OBVIOUS
<1> QED BY SelectionConstantsOK
        DEF Init, SelectionInit, SelInv, SelectionTypeOK, SelectionUsable, PersistsWhole,
            WritesOwn, IsAt, Absent

\* A process writes only to a name that no file has, or to the one it is filling.
LEMMA PutStep ==
    ASSUME SelInv, NEW p \in Users, NEW v \in VFSs, NEW state \in {"partial", "whole"},
           Put(v, state, p),
           store[v] = Absent \/ (state = "whole" /\ store[v] = [state |-> "partial", by |-> p])
    PROVE  /\ store' \in [VFSs -> [state : {"absent", "partial", "whole"}, by : Users \cup {None}]]
           /\ FilesKept
           /\ \A w \in VFSs : Whole(w) => Whole(w)'
           /\ \A q \in Procs \ {p} : IsAt(q, "write") => store'[making[q].vfs] = store[making[q].vfs]
           /\ store'[v] = [state |-> state, by |-> p]
<1> USE SelectionConstantsOK
<1>1. store \in [VFSs -> [state : {"absent", "partial", "whole"}, by : Users \cup {None}]]
    BY DEF SelInv, SelectionTypeOK
<1>2. store' = [store EXCEPT ![v] = [state |-> state, by |-> p]]
    BY DEF Put
<1>3. ~Whole(v) /\ store'[v] = [state |-> state, by |-> p]
    BY <1>1, <1>2 DEF Whole, Absent
<1>4. \A w \in VFSs \ {v} : store'[w] = store[w]
    BY <1>1, <1>2
<1>5. store[v].by = p \/ store[v] = Absent
    OBVIOUS
<1>6. \A q \in Procs \ {p} : IsAt(q, "write") => making[q].vfs \in VFSs \ {v}
    <2> SUFFICES ASSUME NEW q \in Procs \ {p}, IsAt(q, "write") PROVE making[q].vfs \in VFSs \ {v}
        OBVIOUS
    <2>1. making[q].vfs \in VFSs
        BY DEF SelInv, SelectionTypeOK, IsAt
    <2>2. store[making[q].vfs] = [state |-> "partial", by |-> q]
        BY DEF SelInv, WritesOwn
    <2>3. store[v] # [state |-> "partial", by |-> q]
        BY <1>5 DEF Absent
    <2> QED BY <2>1, <2>2, <2>3
<1>7. \A w \in VFSs : Whole(w) => Whole(w)'
    BY <1>3, <1>4 DEF Whole
<1>8. FilesKept
    BY <1>3, <1>4, <1>5, <1>7 DEF FilesKept
<1>9. store' \in [VFSs -> [state : {"absent", "partial", "whole"}, by : Users \cup {None}]]
    BY <1>1, <1>2
<1> QED BY <1>3, <1>4, <1>6, <1>7, <1>8, <1>9

\* As long as p alone goes on, and to a step that the files allow, the invariant stays.
LEMMA GoesOn ==
    ASSUME SelInv, NEW p \in Users, UNCHANGED <<selectionFile, chosen, calls>>,
           store' \in [VFSs -> [state : {"absent", "partial", "whole"}, by : Users \cup {None}]],
           \A w \in VFSs : Whole(w) => Whole(w)',
           \A q \in Procs \ {p} : IsAt(q, "write") => store'[making[q].vfs] = store[making[q].vfs],
           NEW to \in {None} \cup [step : {"link", "exclusive", "write", "persist"}, vfs : VFSs],
           making' = [making EXCEPT ![p] = to],
           to # None /\ to.step = "persist" => Whole(to.vfs)',
           to # None /\ to.step = "write" => store'[to.vfs] = [state |-> "partial", by |-> p]
    PROVE  SelInv'
<1> USE SelectionConstantsOK
<1>1. SelectionTypeOK'
    BY DEF SelInv, SelectionTypeOK
<1>2. SelectionUsable'
    BY DEF SelInv, SelectionTypeOK, SelectionUsable
<1>3. making'[p] = to /\ \A q \in Procs \ {p} : making'[q] = making[q]
    BY DEF SelInv, SelectionTypeOK
<1>4. ASSUME NEW q \in Procs, IsAt(q, "persist")' PROVE Whole(making[q].vfs)'
    <2>1. CASE q = p
        BY <1>3, <1>4, <2>1 DEF IsAt
    <2>2. CASE q # p
        <3>1. IsAt(q, "persist") /\ Whole(making[q].vfs) /\ making[q].vfs \in VFSs
            BY <1>3, <1>4, <2>2 DEF IsAt, SelInv, PersistsWhole, SelectionTypeOK
        <3> QED BY <1>3, <2>2, <3>1
    <2> QED BY <2>1, <2>2
<1>5. ASSUME NEW q \in Procs, IsAt(q, "write")'
      PROVE  store'[making'[q].vfs] = [state |-> "partial", by |-> q]
    <2>1. CASE q = p
        BY <1>3, <1>5, <2>1 DEF IsAt
    <2>2. CASE q # p
        BY <1>3, <1>5, <2>2 DEF IsAt, SelInv, WritesOwn
    <2> QED BY <2>1, <2>2
<1> QED BY <1>1, <1>2, <1>4, <1>5 DEF SelInv, PersistsWhole, WritesOwn

\* Creating and selecting files.
LEMMA UseStep ==
    ASSUME SelInv, NEW p \in Users, Use(p), UNCHANGED calls
    PROVE  SelInv' /\ FilesKept
<1> USE SelectionConstantsOK
<1> DEFINE States == [VFSs -> [state : {"absent", "partial", "whole"}, by : Users \cup {None}]]
           Steps  == [step : {"link", "exclusive", "write", "persist"}, vfs : VFSs]
<1>1. /\ store \in States
      /\ making[p] # None => making[p].vfs \in VFSs
    BY DEF SelInv, SelectionTypeOK
<1>2. ASSUME UNCHANGED store
      PROVE  /\ store' \in States /\ FilesKept /\ \A w \in VFSs : Whole(w) => Whole(w)'
             /\ \A q \in Procs : store'[making[q].vfs] = store[making[q].vfs]
    BY <1>1, <1>2 DEF FilesKept, Whole
<1>3. ASSUME UNCHANGED <<store, selectionFile, chosen>>,
             NEW to \in {None} \cup Steps, making' = [making EXCEPT ![p] = to],
             to # None => to.step # "write",
             to # None /\ to.step = "persist" => Whole(to.vfs)
      PROVE  SelInv' /\ FilesKept
    BY <1>2, <1>3, GoesOn DEF Whole
<1>4. ASSUME NEW v \in VFSs, MakeVFS(p, v) PROVE SelInv' /\ FilesKept
    BY <1>3, <1>4 DEF MakeVFS, Goto
<1>5. ASSUME NEW v \in VFSs, SelectVFS(p, v) PROVE SelInv' /\ FilesKept
    BY <1>3, <1>5 DEF SelectVFS, Goto, Readable, Whole
<1>6. CASE Link(p)
    <2> PICK v \in VFSs : v = making[p].vfs
        BY <1>1, <1>6 DEF Link, IsAt
    <2>1. UNCHANGED <<selectionFile, chosen>>
        BY <1>6 DEF Link
    <2>2. CASE UNCHANGED store /\ Goto(p, "exclusive", v)
        BY <1>3, <2>1, <2>2 DEF Goto
    <2>3. CASE store[v] = Absent /\ Put(v, "whole", p) /\ (Goto(p, "persist", v) \/ Goto(p, "exclusive", v))
        <3>0. store'[v] = [state |-> "whole", by |-> p]
            BY <2>3, PutStep
        <3>1. Whole(v)'
            BY <3>0 DEF Whole
        <3>2. PICK s \in {"persist", "exclusive"} : making' = [making EXCEPT ![p] = [step |-> s, vfs |-> v]]
            BY <2>3 DEF Goto
        <3> QED BY <2>1, <2>3, <3>1, <3>2, PutStep, GoesOn
    <2> QED BY <1>6, <2>2, <2>3 DEF Link
<1>7. CASE Exclusive(p)
    <2> PICK v \in VFSs : v = making[p].vfs
        BY <1>1, <1>7 DEF Exclusive, IsAt
    <2>1. UNCHANGED <<selectionFile, chosen>>
        BY <1>7 DEF Exclusive
    <2>2. CASE UNCHANGED store /\ Leave(p)
        BY <1>3, <2>1, <2>2 DEF Leave
    <2>3. CASE store[v] = Absent /\ Put(v, "partial", p) /\ Goto(p, "write", v)
        <3>1. making' = [making EXCEPT ![p] = [step |-> "write", vfs |-> v]]
            BY <2>3 DEF Goto
        <3> QED BY <2>1, <2>3, <3>1, PutStep, GoesOn
    <2> QED BY <1>7, <2>2, <2>3 DEF Exclusive, OpensNew
<1>8. CASE Write(p)
    <2> PICK v \in VFSs : v = making[p].vfs
        BY <1>1, <1>8 DEF Write, IsAt
    <2>1. UNCHANGED <<selectionFile, chosen>>
        BY <1>8 DEF Write
    <2>2. CASE UNCHANGED store /\ Leave(p)
        BY <1>3, <2>1, <2>2 DEF Leave
    <2>3. CASE Put(v, "whole", p) /\ Goto(p, "persist", v)
        <3>1. store[v] = [state |-> "partial", by |-> p]
            BY <1>8, SelectionConstantsOK DEF Write, SelInv, WritesOwn
        <3>0. store'[v] = [state |-> "whole", by |-> p]
            BY <2>3, <3>1, PutStep
        <3>2. Whole(v)'
            BY <3>0 DEF Whole
        <3>3. making' = [making EXCEPT ![p] = [step |-> "persist", vfs |-> v]]
            BY <2>3 DEF Goto
        <3> QED BY <2>1, <2>3, <3>1, <3>2, <3>3, PutStep, GoesOn
    <2> QED BY <1>8, <2>2, <2>3 DEF Write
<1>9. CASE Persist(p)
    <2> USE <1>9 DEF Persist, Selects, Leave, SelInv
    <2>1. SelectionTypeOK'
        BY DEF SelectionTypeOK, IsAt
    <2>2. Whole(making[p].vfs)
        BY DEF PersistsWhole
    <2>3. SelectionUsable'
        BY <2>2 DEF SelectionUsable, Whole, SelectionTypeOK
    <2>4. PersistsWhole' /\ WritesOwn'
        BY DEF PersistsWhole, WritesOwn, IsAt, SelectionTypeOK, Whole
    <2> QED BY <1>2, <2>1, <2>3, <2>4
<1> QED BY <1>4, <1>5, <1>6, <1>7, <1>8, <1>9 DEF Use

\* A step of the list's own leaves files and steps in making alone; what it selects is
\* whole, or was selected before.
LEMMA SelectsStep ==
    ASSUME SelInv, UNCHANGED <<store, making, calls>>,
           selectionFile' = selectionFile
              \/ (selectionFile' \in VFSs /\ Whole(selectionFile')),
           chosen' \in [Procs -> VFSs \cup {None}],
           \A p \in Procs : \/ chosen'[p] \in {None, selectionFile}
                            \/ Whole(chosen'[p])
    PROVE  SelInv' /\ FilesKept
<1> USE SelectionConstantsOK DEF SelInv
<1>1. SelectionTypeOK'
    BY DEF SelectionTypeOK
<1>2. SelectionUsable'
    BY DEF SelectionTypeOK, SelectionUsable, Whole
<1>3. PersistsWhole' /\ WritesOwn'
    BY DEF PersistsWhole, WritesOwn, IsAt, Whole
<1>4. FilesKept
    BY DEF FilesKept, Whole
<1> QED BY <1>1, <1>2, <1>3, <1>4

\* One call, in a worker or in the caller.
LEMMA CallStep ==
    ASSUME SelInv, NEW p \in Procs, NEW i \in DOMAIN calls, Call(p, i), UNCHANGED calls
    PROVE  SelInv' /\ FilesKept
<1> USE SelectionConstantsOK DEF SelInv, SelectionTypeOK
<1>1. UNCHANGED <<store, making, calls>>
    BY DEF Call
<1>2. calls[i].kind = "select" => calls[i].vfs \in VFSs
    <2> DEFINE Record == [kind : {"write", "select"}, vfs : VFSs \cup {None},
                          sends : BOOLEAN, returns : BOOLEAN]
    <2>1. calls \in Seq(Record) /\ (calls[i].kind = "select" => calls[i].vfs # None)
        BY DispatchConstantsOK
    <2>2. calls[i] \in Record
        <3> HIDE DEF Record, SelInv
        <3>1. i \in 1..Len(calls) /\ calls \in [1..Len(calls) -> Record]
            BY <2>1
        <3> QED BY <3>1
    <2> QED BY <2>1, <2>2
<1>3. \A q \in Procs : chosen[q] = None \/ Whole(chosen[q])
    BY DEF SelectionUsable
<1>4. CASE chosen' = chosen /\ selectionFile' = selectionFile
    BY <1>1, <1>3, <1>4, SelectsStep
<1>5. CASE /\ calls[i].kind = "select" /\ Readable(calls[i].vfs)
           /\ Selects(p, calls[i].vfs)
    <2>1. Whole(calls[i].vfs)
        BY <1>5 DEF Readable, Whole
    <2>2. /\ chosen' = [chosen EXCEPT ![p] = calls[i].vfs]
          /\ selectionFile' \in {calls[i].vfs, selectionFile}
        BY <1>5 DEF Selects
    <2> QED BY <1>1, <1>2, <1>3, <1>5, <2>1, <2>2, SelectsStep
<1>6. CASE chosen' = [chosen EXCEPT ![p] = Selected(p)] /\ selectionFile' = selectionFile
    <2>1. Selected(p) \in VFSs \cup {None} /\ Selected(p) \in {chosen[p], selectionFile}
        BY DEF Selected
    <2>2. /\ chosen' \in [Procs -> VFSs \cup {None}]
          /\ \A q \in Procs : chosen'[q] \in {chosen[q], selectionFile}
        BY <1>6, <2>1
    <2>3. \A q \in Procs : chosen'[q] \in {None, selectionFile} \/ Whole(chosen'[q])
        BY <1>3, <2>2
    <2> HIDE DEF SelInv
    <2> QED BY <1>1, <1>6, <2>2, <2>3, SelectsStep
<1> QED BY <1>4, <1>5, <1>6 DEF Call, Restored

\* Every step keeps the selection invariant and every file.
LEMMA SelectionStep == SelInv /\ [Next]_vars => SelInv' /\ FilesKept
<1> SUFFICES ASSUME SelInv, [Next]_vars PROVE SelInv' /\ FilesKept
    OBVIOUS
<1> USE SelectionConstantsOK, DispatchConstantsOK
<1>0. \A q \in Procs : chosen[q] = None \/ Whole(chosen[q])
    BY DEF SelInv, SelectionUsable
<1>1. ASSUME NEW p \in Users, UserStep(p) PROVE SelInv' /\ FilesKept
    <2>1. CASE Use(p)
        BY <1>1, <2>1, UseStep DEF UserStep
    <2>2. CASE Crash(p)
        <3> USE <2>2 DEF Crash, Leave
        <3>1. UNCHANGED <<store, selectionFile, calls>> /\ chosen' = [chosen EXCEPT ![p] = None]
            BY <1>1 DEF UserStep
        <3>2. SelectionTypeOK'
            BY <3>1 DEF SelInv, SelectionTypeOK
        <3>3. SelectionUsable'
            BY <3>1 DEF SelInv, SelectionTypeOK, SelectionUsable, Whole
        <3>4. PersistsWhole' /\ WritesOwn'
            BY <3>1 DEF SelInv, SelectionTypeOK, PersistsWhole, WritesOwn, IsAt, Whole
        <3> QED BY <3>1, <3>2, <3>3, <3>4 DEF SelInv, FilesKept, Whole
    <2> QED BY <1>1, <2>1, <2>2 DEF UserStep
<1>2. CASE Dispatch
    <2>1. /\ UNCHANGED <<store, selectionFile, making, calls>>
          /\ chosen' \in [Procs -> VFSs \cup {None}]
          /\ \A q \in Procs : chosen'[q] \in {chosen[q], chosen[Caller]}
        BY <1>2 DEF Dispatch, SelInv, SelectionTypeOK
    <2> QED BY <1>0, <2>1, SelectsStep
<1>3. CASE Collect \/ \E w \in Workers : Die(w)
    <2>1. /\ UNCHANGED <<store, selectionFile, making, calls>>
          /\ chosen' \in [Procs -> VFSs \cup {None}]
          /\ \A q \in Procs : chosen'[q] \in {chosen[q], None}
        BY <1>3 DEF Collect, Die, SelInv, SelectionTypeOK
    <2> QED BY <1>0, <2>1, SelectsStep
<1>4. CASE RunHere
    BY <1>4, CallStep DEF RunHere
<1>5. ASSUME NEW w \in Workers, RunInWorker(w) PROVE SelInv' /\ FilesKept
    BY <1>5, CallStep DEF RunInWorker, More, Members
<1>6. CASE UNCHANGED <<selectionVars, calls>>
    <2>1. chosen \in [Procs -> VFSs \cup {None}]
        BY DEF SelInv, SelectionTypeOK
    <2> QED BY <1>0, <1>6, <2>1, SelectsStep DEF selectionVars
<1>7. ASSUME NEW w \in Workers, Take(w) \/ Return(w) PROVE SelInv' /\ FilesKept
    BY <1>6, <1>7 DEF Take, Return
<1>8. CASE UNCHANGED vars
    BY <1>6, <1>8 DEF vars, dispatchVars
<1> QED BY <1>1, <1>2, <1>3, <1>4, <1>5, <1>7, <1>8 DEF Next, PoolStep

-----------------------------------------------------------------------------
\* What is selected, in any process or for those to come, can be opened, and no file is
\* overwritten, however many processes create, select, dispatch and die
\* (engine.py:224-258, config.py:31-62, api.py:220-311).
THEOREM FilesAlwaysStand == Spec => FilesStand
<1>1. SelInv /\ [Next]_vars => [\A v \in VFSs : store[v] # Absent =>
                                   /\ store'[v].by = store[v].by
                                   /\ Whole(v) => Whole(v)']_selectionVars
    BY SelectionStep DEF FilesKept, Whole
<1>2. SelInv /\ [Next]_vars => SelInv'
    BY SelectionStep
<1>3. SelInv => SelectionUsable
    BY DEF SelInv
<1> QED BY InitOK, <1>1, <1>2, <1>3, PTL DEF Spec, FilesStand, NeverOverwritten

-----------------------------------------------------------------------------
(***************************************************************************)
(* Answers (ListAnswered).  What each chunk has come to, in the pool:          *)
(*   - no call of a chunk that nobody took has run;                           *)
(*   - of a chunk in a worker's hands the calls before "next" have run, once,  *)
(*     and no other worker has it;                                           *)
(*   - the calls of a chunk that came back have run once and are answered.    *)
(* In the fallback, the calls answered so far are answered by their last run,  *)
(* and the others ran at most once, in a pool that failed.                    *)
(***************************************************************************)
CallSet == [kind : {"write", "select"}, vfs : VFSs \cup {None}, sends : BOOLEAN, returns : BOOLEAN]
Works   == VFSs \cup {None}
Held    == [chunk : Chunks, next : Nat]

ListType ==
    /\ calls \in CallLists /\ phase \in {"before", "pool", "here", "done"}
    /\ arrived \in [Chunks -> {"waiting", "ok", "failed"}] /\ taken \subseteq Chunks
    /\ hands \in [Workers -> {NoHand} \cup Held]
    /\ answers \in [DOMAIN calls -> Works \cup {NoAnswer}]
    /\ ran \in [DOMAIN calls -> Seq(Works)]
    /\ deaths \in 0..MaxDeaths

Untouched == /\ taken = {} /\ \A i \in DOMAIN calls : ran[i] = <<>> /\ answers[i] = NoAnswer
             /\ \A w \in Workers : hands[w] = NoHand

\* What the hand of w has to do with the runs of its calls.
HandTrue(w) ==
    LET k == hands[w].chunk IN
    /\ k \in taken /\ arrived[k] = "waiting"
    /\ (k - 1) * ChunkSize < hands[w].next
    /\ \A i \in Members(k) : Len(ran[i]) = IF i < hands[w].next THEN 1 ELSE 0
    /\ \A v \in Workers : hands[v] # NoHand /\ hands[v].chunk = k => v = w

InPool ==
    /\ \A w \in Workers : hands[w] # NoHand => HandTrue(w)
    /\ \A k \in Chunks \ taken : arrived[k] # "ok" /\ \A i \in Members(k) : ran[i] = <<>>
    /\ \A i \in DOMAIN calls : Len(ran[i]) <= 1
    /\ \A k \in Chunks : arrived[k] = "ok" =>
          \A i \in Members(k) : ran[i] # <<>> /\ answers[i] = Last(ran[i])

Here ==
    /\ \A i \in DOMAIN calls :
          answers[i] = NoAnswer => Len(ran[i]) <= 1 /\ (Len(ran[i]) = 1 => PoolFailed)
    /\ \A i \in DOMAIN calls : answers[i] # NoAnswer =>
          ran[i] # <<>> /\ answers[i] = Last(ran[i]) /\ \A j \in 1..(i - 1) : answers[j] # NoAnswer

Phases ==
    /\ phase = "before" => Untouched
    /\ phase = "pool" => InPool
    /\ phase = "here" => Here
    /\ OneAnswerPerCall /\ RunsTwiceOnlyAfterFailure

ListInv == ListType /\ Phases
-----------------------------------------------------------------------------
\* The quotient that Chunks takes is the number of full and begun chunks.
LEMMA Quotient ==
    ASSUME NEW a \in Nat, NEW b \in Nat \ {0}
    PROVE  /\ a \div b \in Nat
           /\ (a \div b) * b <= a /\ a < (a \div b + 1) * b
    OBVIOUS

\* Multiplication is monotone.
LEMMA Larger ==
    ASSUME NEW a \in Nat, NEW b \in Nat, NEW c \in Nat, a <= b
    PROVE  a * c <= b * c
    OBVIOUS

\* A product decides between its factors.
LEMMA Smaller ==
    ASSUME NEW a \in Nat, NEW b \in Nat, NEW c \in Nat, a * c < b * c
    PROVE  a < b
<1>1. ~(b <= a) \/ b * c <= a * c
    BY Larger
<1>2. a * c \in Nat /\ b * c \in Nat
    OBVIOUS
<1> QED BY <1>1, <1>2

\* The list is a sequence of calls, and chunks are numbered from one.
LEMMA ListNumbers ==
    ASSUME calls \in CallLists
    PROVE  /\ DOMAIN calls = 1..Len(calls) /\ Len(calls) \in Nat \ {0}
           /\ \A i \in DOMAIN calls : calls[i] \in CallSet
           /\ ChunkSize \in Nat \ {0}
<1>1. calls \in Seq(CallSet) /\ calls # <<>> /\ ChunkSize \in Nat \ {0}
    BY DispatchConstantsOK DEF CallSet
<1>2. DOMAIN calls = 1..Len(calls) /\ Len(calls) \in Nat /\ calls \in [1..Len(calls) -> CallSet]
    <2> HIDE DEF CallSet
    <2> QED BY <1>1
<1>3. Len(calls) # 0
    BY <1>1
<1> QED BY <1>1, <1>2, <1>3, Zenon

\* The numbers of the calls of a chunk.
LEMMA ChunkNumbers ==
    ASSUME calls \in CallLists, NEW k \in Chunks
    PROVE  /\ k \in Nat \ {0} /\ k - 1 \in Nat
           /\ (k - 1) * ChunkSize \in Nat /\ k * ChunkSize \in Nat
           /\ Members(k) \subseteq DOMAIN calls
           /\ \A i \in Members(k) : i \in Nat /\ (k - 1) * ChunkSize < i /\ i <= k * ChunkSize
<1>1. ChunkSize \in Nat
    BY ListNumbers
<1>2. k \in Nat \ {0} /\ k - 1 \in Nat
    BY DEF Chunks
<1>3. (k - 1) * ChunkSize \in Nat /\ k * ChunkSize \in Nat
    BY <1>1, <1>2
<1>4. DOMAIN calls \subseteq Nat
    BY ListNumbers
<1> QED BY <1>2, <1>3, <1>4 DEF Members

\* A call is in one chunk.
LEMMA OneChunk ==
    ASSUME calls \in CallLists, NEW k \in Chunks, NEW l \in Chunks, NEW i \in Members(k),
           i \in Members(l)
    PROVE  k = l
<1>0. ChunkSize \in Nat
    BY ListNumbers
<1>1. ASSUME NEW a \in Chunks, NEW b \in Chunks, i \in Members(a), i \in Members(b) PROVE ~(a < b)
    <2>1. SUFFICES ASSUME a < b PROVE FALSE
        OBVIOUS
    <2>2. a \in Nat /\ b - 1 \in Nat /\ a <= b - 1
        BY <2>1, ChunkNumbers
    <2>3. a * ChunkSize <= (b - 1) * ChunkSize
        BY <1>0, <2>2, Larger
    <2>4. PICK x \in Nat, y \in Nat : x = a * ChunkSize /\ y = (b - 1) * ChunkSize
        BY ChunkNumbers
    <2>5. i \in Nat /\ i <= x /\ y < i
        BY <1>1, <2>4, ChunkNumbers
    <2> QED BY <2>3, <2>4, <2>5
<1>2. ~(k < l) /\ ~(l < k)
    BY <1>1
<1>3. k \in Nat /\ l \in Nat
    BY ChunkNumbers
<1> QED BY <1>2, <1>3

\* Every call is in some chunk.
LEMMA SomeChunk ==
    ASSUME calls \in CallLists, NEW i \in DOMAIN calls
    PROVE  \E k \in Chunks : i \in Members(k)
<1>1. ChunkSize \in Nat \ {0} /\ Len(calls) \in Nat \ {0} /\ i \in 1..Len(calls)
    BY ListNumbers
<1>2. PICK s \in Nat \ {0}, n \in Nat \ {0} : s = ChunkSize /\ n = Len(calls)
    BY <1>1
<1>3. i \in Nat \ {0} /\ i <= n /\ i - 1 \in Nat /\ n + s - 1 \in Nat
    BY <1>1, <1>2
<1>4. PICK q \in Nat : q = (i - 1) \div s /\ q * s <= i - 1 /\ i - 1 < (q + 1) * s
    BY <1>3, Quotient
<1>5. PICK r \in Nat : r = (n + s - 1) \div s /\ n + s - 1 < (r + 1) * s
    BY <1>3, Quotient
<1>6. (r + 1) * s = r * s + s /\ r * s \in Nat /\ q * s \in Nat
    OBVIOUS
<1>7. q * s < r * s
    BY <1>3, <1>4, <1>5, <1>6
<1>8. q < r
    BY <1>7, Smaller
<1>9. q + 1 \in Chunks
    BY <1>2, <1>5, <1>8 DEF Chunks
<1>10. (q + 1 - 1) * s < i /\ i <= (q + 1) * s
    <2>1. (q + 1 - 1) * s = q * s /\ (q + 1) * s \in Nat
        OBVIOUS
    <2> QED BY <1>3, <1>4, <1>6, <2>1
<1>11. i \in Members(q + 1)
    BY <1>2, <1>10 DEF Members
<1> QED BY <1>9, <1>11

-----------------------------------------------------------------------------
\* One more run of call i, which worked on x.
LEMMA RunsOnce ==
    ASSUME calls \in CallLists, ran \in [DOMAIN calls -> Seq(Works)],
           NEW i \in DOMAIN calls, NEW x \in Works,
           ran' = [ran EXCEPT ![i] = Append(ran[i], x)]
    PROVE  /\ ran' \in [DOMAIN calls -> Seq(Works)]
           /\ Len(ran[i]) \in Nat /\ Len(ran'[i]) = Len(ran[i]) + 1
           /\ ran'[i] # <<>> /\ Last(ran'[i]) = x
           /\ \A n \in DOMAIN ran'[i] : ran'[i][n] = x \/ (n \in DOMAIN ran[i] /\ ran'[i][n] = ran[i][n])
           /\ \A j \in DOMAIN calls : j # i => ran'[j] = ran[j]
<1> HIDE DEF Works
<1>1. PICK r : r = ran[i] /\ r \in Seq(Works)
    OBVIOUS
<1>2. /\ Append(r, x) \in Seq(Works) /\ Len(r) \in Nat /\ Len(Append(r, x)) = Len(r) + 1
      /\ Append(r, x) # <<>>
    BY <1>1
<1>3. ran'[i] = Append(r, x)
    BY <1>1
<1>4. Append(r, x)[Len(r) + 1] = x
    BY <1>1
<1>5. Last(ran'[i]) = x
    BY <1>2, <1>3, <1>4, Zenon DEF Last
<1>6. \A n \in DOMAIN Append(r, x) : Append(r, x)[n] = x \/ (n \in DOMAIN r /\ Append(r, x)[n] = r[n])
    BY <1>1
<1>7. \A j \in DOMAIN calls : j # i => ran'[j] = ran[j]
    OBVIOUS
<1>8. ran' \in [DOMAIN calls -> Seq(Works)]
    BY <1>1, <1>2
<1> QED BY <1>1, <1>2, <1>3, <1>5, <1>6, <1>7, <1>8, Zenon

\* What a call works on is a VFS or none.
LEMMA WorksOnOne ==
    ASSUME SelectionTypeOK, calls \in CallLists, NEW p \in Procs, NEW i \in DOMAIN calls
    PROVE  WorksOn(p, calls[i]) \in Works /\ Selected(p) \in Works
<1>1. calls[i].vfs \in Works
    BY ListNumbers DEF CallSet, Works
<1>2. Selected(p) \in Works
    BY DEF Selected, SelectionTypeOK, Works
<1> QED BY <1>1, <1>2 DEF WorksOn, Works

\* So a step that calls i in p is a run of i.
LEMMA CallRuns ==
    ASSUME SelectionTypeOK, ListType, NEW p \in Procs, NEW i \in DOMAIN calls, Call(p, i)
    PROVE  /\ ran' \in [DOMAIN calls -> Seq(Works)]
           /\ Len(ran[i]) \in Nat /\ Len(ran'[i]) = Len(ran[i]) + 1
           /\ ran'[i] # <<>> /\ Last(ran'[i]) \in Works
           /\ \A j \in DOMAIN calls : j # i => ran'[j] = ran[j]
<1>1. ran' = [ran EXCEPT ![i] = Append(ran[i], WorksOn(p, calls[i]))]
    BY Zenon DEF Call
<1>2. calls \in CallLists /\ ran \in [DOMAIN calls -> Seq(Works)]
    BY DEF ListType
<1>3. PICK x \in Works : x = WorksOn(p, calls[i])
    BY <1>2, WorksOnOne, Zenon
<1>4. ran' = [ran EXCEPT ![i] = Append(ran[i], x)]
    BY <1>1, <1>3, Zenon
<1> HIDE DEF Works
<1> QED BY <1>2, <1>4, RunsOnce

\* Runs are counted in numbers, and none has run when its count is zero.
LEMMA RunCounts ==
    ASSUME ListType, NEW i \in DOMAIN calls
    PROVE  /\ Len(ran[i]) \in Nat /\ (ran[i] = <<>> <=> Len(ran[i]) = 0)
<1> HIDE DEF Works
<1>1. PICK r : r = ran[i] /\ r \in Seq(Works)
    BY DEF ListType
<1>2. Len(r) \in Nat /\ (r = <<>> <=> Len(r) = 0)
    BY <1>1
<1> QED BY <1>1, <1>2, Zenon

\* At the start there is no list.
LEMMA InitAnswered == Init => ListInv
<1> SUFFICES ASSUME Init PROVE ListInv
    OBVIOUS
<1> USE DispatchConstantsOK
<1>1. calls \in CallLists /\ \A i \in DOMAIN calls : ran[i] = <<>> /\ Len(ran[i]) = 0
    BY DEF Init
<1>2. ran \in [DOMAIN calls -> Seq(Works)]
    BY DEF Init
<1>3. ListType
    BY <1>1, <1>2 DEF Init, ListType
<1>4. Phases
    BY <1>1 DEF Init, Phases, Untouched, OneAnswerPerCall, RunsTwiceOnlyAfterFailure
<1> QED BY <1>3, <1>4 DEF ListInv

\* A step that leaves the list alone.
LEMMA ListAlone ==
    ASSUME ListInv, UNCHANGED <<calls, phase, arrived, taken, hands, answers, ran, deaths>>
    PROVE  ListInv'
<1>1. ListType'
    BY DEF ListInv, ListType, Chunks, Held, NoHand
<1>2. /\ Chunks' = Chunks /\ \A k : Members(k)' = Members(k)
      /\ PoolFailed' = PoolFailed
    BY DEF Chunks, Members, PoolFailed
<1>3. Untouched' = Untouched /\ InPool' = InPool /\ Here' = Here
    BY <1>2 DEF Untouched, InPool, HandTrue, Here
<1>4. OneAnswerPerCall' = OneAnswerPerCall /\ RunsTwiceOnlyAfterFailure' = RunsTwiceOnlyAfterFailure
    BY <1>2 DEF OneAnswerPerCall, RunsTwiceOnlyAfterFailure
<1>5. Phases'
    BY <1>3, <1>4 DEF ListInv, Phases
<1> QED BY <1>1, <1>5 DEF ListInv

\* The calls are cut into chunks; nothing has run.
LEMMA DispatchAnswered == ASSUME ListInv, Dispatch PROVE ListInv'
<1>1. /\ ListType /\ Untouched /\ calls' = calls
      /\ UNCHANGED <<taken, hands, answers, ran, deaths>> /\ phase' \in {"pool", "here"}
      /\ arrived' = [k \in Chunks |-> IF \A i \in Members(k) : calls[i].sends
                                      THEN "waiting" ELSE "failed"]
    BY DEF ListInv, Phases, Dispatch
<1>2. Chunks' = Chunks /\ \A k : Members(k)' = Members(k)
    BY <1>1 DEF Chunks, Members
<1>3. ListType'
    BY <1>1, <1>2 DEF ListType, Held, NoHand
<1>4. \A i \in DOMAIN calls' : ran'[i] = <<>> /\ Len(ran'[i]) = 0 /\ answers'[i] = NoAnswer
    BY <1>1 DEF Untouched
<1>5. InPool'
    <2>1. \A k \in Chunks' : arrived'[k] # "ok"
        BY <1>1, <1>2
    <2>2. \A k \in Chunks' : \A i \in Members(k)' : ran'[i] = <<>>
        BY <1>4 DEF Members
    <2> QED BY <1>1, <1>4, <2>1, <2>2 DEF InPool, Untouched
<1>6. Here'
    BY <1>4 DEF Here
<1>7. Phases'
    BY <1>1, <1>4, <1>5, <1>6 DEF Phases, OneAnswerPerCall, RunsTwiceOnlyAfterFailure
<1> QED BY <1>3, <1>7 DEF ListInv

\* A worker takes a chunk of which nothing has run.
LEMMA TakeAnswered == ASSUME ListInv, NEW w \in Workers, Take(w) PROVE ListInv'
<1> PICK k \in Chunks \ taken :
       /\ arrived[k] = "waiting" /\ taken' = taken \cup {k}
       /\ hands' = [hands EXCEPT ![w] = [chunk |-> k, next |-> (k - 1) * ChunkSize + 1]]
    BY DEF Take
<1>1. /\ ListType /\ InPool /\ RunsTwiceOnlyAfterFailure /\ phase = "pool" /\ hands[w] = NoHand
      /\ UNCHANGED <<calls, phase, arrived, answers, ran, deaths>>
    BY DEF ListInv, Phases, Take
<1>2. Chunks' = Chunks /\ \A l : Members(l)' = Members(l)
    BY <1>1 DEF Chunks, Members
<1>3. calls \in CallLists /\ hands \in [Workers -> {NoHand} \cup Held]
    BY <1>1 DEF ListType
<1>4. PICK n \in Nat : n = (k - 1) * ChunkSize
    BY <1>3, ChunkNumbers
<1>5. hands'[w] = [chunk |-> k, next |-> n + 1] /\ \A v \in Workers \ {w} : hands'[v] = hands[v]
    BY <1>3, <1>4
<1>6. ListType'
    <2>1. [chunk |-> k, next |-> n + 1] \in Held
        BY <1>4 DEF Held
    <2>2. hands' = [hands EXCEPT ![w] = [chunk |-> k, next |-> n + 1]]
        BY <1>4
    <2>3. hands' \in [Workers -> {NoHand} \cup Held]
        BY <1>3, <2>1, <2>2
    <2> QED BY <1>1, <1>2, <2>3 DEF ListType, Held, NoHand
<1>7. HandTrue(w)'
    <2>1. \A i \in Members(k) : i \in Nat /\ n < i /\ Len(ran[i]) = 0
        <3>1. \A i \in Members(k) : i \in Nat /\ n < i
            BY <1>3, <1>4, ChunkNumbers
        <3>2. \A i \in Members(k) : ran[i] = <<>>
            BY <1>1 DEF InPool
        <3> QED BY <3>1, <3>2
    <2>2. \A i \in Members(k) : ~(i < n + 1)
        BY <2>1
    <2>3. \A v \in Workers : hands'[v] # NoHand /\ hands'[v].chunk = k => v = w
        <3>1. \A v \in Workers : hands[v] # NoHand => hands[v].chunk \in taken
            BY <1>1 DEF InPool, HandTrue
        <3> QED BY <1>5, <3>1
    <2>4. k \in taken' /\ arrived'[k] = "waiting" /\ n < n + 1
        BY <1>1
    <2>5. hands'[w].chunk = k /\ hands'[w].next = n + 1
        BY <1>5
    <2>6. NoHand' = NoHand
        BY DEF NoHand
    <2> QED BY <1>1, <1>2, <1>4, <2>1, <2>2, <2>3, <2>4, <2>5, <2>6 DEF HandTrue
<1>8. ASSUME NEW v \in Workers \ {w}, hands'[v] # NoHand PROVE HandTrue(v)'
    <2>1. HandTrue(v) /\ hands'[v] = hands[v]
        BY <1>1, <1>5, <1>8 DEF InPool
    <2>2. hands[v].chunk \in taken /\ hands[v].chunk # k
        BY <2>1 DEF HandTrue
    <2>3. \A u \in Workers : hands'[u] # NoHand /\ hands'[u].chunk = hands[v].chunk => u = v
        BY <1>5, <2>1, <2>2 DEF HandTrue
    <2>6. NoHand' = NoHand
        BY DEF NoHand
    <2> QED BY <1>1, <1>2, <2>1, <2>2, <2>3, <2>6 DEF HandTrue
<1>9. InPool'
    <2>1. \A v \in Workers : hands'[v] # NoHand => HandTrue(v)'
        BY <1>7, <1>8
    <2>2. NoHand' = NoHand /\ \A l \in Chunks \ taken' : l \in Chunks \ taken
        BY DEF NoHand
    <2> QED BY <1>1, <1>2, <2>1, <2>2 DEF InPool
<1>10. RunsTwiceOnlyAfterFailure' /\ OneAnswerPerCall'
    BY <1>1, <1>2 DEF RunsTwiceOnlyAfterFailure, OneAnswerPerCall
<1> QED BY <1>1, <1>6, <1>9, <1>10 DEF ListInv, Phases
\* A worker runs the next call of its chunk.
LEMMA RunAnswered ==
    ASSUME ListInv, SelectionTypeOK, NEW w \in Workers, RunInWorker(w)
    PROVE  ListInv'
<1>1. /\ ListType /\ InPool /\ phase = "pool" /\ hands[w] # NoHand /\ More(w)
      /\ UNCHANGED <<calls, phase, arrived, taken, answers, deaths>>
      /\ hands' = [hands EXCEPT ![w].next = @ + 1]
    BY DEF ListInv, Phases, RunInWorker
<1>2. Chunks' = Chunks /\ \A l : Members(l)' = Members(l)
    BY <1>1 DEF Chunks, Members
<1>3. calls \in CallLists /\ hands \in [Workers -> {NoHand} \cup Held]
    BY <1>1 DEF ListType
<1>4. PICK k \in Chunks, n \in Nat : hands[w] = [chunk |-> k, next |-> n]
    BY <1>1, <1>3 DEF Held
<1>5. /\ hands'[w] = [chunk |-> k, next |-> n + 1]
      /\ hands' = [hands EXCEPT ![w] = [chunk |-> k, next |-> n + 1]]
      /\ \A v \in Workers \ {w} : hands'[v] = hands[v]
    <2>1. hands' = [hands EXCEPT ![w] = [hands[w] EXCEPT !.next = hands[w].next + 1]]
        BY <1>1, Zenon
    <2>2. [hands[w] EXCEPT !.next = hands[w].next + 1] = [chunk |-> k, next |-> n + 1]
        BY <1>4
    <2>3. hands' = [hands EXCEPT ![w] = [chunk |-> k, next |-> n + 1]]
        BY <2>1, <2>2, Zenon
    <2>4. w \in DOMAIN hands /\ DOMAIN hands = Workers
        BY <1>3
    <2> QED BY <2>3, <2>4
<1>6. n \in Members(k) /\ n \in DOMAIN calls
    BY <1>1, <1>4 DEF More, Members
<1>7. HandTrue(w) /\ hands[w].chunk = k /\ hands[w].next = n
    BY <1>1, <1>4 DEF InPool
<1>8. Call(w, n) /\ w \in Procs
    <2>1. Call(w, hands[w].next) /\ hands[w].next = n
        BY <1>7, Zenon DEF RunInWorker
    <2> QED BY <2>1, DispatchConstantsOK, Zenon
<1>9. /\ ran' \in [DOMAIN calls -> Seq(Works)] /\ ran'[n] # <<>>
      /\ Len(ran[n]) \in Nat /\ Len(ran'[n]) = Len(ran[n]) + 1
      /\ \A j \in DOMAIN calls : j # n => ran'[j] = ran[j]
    BY <1>1, <1>6, <1>8, CallRuns
<1>10. Len(ran[n]) = 0 /\ Len(ran'[n]) = 1
    BY <1>6, <1>7, <1>9 DEF HandTrue
<1>11. ListType'
    <2>1. hands' \in [Workers -> {NoHand} \cup Held]
        BY <1>3, <1>4, <1>5 DEF Held
    <2> QED BY <1>1, <1>2, <1>9, <2>1 DEF ListType, Held, NoHand
<1>12. \A l \in Chunks : l # k => n \notin Members(l)
    BY <1>3, <1>6, OneChunk
<1>13. \A l \in Chunks : Members(l) \subseteq DOMAIN calls
    BY DEF Members
<1>14. HandTrue(w)'
    <2>1. k \in taken' /\ arrived'[k] = "waiting"
        BY <1>1, <1>7 DEF HandTrue
    <2>2. (k - 1) * ChunkSize < n + 1
        <3>1. PICK y \in Nat : y = (k - 1) * ChunkSize
            BY <1>3, ChunkNumbers
        <3>2. y < n
            BY <1>7, <3>1 DEF HandTrue
        <3> QED BY <3>1, <3>2
    <2>3. \A i \in Members(k) : Len(ran'[i]) = IF i < n + 1 THEN 1 ELSE 0
        <3>1. SUFFICES ASSUME NEW i \in Members(k) PROVE Len(ran'[i]) = IF i < n + 1 THEN 1 ELSE 0
            OBVIOUS
        <3>2. i \in Nat
            BY <1>3, ChunkNumbers
        <3>3. CASE i = n
            BY <1>10, <3>3
        <3>4. CASE i # n
            <4>1. ran'[i] = ran[i]
                BY <1>9, <1>13, <3>4
            <4>2. Len(ran[i]) = IF i < n THEN 1 ELSE 0
                BY <1>7 DEF HandTrue
            <4> QED BY <3>2, <3>4, <4>1, <4>2
        <3> QED BY <3>3, <3>4
    <2>4. \A v \in Workers : hands'[v] # NoHand /\ hands'[v].chunk = k => v = w
        BY <1>5, <1>7 DEF HandTrue
    <2>6. NoHand' = NoHand
        BY DEF NoHand
    <2> QED BY <1>2, <1>5, <2>1, <2>2, <2>3, <2>4, <2>6 DEF HandTrue
<1>15. ASSUME NEW v \in Workers \ {w}, hands'[v] # NoHand PROVE HandTrue(v)'
    <2>1. HandTrue(v) /\ hands'[v] = hands[v] /\ hands[v].chunk \in Chunks
        <3>1. hands'[v] = hands[v] /\ HandTrue(v)
            BY <1>1, <1>5, <1>15 DEF InPool
        <3> QED BY <1>3, <1>5, <1>15, <3>1 DEF Held
    <2>2. hands[v].chunk # k
        BY <1>1, <1>4, <1>5, <1>15, <2>1 DEF HandTrue
    <2>3. \A u \in Workers : hands'[u] # NoHand /\ hands'[u].chunk = hands[v].chunk => u = v
        BY <1>5, <2>1, <2>2 DEF HandTrue
    <2>4. \A i \in Members(hands[v].chunk) : ran'[i] = ran[i]
        BY <1>9, <1>12, <1>13, <2>1, <2>2
    <2>6. NoHand' = NoHand
        BY DEF NoHand
    <2> QED BY <1>1, <1>2, <2>1, <2>3, <2>4, <2>6 DEF HandTrue
<1>16. InPool'
    <2>1. \A v \in Workers : hands'[v] # NoHand' => HandTrue(v)'
        BY <1>14, <1>15 DEF NoHand
    <2>2. k \in taken /\ arrived[k] = "waiting"
        BY <1>7 DEF HandTrue
    <2>3. \A l \in Chunks : l # k => \A i \in Members(l) : ran'[i] = ran[i]
        BY <1>9, <1>12, <1>13
    <2>4. \A l \in Chunks \ taken : arrived[l] # "ok" /\ \A i \in Members(l) : ran'[i] = <<>>
        BY <1>1, <2>2, <2>3 DEF InPool
    <2>5. \A i \in DOMAIN calls : Len(ran'[i]) <= 1
        <3>1. \A i \in DOMAIN calls : Len(ran[i]) <= 1
            BY <1>1 DEF InPool
        <3>2. \A i \in DOMAIN calls : i # n => Len(ran'[i]) = Len(ran[i])
            BY <1>9
        <3>3. Len(ran'[n]) <= 1
            BY <1>10
        <3> QED BY <3>1, <3>2, <3>3, Zenon
    <2>6. \A l \in Chunks : arrived[l] = "ok" =>
             \A i \in Members(l) : ran'[i] # <<>> /\ answers[i] = Last(ran'[i])
        BY <1>1, <2>2, <2>3 DEF InPool
    <2> QED BY <1>1, <1>2, <2>1, <2>4, <2>5, <2>6 DEF InPool
<1>17. RunsTwiceOnlyAfterFailure' /\ OneAnswerPerCall'
    BY <1>1, <1>16 DEF RunsTwiceOnlyAfterFailure, OneAnswerPerCall, InPool
<1> QED BY <1>1, <1>11, <1>16, <1>17 DEF ListInv, Phases

\* A worker has run all the calls of its chunk.
LEMMA AllRan ==
    ASSUME ListType, InPool, phase = "pool", NEW w \in Workers, hands[w] # NoHand, ~More(w),
           NEW i \in Members(hands[w].chunk)
    PROVE  ran[i] # <<>> /\ Last(ran[i]) \in Works
<1>1. calls \in CallLists /\ hands \in [Workers -> {NoHand} \cup Held]
    BY DEF ListType
<1>2. PICK k \in Chunks, n \in Nat : hands[w] = [chunk |-> k, next |-> n]
    BY <1>1 DEF Held
<1>3. HandTrue(w) /\ hands[w].chunk = k /\ hands[w].next = n
    BY <1>2 DEF InPool
<1>4. PICK low \in Nat, high \in Nat : low = (k - 1) * ChunkSize /\ high = k * ChunkSize
    BY <1>1, ChunkNumbers
<1>5. i \in Nat /\ low < i /\ i <= high /\ i \in DOMAIN calls /\ i <= Len(calls) /\ Len(calls) \in Nat
    BY <1>1, <1>3, <1>4, ChunkNumbers, ListNumbers DEF Members
<1>6. i < n
    <2>1. SUFFICES ASSUME n <= i PROVE FALSE
        BY <1>2, <1>5
    <2>2. low < n
        BY <1>3, <1>4 DEF HandTrue
    <2>3. n \in 1..Len(calls) /\ low < n /\ n <= high
        BY <1>4, <1>5, <2>1, <2>2
    <2>4. n \in Members(k)
        BY <1>1, <1>4, <2>3, ListNumbers DEF Members
    <2> QED BY <1>3, <2>4 DEF More
<1>7. Len(ran[i]) = 1
    BY <1>3, <1>6 DEF HandTrue
<1>8. PICK r : r = ran[i] /\ r \in Seq(Works)
    BY <1>5 DEF ListType
<1> HIDE DEF Works
<1>9. r # <<>> /\ r[1] \in Works
    <2>0. r = ran[i]
        BY <1>8
    <2>1. Len(r) = 1
        BY <1>7, <2>0, Zenon
    <2>2. r \in Seq(Works)
        BY <1>8
    <2>3. r \in [1..Len(r) -> Works] /\ Len(<<>>) = 0
        BY <2>2
    <2>4. 1 \in 1..Len(r) /\ Len(r) # Len(<<>>)
        BY <2>1, <2>3
    <2> QED BY <2>3, <2>4
<1>10. Last(r) = r[1]
    BY <1>7, <1>8 DEF Last
<1> QED BY <1>8, <1>9, <1>10, Zenon

\* A chunk comes back, with its answers or without.
LEMMA ReturnAnswered == ASSUME ListInv, NEW w \in Workers, Return(w) PROVE ListInv'
<1>1. /\ ListType /\ InPool /\ phase = "pool" /\ hands[w] # NoHand /\ ~More(w)
      /\ UNCHANGED <<calls, phase, taken, ran, deaths>>
      /\ hands' = [hands EXCEPT ![w] = NoHand]
    BY DEF ListInv, Phases, Return
<1>2. Chunks' = Chunks /\ \A l : Members(l)' = Members(l)
    BY <1>1 DEF Chunks, Members
<1>3. calls \in CallLists /\ hands \in [Workers -> {NoHand} \cup Held]
    BY <1>1 DEF ListType
<1>4. PICK k \in Chunks : k = hands[w].chunk
    BY <1>1, <1>3 DEF Held
<1>5. k \in taken /\ \A v \in Workers : hands[v] # NoHand /\ hands[v].chunk = k => v = w
    BY <1>1, <1>4 DEF InPool, HandTrue
<1>6. hands'[w] = NoHand /\ \A v \in Workers \ {w} : hands'[v] = hands[v]
    BY <1>1, <1>3
<1>7. \/ arrived' = [arrived EXCEPT ![k] = "ok"] /\ answers' = Filed(k)
      \/ arrived' = [arrived EXCEPT ![k] = "failed"] /\ answers' = answers
    BY <1>4 DEF Return
<1>8. \A i \in Members(k) : ran[i] # <<>> /\ Last(ran[i]) \in Works
    BY <1>1, <1>4, AllRan
<1>9. ListType'
    <2>1. arrived' \in [Chunks -> {"waiting", "ok", "failed"}]
        BY <1>1, <1>7 DEF ListType
    <2>2. answers' \in [DOMAIN calls -> Works \cup {NoAnswer}]
        BY <1>1, <1>7, <1>8 DEF ListType, Filed
    <2>3. hands' \in [Workers -> {NoHand} \cup Held]
        BY <1>1, <1>3
    <2> QED BY <1>1, <1>2, <2>1, <2>2, <2>3 DEF ListType, Held, NoHand
<1>10. \A l \in Chunks : l # k => arrived'[l] = arrived[l]
    BY <1>1, <1>7 DEF ListType
<1>11. \A l \in Chunks : l # k => \A i \in Members(l) : answers'[i] = answers[i]
    <2>1. ASSUME NEW l \in Chunks, l # k, NEW i \in Members(l) PROVE answers'[i] = answers[i]
        <3>1. i \notin Members(k) /\ i \in DOMAIN calls
            BY <1>3, <2>1, OneChunk DEF Members
        <3> QED BY <1>7, <3>1 DEF Filed
    <2> QED BY <2>1
<1>12. arrived'[k] = "ok" => \A i \in Members(k) : answers'[i] = Last(ran[i])
    <2>1. arrived'[k] = "ok" => answers' = Filed(k)
        BY <1>1, <1>7 DEF ListType
    <2> QED BY <2>1 DEF Filed, Members
<1>13. ASSUME NEW v \in Workers, hands'[v] # NoHand PROVE HandTrue(v)'
    <2>1. v # w /\ hands'[v] = hands[v] /\ HandTrue(v)
        BY <1>1, <1>6, <1>13 DEF InPool
    <2>2. hands[v].chunk # k /\ hands[v].chunk \in Chunks
        BY <1>3, <1>5, <1>13, <2>1 DEF Held
    <2>3. \A u \in Workers : hands'[u] # NoHand => hands'[u] = hands[u]
        BY <1>6
    <2>6. NoHand' = NoHand
        BY DEF NoHand
    <2> QED BY <1>1, <1>2, <1>10, <2>1, <2>2, <2>3, <2>6 DEF HandTrue
<1>14. InPool'
    <2>1. \A v \in Workers : hands'[v] # NoHand' => HandTrue(v)'
        BY <1>13 DEF NoHand
    <2>2. \A l \in Chunks \ taken : arrived'[l] # "ok" /\ \A i \in Members(l) : ran[i] = <<>>
        BY <1>1, <1>5, <1>10 DEF InPool
    <2>3. \A l \in Chunks : arrived'[l] = "ok" =>
             \A i \in Members(l) : ran[i] # <<>> /\ answers'[i] = Last(ran[i])
        BY <1>1, <1>8, <1>10, <1>11, <1>12 DEF InPool
    <2> QED BY <1>1, <1>2, <2>1, <2>2, <2>3 DEF InPool
<1>15. RunsTwiceOnlyAfterFailure' /\ OneAnswerPerCall'
    BY <1>1, <1>14 DEF RunsTwiceOnlyAfterFailure, OneAnswerPerCall, InPool
<1> QED BY <1>1, <1>9, <1>14, <1>15 DEF ListInv, Phases

\* A worker dies, and its chunk is nobody's.
LEMMA DieAnswered == ASSUME ListInv, NEW w \in Workers, Die(w) PROVE ListInv'
<1>1. /\ ListType /\ InPool /\ phase = "pool"
      /\ UNCHANGED <<calls, phase, arrived, taken, answers, ran>>
      /\ hands' = [hands EXCEPT ![w] = NoHand]
      /\ deaths < MaxDeaths /\ deaths' = deaths + 1
    BY DEF ListInv, Phases, Die
<1>2. Chunks' = Chunks /\ (\A l : Members(l)' = Members(l)) /\ NoHand' = NoHand
    BY <1>1 DEF Chunks, Members, NoHand
<1>3. hands \in [Workers -> {NoHand} \cup Held]
    BY <1>1 DEF ListType
<1>4. hands'[w] = NoHand /\ \A v \in Workers \ {w} : hands'[v] = hands[v]
    BY <1>1, <1>3
<1>5. ListType'
    <2>1. hands' \in [Workers -> {NoHand} \cup Held]
        BY <1>1, <1>3
    <2>2. deaths' \in 0..MaxDeaths
        BY <1>1, DispatchConstantsOK DEF ListType
    <2> QED BY <1>1, <1>2, <2>1, <2>2 DEF ListType, Held, NoHand
<1>6. ASSUME NEW v \in Workers, hands'[v] # NoHand PROVE HandTrue(v)'
    <2>1. v # w /\ hands'[v] = hands[v] /\ HandTrue(v)
        BY <1>1, <1>4, <1>6 DEF InPool
    <2>2. \A u \in Workers : hands'[u] # NoHand => hands'[u] = hands[u]
        BY <1>4
    <2> QED BY <1>1, <1>2, <2>1, <2>2 DEF HandTrue
<1>7. InPool'
    BY <1>1, <1>2, <1>6 DEF InPool
<1>8. RunsTwiceOnlyAfterFailure' /\ OneAnswerPerCall'
    BY <1>1, <1>7 DEF RunsTwiceOnlyAfterFailure, OneAnswerPerCall, InPool
<1> QED BY <1>1, <1>5, <1>7, <1>8 DEF ListInv, Phases

\* Every chunk has come back: either all are answered, or the list starts anew.
LEMMA CollectAnswered == ASSUME ListInv, Collect PROVE ListInv'
<1>1. /\ ListType /\ InPool /\ phase = "pool" /\ \A k \in Chunks : arrived[k] # "waiting"
      /\ UNCHANGED <<calls, arrived, taken, hands, ran, deaths>>
      /\ phase' = IF PoolFailed THEN "here" ELSE "done"
      /\ answers' = IF PoolFailed THEN [i \in DOMAIN calls |-> NoAnswer] ELSE answers
    BY DEF ListInv, Phases, Collect
<1>2. /\ Chunks' = Chunks /\ (\A l : Members(l)' = Members(l)) /\ NoHand' = NoHand
      /\ PoolFailed' = PoolFailed
    BY <1>1 DEF Chunks, Members, NoHand, PoolFailed
<1>3. ListType'
    BY <1>1, <1>2 DEF ListType, Held, NoHand
<1>4. CASE PoolFailed
    <2>1. phase' = "here" /\ \A i \in DOMAIN calls : answers'[i] = NoAnswer /\ Len(ran[i]) <= 1
        BY <1>1, <1>4 DEF InPool
    <2>2. Here'
        BY <1>1, <1>2, <1>4, <2>1 DEF Here
    <2>3. RunsTwiceOnlyAfterFailure' /\ OneAnswerPerCall'
        BY <1>1, <2>1 DEF RunsTwiceOnlyAfterFailure, OneAnswerPerCall
    <2> QED BY <1>3, <2>1, <2>2, <2>3 DEF ListInv, Phases
<1>5. CASE ~PoolFailed
    <2>1. phase' = "done" /\ answers' = answers /\ \A k \in Chunks : arrived[k] = "ok"
        BY <1>1, <1>5 DEF PoolFailed, ListType
    <2>2. \A i \in DOMAIN calls : ran[i] # <<>> /\ answers[i] = Last(ran[i])
        <3>1. SUFFICES ASSUME NEW i \in DOMAIN calls PROVE ran[i] # <<>> /\ answers[i] = Last(ran[i])
            OBVIOUS
        <3>2. PICK k \in Chunks : i \in Members(k)
            BY <1>1, SomeChunk DEF ListType
        <3> QED BY <1>1, <2>1, <3>2 DEF InPool
    <2>3. RunsTwiceOnlyAfterFailure' /\ OneAnswerPerCall'
        BY <1>1, <2>1, <2>2 DEF RunsTwiceOnlyAfterFailure, OneAnswerPerCall, InPool
    <2> QED BY <1>3, <2>1, <2>3 DEF ListInv, Phases
<1> QED BY <1>4, <1>5

\* The fallback runs the first call that has no answer yet.
LEMMA HereAnswered == ASSUME ListInv, SelectionTypeOK, RunHere PROVE ListInv'
<1> PICK i \in DOMAIN calls :
       /\ answers[i] = NoAnswer /\ Reached(i) /\ Call(Caller, i)
       /\ answers' = [answers EXCEPT ![i] = Last(ran'[i])]
       /\ phase' = IF i = Len(calls) THEN "done" ELSE "here"
    BY DEF RunHere
<1>1. /\ ListType /\ Here /\ RunsTwiceOnlyAfterFailure
      /\ UNCHANGED <<calls, arrived, taken, hands, deaths>> /\ phase' \in {"here", "done"}
    BY DEF ListInv, Phases, RunHere
<1>2. /\ Chunks' = Chunks /\ (\A l : Members(l)' = Members(l)) /\ NoHand' = NoHand
      /\ PoolFailed' = PoolFailed
    BY <1>1 DEF Chunks, Members, NoHand, PoolFailed
<1>3. /\ ran' \in [DOMAIN calls -> Seq(Works)] /\ ran'[i] # <<>>
      /\ Len(ran[i]) \in Nat /\ Len(ran'[i]) = Len(ran[i]) + 1 /\ Last(ran'[i]) \in Works
      /\ \A j \in DOMAIN calls : j # i => ran'[j] = ran[j]
    BY <1>1, CallRuns, SelectionConstantsOK, DispatchConstantsOK
<1>4. answers'[i] = Last(ran'[i]) /\ \A j \in DOMAIN calls : j # i => answers'[j] = answers[j]
    BY <1>1 DEF ListType
<1>5. ListType'
    <2>1. answers' \in [DOMAIN calls -> Works \cup {NoAnswer}]
        BY <1>1, <1>3 DEF ListType
    <2> QED BY <1>1, <1>2, <1>3, <2>1 DEF ListType, Held, NoHand
<1>6. Last(ran'[i]) # NoAnswer
    BY <1>3, DispatchConstantsOK DEF Works
<1>7. Len(ran'[i]) <= 2 /\ (Len(ran'[i]) = 2 => PoolFailed)
    <2>1. Len(ran[i]) <= 1 /\ (Len(ran[i]) = 1 => PoolFailed)
        BY <1>1 DEF Here
    <2>2. CASE Len(ran[i]) = 0
        BY <1>3, <2>2
    <2>3. CASE Len(ran[i]) = 1
        <3>1. PoolFailed
            BY <2>1, <2>3
        <3>2. Len(ran'[i]) = 2
            BY <1>3, <2>3
        <3>3. Len(ran'[i]) <= 2
            BY <3>2
        <3> QED BY <3>1, <3>3, Zenon
    <2>4. Len(ran[i]) = 0 \/ Len(ran[i]) = 1
        <3>1. Len(ran[i]) \in Nat
            BY <1>3, Zenon
        <3>2. Len(ran[i]) <= 1
            BY <2>1, Zenon
        <3>3. PICK m \in Nat : m = Len(ran[i])
            BY <3>1, Zenon
        <3>4. m <= 1
            BY <3>2, <3>3, Zenon
        <3>5. m = 0 \/ m = 1
            BY <3>4
        <3> QED BY <3>3, <3>5, Zenon
    <2> QED BY <2>2, <2>3, <2>4
<1>8. DOMAIN calls = 1..Len(calls) /\ Len(calls) \in Nat
    BY <1>1, ListNumbers DEF ListType
<1>9. \A j \in 1..(i - 1) : j \in DOMAIN calls /\ j # i /\ answers[j] # NoAnswer
    BY <1>8 DEF Reached
<1>10. Here'
    <2>1. ASSUME NEW j \in DOMAIN calls, answers'[j] = NoAnswer
          PROVE  Len(ran'[j]) <= 1 /\ (Len(ran'[j]) = 1 => PoolFailed)
        BY <1>1, <1>3, <1>4, <1>6, <2>1 DEF Here
    <2>2. ASSUME NEW j \in DOMAIN calls, answers'[j] # NoAnswer
          PROVE  ran'[j] # <<>> /\ answers'[j] = Last(ran'[j])
                 /\ \A l \in 1..(j - 1) : answers'[l] # NoAnswer
        <3>1. CASE j = i
            BY <1>3, <1>4, <1>9, <3>1
        <3>2. CASE j # i
            <4>1. ran[j] # <<>> /\ answers[j] = Last(ran[j])
                  /\ \A l \in 1..(j - 1) : answers[l] # NoAnswer
                BY <1>1, <1>4, <2>2, <3>2 DEF Here
            <4>2. \A l \in 1..(j - 1) : l \in DOMAIN calls /\ answers'[l] # NoAnswer
                BY <1>4, <1>6, <1>8, <4>1
            <4> QED BY <1>3, <1>4, <3>2, <4>1, <4>2
        <3> QED BY <3>1, <3>2
    <2>3. NoAnswer' = NoAnswer
        BY DEF NoAnswer
    <2> QED BY <1>1, <1>2, <2>1, <2>2, <2>3 DEF Here
<1>11. RunsTwiceOnlyAfterFailure'
    <2>1. \A j \in DOMAIN calls : Len(ran'[j]) <= 1 \/ (Len(ran'[j]) = 2 /\ PoolFailed)
        <3>1. \A j \in DOMAIN calls : Len(ran[j]) <= 1 \/ (Len(ran[j]) = 2 /\ PoolFailed)
            BY <1>1 DEF RunsTwiceOnlyAfterFailure, PoolFailed
        <3>2. Len(ran'[i]) <= 1 \/ (Len(ran'[i]) = 2 /\ PoolFailed)
            BY <1>3, <1>7
        <3> QED BY <1>3, <3>1, <3>2
    <2> QED BY <1>1, <1>2, <2>1 DEF RunsTwiceOnlyAfterFailure, PoolFailed
<1>12. OneAnswerPerCall'
    <2>1. SUFFICES ASSUME phase' = "done", NEW j \in DOMAIN calls
                   PROVE  ran'[j] # <<>> /\ answers'[j] = Last(ran'[j])
        BY <1>1 DEF OneAnswerPerCall
    <2>2. i = Len(calls)
        BY <2>1
    <2>3. j = i \/ j \in 1..(i - 1)
        BY <1>8, <2>2
    <2>4. answers'[j] # NoAnswer
        BY <1>4, <1>6, <1>9, <2>3
    <2>5. NoAnswer' = NoAnswer
        BY DEF NoAnswer
    <2> QED BY <1>1, <1>10, <2>4, <2>5 DEF Here
<1> QED BY <1>1, <1>5, <1>10, <1>11, <1>12 DEF ListInv, Phases
-----------------------------------------------------------------------------
\* Every step keeps the account of answers, runs and outcomes.
LEMMA AnswersStep == SelectionTypeOK /\ ListInv /\ [Next]_vars => ListInv'
<1> SUFFICES ASSUME SelectionTypeOK, ListInv, [Next]_vars PROVE ListInv'
    OBVIOUS
<1>1. ASSUME NEW p \in Users, UserStep(p) PROVE ListInv'
    BY <1>1, ListAlone DEF UserStep
<1>2. CASE Dispatch
    BY <1>2, DispatchAnswered
<1>3. CASE Collect
    BY <1>3, CollectAnswered
<1>4. CASE RunHere
    BY <1>4, HereAnswered
<1>5. ASSUME NEW w \in Workers, Take(w) \/ RunInWorker(w) \/ Return(w) \/ Die(w) PROVE ListInv'
    BY <1>5, TakeAnswered, RunAnswered, ReturnAnswered, DieAnswered
<1>6. CASE UNCHANGED vars
    BY <1>6, ListAlone DEF vars, dispatchVars
<1> QED BY <1>1, <1>2, <1>3, <1>4, <1>5, <1>6 DEF Next, PoolStep

\* The invariant and the checked property.
LEMMA ListInvAnswers == SelInv /\ ListInv => ListAnswered
<1> SUFFICES ASSUME SelInv, ListInv PROVE ListAnswered
    OBVIOUS
<1>1. \A w \in Workers : hands[w].chunk \in Chunks \cup {0}
    BY DEF ListInv, ListType, Held, NoHand
<1>2. TypeOK
    BY <1>1 DEF TypeOK, ListInv, ListType, SelInv, Works
<1> QED BY <1>2 DEF ListAnswered, ListInv, Phases

\* Every call of the list gets one answer, the one of its last run, and runs twice only
\* when the pool failed, for any workers, lists, chunk sizes and deaths
\* (api.py:245-265).
THEOREM EveryCallIsAnswered == Spec => []ListAnswered
<1>1. SelInv => SelectionTypeOK
    BY DEF SelInv
<1> QED BY InitOK, InitAnswered, SelectionStep, AnswersStep, ListInvAnswers, <1>1, PTL DEF Spec

-----------------------------------------------------------------------------
(***************************************************************************)
(* Selections (WorksWhereItShould).  What the workers and the caller have       *)
(* selected, and what they would read from the file, is the caller's selection  *)
(* or one that was persisted, or asked for, since.                            *)
(***************************************************************************)
RecentSelections ==
    /\ phase = "before" => since = {} /\ (\A w \in Workers : chosen[w] = None)
                           /\ \A i \in DOMAIN calls : ran[i] = <<>>
    /\ phase # "before" =>
          /\ selectionFile \in since
          /\ \A p \in Workers \cup {Caller} : chosen[p] \in {None, home} \cup since

WhereInv == RecentSelections /\ WorksWhereItShould

\* What is chosen now was chosen, or is in "since".
LEMMA StaysRecent ==
    ASSUME ListType, WhereInv, phase # "before", phase' # "before",
           UNCHANGED <<calls, ran, home>>, since \subseteq since', selectionFile' \in since',
           \A p \in Workers \cup {Caller} : chosen'[p] \in {None, home, chosen[p]} \cup since'
    PROVE  WhereInv'
<1>1. RecentSelections'
    BY DEF WhereInv, RecentSelections
<1>2. WorksWhereItShould'
    BY DEF WhereInv, WorksWhereItShould
<1> QED BY <1>1, <1>2 DEF WhereInv

\* One call, in a worker or in the caller: it works where it should, and what it selects
\* is recorded.
LEMMA CallWhere ==
    ASSUME SelectionTypeOK, ListType, WhereInv, phase # "before", phase' # "before",
           NEW p \in Workers \cup {Caller}, NEW i \in DOMAIN calls, Call(p, i),
           UNCHANGED <<calls, home>>
    PROVE  WhereInv'
<1> DEFINE c == calls[i]
<1>1. /\ since' = since \cup {selectionFile'} \cup (IF c.kind = "select" THEN {c.vfs} ELSE {})
      /\ ran' = [ran EXCEPT ![i] = Append(ran[i], WorksOn(p, c))]
    BY Zenon DEF Call
<1>2. p \in Procs /\ Workers \cup {Caller} \subseteq Procs
    BY SelectionConstantsOK, DispatchConstantsOK
<1>3. chosen \in [Procs -> VFSs \cup {None}] /\ calls \in CallLists
      /\ ran \in [DOMAIN calls -> Seq(Works)]
    BY DEF SelectionTypeOK, ListType
<1>4. /\ selectionFile \in since
      /\ \A q \in Workers \cup {Caller} : chosen[q] \in {None, home} \cup since
    BY DEF WhereInv, RecentSelections
<1>5. Selected(p) \in {home} \cup since
    BY <1>4 DEF Selected
<1>6. selectionFile' \in since' /\ since \subseteq since'
    BY <1>1
<1>7. \A q \in Workers \cup {Caller} : chosen'[q] \in {None, home} \cup since'
    <2>1. \/ chosen' = chosen
          \/ c.kind = "select" /\ chosen' = [chosen EXCEPT ![p] = c.vfs]
          \/ chosen' = [chosen EXCEPT ![p] = Selected(p)]
        BY DEF Call, Selects, Restored
    <2>2. c.kind = "select" => c.vfs \in since'
        BY <1>1
    <2> HIDE DEF c
    <2>3. \A q \in Procs : \/ chosen'[q] = chosen[q]
                           \/ c.kind = "select" /\ chosen'[q] = c.vfs
                           \/ chosen'[q] = Selected(p)
        BY <1>3, <2>1
    <2> QED BY <1>2, <1>4, <1>5, <1>6, <2>2, <2>3
<1>8. RecentSelections'
    BY <1>6, <1>7 DEF RecentSelections
<1>9. WorksOn(p, c) \in IF c.vfs = None THEN {home} \cup since' ELSE {c.vfs, None}
    BY <1>5, <1>6 DEF WorksOn
<1>10. PICK x \in Works : x = WorksOn(p, c)
    BY <1>2, <1>3, WorksOnOne, Zenon
<1>11. /\ \A n \in DOMAIN ran'[i] : ran'[i][n] = x \/ (n \in DOMAIN ran[i] /\ ran'[i][n] = ran[i][n])
       /\ \A j \in DOMAIN calls : j # i => ran'[j] = ran[j]
    <2>1. ran' = [ran EXCEPT ![i] = Append(ran[i], x)]
        BY <1>1, <1>10, Zenon
    <2> HIDE DEF Works
    <2> QED BY <1>3, <2>1, RunsOnce
<1>12. WorksWhereItShould'
    <2>1. SUFFICES ASSUME NEW j \in DOMAIN calls, NEW n \in DOMAIN ran'[j]
                   PROVE  IF calls[j].vfs = None THEN ran'[j][n] \in {home} \cup since'
                                                 ELSE ran'[j][n] \in {calls[j].vfs, None}
        BY DEF WorksWhereItShould
    <2>2. n \in DOMAIN ran[j] =>
             IF calls[j].vfs = None THEN ran[j][n] \in {home} \cup since'
                                    ELSE ran[j][n] \in {calls[j].vfs, None}
        BY <1>6 DEF WhereInv, WorksWhereItShould
    <2>3. CASE j # i
        BY <1>11, <2>1, <2>2, <2>3
    <2>4. CASE j = i /\ ran'[i][n] = x
        BY <1>9, <1>10, <2>4
    <2>5. CASE j = i /\ n \in DOMAIN ran[i] /\ ran'[i][n] = ran[i][n]
        BY <2>2, <2>5
    <2> QED BY <1>11, <2>1, <2>3, <2>4, <2>5
<1> QED BY <1>8, <1>12 DEF WhereInv

\* Every step keeps the account of what a worker has selected.
LEMMA WhereStep == SelectionTypeOK /\ ListInv /\ WhereInv /\ [Next]_vars => WhereInv'
<1> SUFFICES ASSUME SelectionTypeOK, ListInv, WhereInv, [Next]_vars PROVE WhereInv'
    OBVIOUS
<1> USE SelectionConstantsOK, DispatchConstantsOK
<1>0. ListType /\ chosen \in [Procs -> VFSs \cup {None}]
    BY DEF ListInv, SelectionTypeOK
<1>1. ASSUME NEW p \in Users, UserStep(p) PROVE WhereInv'
    <2>1. UNCHANGED <<calls, phase, ran, home>>
          /\ since' = IF phase = "before" THEN {} ELSE since \cup {selectionFile'}
        BY <1>1 DEF UserStep
    <2>2. \E v \in VFSs \cup {None} : chosen' = chosen \/ chosen' = [chosen EXCEPT ![p] = v]
        <3>1. CASE Crash(p)
            BY <3>1 DEF Crash
        <3>2. CASE Persist(p)
            <4>1. making[p].vfs \in VFSs /\ chosen' = [chosen EXCEPT ![p] = making[p].vfs]
                BY <3>2 DEF Persist, Selects, IsAt, SelectionTypeOK
            <4> QED BY <4>1
        <3>3. CASE UNCHANGED chosen
            BY <3>3
        <3> QED BY <1>1, <3>1, <3>2, <3>3
                DEF UserStep, Use, MakeVFS, SelectVFS, Link, Exclusive, Write
    <2>3. \A w \in Workers : chosen'[w] = chosen[w]
        BY <1>0, <2>2
    <2>4. CASE phase = "before"
        <3>1. RecentSelections'
            BY <2>1, <2>3, <2>4 DEF WhereInv, RecentSelections
        <3>2. WorksWhereItShould'
            BY <2>1, <2>4 DEF WhereInv, RecentSelections, WorksWhereItShould
        <3> QED BY <3>1, <3>2 DEF WhereInv
    <2>5. CASE phase # "before"
        <3>1. p # Caller
            BY <1>1, <2>5 DEF UserStep
        <3>2. chosen'[Caller] = chosen[Caller]
            BY <1>0, <2>2, <3>1
        <3> QED BY <1>0, <2>1, <2>3, <2>5, <3>2, StaysRecent
    <2> QED BY <2>4, <2>5
<1>2. CASE Dispatch
    <2>1. /\ phase = "before" /\ phase' \in {"pool", "here"} /\ calls' = calls /\ ran' = ran
          /\ selectionFile' = selectionFile /\ since' = {selectionFile} /\ home' = Selected(Caller)
          /\ \E fork \in BOOLEAN :
                chosen' = [q \in Procs |-> IF q \in Workers /\ fork THEN chosen[Caller] ELSE chosen[q]]
        BY <1>2 DEF Dispatch
    <2>2. \A w \in Workers \cup {Caller} : chosen'[w] \in {None, chosen[Caller]}
        BY <2>1 DEF WhereInv, RecentSelections
    <2>3. chosen[Caller] \in {None, home'}
        BY <2>1 DEF Selected
    <2>4. RecentSelections'
        BY <2>1, <2>2, <2>3 DEF RecentSelections
    <2>5. WorksWhereItShould'
        BY <2>1 DEF WhereInv, RecentSelections, WorksWhereItShould
    <2> QED BY <2>4, <2>5 DEF WhereInv
<1>3. CASE Collect \/ \E w \in Workers : Die(w)
    <2>1. /\ phase = "pool" /\ phase' # "before" /\ UNCHANGED <<calls, ran, home, since, selectionFile>>
          /\ \A q \in Procs : chosen'[q] \in {chosen[q], None}
        BY <1>0, <1>3 DEF Collect, Die
    <2>2. selectionFile \in since
        BY <2>1 DEF WhereInv, RecentSelections
    <2> QED BY <1>0, <2>1, <2>2, StaysRecent
<1>4. CASE RunHere
    BY <1>0, <1>4, CallWhere DEF RunHere
<1>5. ASSUME NEW w \in Workers, RunInWorker(w) PROVE WhereInv'
    <2>1. hands[w].next \in DOMAIN calls /\ Call(w, hands[w].next)
        BY <1>5 DEF RunInWorker, More, Members
    <2>2. phase = "pool" /\ UNCHANGED <<calls, phase, home>>
        BY <1>5 DEF RunInWorker
    <2> QED BY <1>0, <2>1, <2>2, CallWhere
<1>6. CASE UNCHANGED <<selectionVars, calls, ran, home, since>> /\ (phase' = phase)
    BY <1>6 DEF WhereInv, RecentSelections, WorksWhereItShould, selectionVars
<1>7. ASSUME NEW w \in Workers, Take(w) \/ Return(w) PROVE WhereInv'
    BY <1>6, <1>7 DEF Take, Return
<1>8. CASE UNCHANGED vars
    BY <1>6, <1>8 DEF vars, dispatchVars
<1> QED BY <1>1, <1>2, <1>3, <1>4, <1>5, <1>7, <1>8 DEF Next, PoolStep

\* A call works on the VFS that it names or on none, and one that names none works on the
\* caller's selection or on one persisted since, whatever the workers ran before it
\* (config.py:44-62, api.py:267-273).
THEOREM CallsWorkWhereTheyShould == Spec => []WorksWhereItShould
<1>1. Init => WhereInv
    BY SelectionConstantsOK, DispatchConstantsOK
       DEF Init, SelectionInit, WhereInv, RecentSelections, WorksWhereItShould
<1>2. SelInv => SelectionTypeOK
    BY DEF SelInv
<1>3. WhereInv => WorksWhereItShould
    BY DEF WhereInv
<1> QED BY InitOK, InitAnswered, SelectionStep, AnswersStep, WhereStep, <1>1, <1>2, <1>3, PTL
        DEF Spec
=============================================================================
