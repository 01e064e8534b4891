------------------------ MODULE WriteBatching_proofs ------------------------
(***************************************************************************)
(* Machine-checked theorems about WriteBatching, for any number of threads,   *)
(* timers and VFS files, any batch size and any bounds.                       *)
(***************************************************************************)
EXTENDS WriteBatching, FiniteSetTheorems, SequenceTheorems, TLAPS

\* A thread or timer is in flush_key; it works on the batch it has claimed.
Flushing(a) == pc[a] \in {"take", "commit", "publish"}
Holds(a)    == pc[a] \in {"commit", "publish"}
\* a is at a label, or comes back to it from flush_key.
Heads(a, label) == At(a, label) \/ (Flushing(a) /\ ret[a] = label)

\* t has issued a mutation that is not in a batch or in the VFS yet.
Carries(t) == At(t, "check") \/ Heads(t, "append") \/ Heads(t, "direct")
Appended   == UNION {InBatch(b) : b \in BatchIds}

\* Batch numbers are those of batches that exist, and a batch is looked for where it is.
IdInv ==
    /\ \A k \in Keys : pending[k] <= made /\ (pending[k] # None => target[pending[k]] = k)
    /\ \A a \in Agents : Holds(a) => cur[a] \in 1..made
    /\ \A t \in Threads : At(t, "take") =>
          expect[t] <= made /\ (expect[t] # None => target[expect[t]] = key[t])
    /\ \A b \in BatchIds : b > made => calls[b] = <<>>
    /\ \A x \in Timers : pc[x] \in {"idle", "commit", "publish"} /\ ret[x] = "idle"
    /\ \A a \in Agents : ret[a] \in {"idle", "append", "observe", "direct", "next_key"}

\* A mutation that a thread carries is its own and in no batch; every batch was made for
\* one that is.
OpInv ==
    /\ \A t \in Threads : Carries(t) =>
          op[t] \in 1..issued /\ author[op[t]] = t /\ op[t] \notin Appended
    /\ Appended \subseteq 1..issued
    /\ made <= Cardinality(Appended)

BaseInv == TypeOK /\ IdInv /\ OpInv

-----------------------------------------------------------------------------
(***************************************************************************)
(* Types.                                                                  *)
(***************************************************************************)
\* A set of numbers up to n is finite; one that misses a number has fewer than n.
LEMMA FewerThan ==
    ASSUME NEW n \in Nat, NEW S \in SUBSET (1..n)
    PROVE  /\ IsFiniteSet(S) /\ Cardinality(S) \in Nat
           /\ \A e \in (1..n) \ S : Cardinality(S) < n
<1>1. IsFiniteSet(1..n) /\ Cardinality(1..n) = n
    <2>1. 1 \in Int /\ n \in Int
        OBVIOUS
    <2>2. IsFiniteSet(1..n) /\ Cardinality(1..n) = IF 1 > n THEN 0 ELSE n - 1 + 1
        BY <2>1, FS_Interval, Zenon
    <2> QED BY <2>2
<1>2. IsFiniteSet(S) /\ Cardinality(S) <= n
    BY <1>1, FS_Subset
<1>3. Cardinality(S) \in Nat
    BY <1>2, FS_CardinalityType
<1>4. ASSUME NEW e \in (1..n) \ S PROVE Cardinality(S) # n
    BY <1>1, <1>4, FS_Subset
<1> QED BY <1>2, <1>3, <1>4

\* What a sequence of mutations holds; an append adds one.
LEMMA RangeOfBatch == \A S : \A s \in Seq(S) :
    /\ Range(s) \subseteq S
    /\ \A e \in S : Append(s, e) \in Seq(S) /\ Range(Append(s, e)) = Range(s) \cup {e}
<1> SUFFICES ASSUME NEW S, NEW s \in Seq(S)
             PROVE  /\ Range(s) \subseteq S
                    /\ \A e \in S : /\ Append(s, e) \in Seq(S)
                                    /\ Range(Append(s, e)) = Range(s) \cup {e}
    OBVIOUS
<1>1. Range(s) \subseteq S
    BY DEF Range
<1>2. ASSUME NEW e \in S PROVE Append(s, e) \in Seq(S) /\ Range(Append(s, e)) = Range(s) \cup {e}
    <2>1. /\ DOMAIN Append(s, e) = DOMAIN s \cup {Len(s) + 1}
          /\ \A i \in DOMAIN s : Append(s, e)[i] = s[i]
          /\ Append(s, e)[Len(s) + 1] = e
        OBVIOUS
    <2> QED BY <2>1 DEF Range
<1> QED BY <1>1, <1>2

\* A thread that appends finds a number for a new batch.
LEMMA RoomForBatch ==
    ASSUME BaseInv, NEW t \in Threads, At(t, "append")
    PROVE  made < issued /\ made + 1 \in BatchIds
<1>1. /\ op[t] \in 1..issued /\ op[t] \notin Appended /\ Appended \subseteq 1..issued
      /\ made <= Cardinality(Appended) /\ issued \in Nat /\ issued <= MaxIssued /\ made \in Nat
    BY BatchConstantsOK DEF BaseInv, OpInv, Carries, Heads, TypeOK
<1>2. Appended \in SUBSET (1..issued)
    BY <1>1
<1>3. Cardinality(Appended) \in Nat /\ Cardinality(Appended) < issued
    BY <1>1, <1>2, FewerThan
<1> QED BY <1>1, <1>3, BatchConstantsOK DEF BatchIds

\* Agents, labels and numbers by kind.
LEMMA Names ==
    /\ Threads \subseteq Agents /\ Timers \subseteq Agents
    /\ {"idle", "check", "append", "take", "commit", "publish", "next_key", "wait", "flushed",
        "observe", "direct"} \subseteq Labels
    /\ 0 \in Ops \cup {0} /\ None \in BatchIds \cup {None}
BY DEF Agents, Labels

\* The parts of TypeOK: what threads share, where each of them is, and what it keeps.
SharedTyped ==
    /\ enabled \in BOOLEAN
    /\ pending \in [Keys -> BatchIds \cup {None}]
    /\ calls \in [BatchIds -> Seq(Ops)]
    /\ target \in [BatchIds -> Keys]
    /\ made \in 0..MaxIssued
    /\ armed \subseteq BatchIds /\ inflight \subseteq BatchIds /\ rejected \subseteq BatchIds
    /\ failures \in Nat
    /\ log \in [Keys -> Seq(Ops)]
PlaceTyped ==
    /\ pc \in [Agents -> Labels] /\ ret \in [Agents -> Labels]
    /\ ask \in [Agents -> {"write", "timer", "read", "transact", "recover", "flush", "disable"}]
    /\ key \in [Agents -> Keys]
    /\ cur \in [Agents -> BatchIds \cup {None}]
    /\ expect \in [Agents -> BatchIds \cup {None}]
    /\ todo \in [Agents -> SUBSET Keys]
KeptTyped ==
    /\ before \in [Agents -> Nat]
    /\ bad \in [Agents -> BOOLEAN]
    /\ owed \in [Agents -> SUBSET Ops]
CountTyped ==
    /\ op \in [Agents -> Ops \cup {0}]
    /\ issued \in 0..MaxIssued /\ asked \in 0..MaxAsked /\ faults \in 0..MaxFaults
    /\ author \in [Ops -> Threads]

\* The type invariant by its parts.
LEMMA TypeParts == TypeOK <=> SharedTyped /\ PlaceTyped /\ KeptTyped /\ CountTyped
BY DEF TypeOK, SharedTyped, PlaceTyped, KeptTyped, CountTyped

\* The types hold at the start.
LEMMA TypeInit == Init => TypeOK
<1> SUFFICES ASSUME Init PROVE TypeOK
    OBVIOUS
<1> USE BatchConstantsOK
<1>1. (CHOOSE k \in Keys : TRUE) \in Keys /\ (CHOOSE t \in Threads : TRUE) \in Threads
    OBVIOUS
<1>2. SharedTyped
    BY <1>1 DEF Init, SharedTyped, None
<1>3. PlaceTyped
    BY <1>1 DEF Init, PlaceTyped, Labels, None
<1>4. KeptTyped /\ CountTyped
    BY <1>1 DEF Init, KeptTyped, CountTyped
<1> QED BY <1>2, <1>3, <1>4, TypeParts

\* Only appending, claiming, committing and ending a flush change what is shared.
LEMMA SharedStep == BaseInv /\ [Next]_vars => SharedTyped'
<1> SUFFICES ASSUME BaseInv, [Next]_vars PROVE SharedTyped'
    OBVIOUS
<1> USE BatchConstantsOK, Names DEF SharedTyped
<1>a. SharedTyped /\ PlaceTyped /\ CountTyped
    BY TypeParts DEF BaseInv
<1>1. CASE UNCHANGED <<queue, log, rejected>>
    BY <1>a, <1>1 DEF queue
<1>2. ASSUME NEW t \in Threads, AppendCall(t) PROVE SharedTyped'
    <2>1. made + 1 \in BatchIds
        BY <1>2, RoomForBatch DEF AppendCall
    <2>2. op[t] \in Ops /\ key[t] \in Keys /\ made + 1 \in 0..MaxIssued
        BY <1>2, <1>a, <2>1
        DEF AppendCall, BaseInv, OpInv, Carries, Heads, Ops, PlaceTyped, CountTyped, BatchIds
    <2> DEFINE b == IF pending[key[t]] = None THEN made + 1 ELSE pending[key[t]]
    <2>3. b \in BatchIds
        BY <1>a, <2>1, <2>2
    <2> HIDE DEF b
    <2>4. /\ pending' = [pending EXCEPT ![key[t]] = b]
          /\ calls' = [calls EXCEPT ![b] = Append(calls[b], op[t])]
          /\ made' \in {made, made + 1}
          /\ target' = [target EXCEPT ![b] = key[t]]
          /\ armed' \subseteq armed \cup {b}
          /\ UNCHANGED <<enabled, inflight, failures, log, rejected>>
        BY <1>2 DEF AppendCall, Scheduled, Queued, b
    <2>5. Append(calls[b], op[t]) \in Seq(Ops)
        BY <1>a, <2>2, <2>3
    <2> QED BY <1>a, <2>2, <2>3, <2>4, <2>5
<1>3. ASSUME NEW b \in BatchIds, NEW k \in Keys,
             /\ pending' = [pending EXCEPT ![k] = None] \/ UNCHANGED pending
             /\ inflight' \subseteq inflight \cup {b} /\ armed' \subseteq armed
             /\ UNCHANGED <<enabled, calls, target, made, failures, log, rejected>>
      PROVE  SharedTyped'
    BY <1>a, <1>3
<1>4. ASSUME NEW t \in Threads, Take(t) PROVE SharedTyped'
    <2>1. key[t] \in Keys /\ (pending[key[t]] # None => pending[key[t]] \in BatchIds)
        BY <1>a DEF PlaceTyped
    <2>2. CASE Claimable(pending[key[t]], expect[t])
        BY <1>3, <1>4, <2>1, <2>2 DEF Take, Claim, Claimable
    <2>3. CASE ~Claimable(pending[key[t]], expect[t])
        BY <1>1, <1>4, <2>3 DEF Take, queue
    <2> QED BY <2>2, <2>3
<1>5. ASSUME NEW x \in Timers, NEW b \in BatchIds, TimerFires(x, b) PROVE SharedTyped'
    <2>1. target[b] \in Keys
        BY <1>a
    <2> QED BY <1>3, <1>5, <2>1 DEF TimerFires, Claim
<1>6. ASSUME NEW a \in Agents, CommitBatch(a) PROVE SharedTyped'
    <2>1. cur[a] \in BatchIds
        BY <1>a, <1>6 DEF CommitBatch, BaseInv, IdInv, Holds, BatchIds, At
    <2>2. calls[cur[a]] \in Seq(Ops) /\ target[cur[a]] \in Keys
        BY <1>a, <2>1
    <2>3. log[target[cur[a]]] \o calls[cur[a]] \in Seq(Ops)
        BY <1>a, <2>2
    <2> QED BY <1>a, <1>6, <2>2, <2>3 DEF CommitBatch, queue
<1>7. ASSUME NEW a \in Agents, RejectBatch(a) \/ PublishFails(a) PROVE SharedTyped'
    <2>1. cur[a] \in BatchIds
        BY <1>a, <1>7 DEF RejectBatch, PublishFails, BaseInv, IdInv, Holds, BatchIds, At
    <2> QED BY <1>a, <1>7, <2>1 DEF RejectBatch, PublishFails, FlushFails
<1>8. ASSUME NEW a \in Agents, Publish(a) PROVE SharedTyped'
    BY <1>a, <1>8 DEF Publish
<1>9. ASSUME NEW t \in Threads, Direct(t) PROVE SharedTyped'
    <2>1. op[t] \in Ops /\ key[t] \in Keys
        BY <1>a, <1>9 DEF Direct, BaseInv, OpInv, Carries, Heads, Ops, PlaceTyped, CountTyped
    <2>2. Append(log[key[t]], op[t]) \in Seq(Ops)
        BY <1>a, <2>1
    <2> QED BY <1>a, <1>9, <2>1, <2>2 DEF Direct, queue
<1>10. ASSUME NEW t \in Threads, Enable(t) \/ FlushReturns(t) PROVE SharedTyped'
    BY <1>a, <1>10 DEF Enable, FlushReturns
<1>11. ASSUME NEW t \in Threads,
              \/ \E k \in Keys : Write(t, k) \/ Recover(t, k)
              \/ \E k \in Keys, c \in Asks : Barrier(t, k, c)
              \/ \E c \in Asks : FlushAll(t, c)
              \/ Check(t) \/ NextKey(t) \/ WaitInflight(t) \/ Observe(t)
       PROVE  SharedTyped'
    BY <1>1, <1>11 DEF Write, Recover, Barrier, FlushAll, Check, NextKey, WaitInflight, Observe
<1> QED BY <1>1, <1>2, <1>4, <1>5, <1>6, <1>7, <1>8, <1>9, <1>10, <1>11
        DEF Next, Call, Step, TimerStep, Enqueue, Flush, Finish, Quiescent, vars

\* Every step leaves an agent at a label, with keys, batches and labels it knows.
LEMMA PlaceStep == BaseInv /\ [Next]_vars => PlaceTyped'
<1> SUFFICES ASSUME BaseInv, [Next]_vars PROVE PlaceTyped'
    OBVIOUS
<1> USE BatchConstantsOK, Names DEF PlaceTyped
<1>a. PlaceTyped /\ SharedTyped
    BY TypeParts DEF BaseInv
<1>1. CASE UNCHANGED <<pc, ret, ask, key, cur, expect, todo>>
    BY <1>a, <1>1
<1>2. ASSUME NEW t \in Threads, NEW k \in Keys, Write(t, k) \/ Recover(t, k) PROVE PlaceTyped'
    BY <1>a, <1>2 DEF Write, Recover, Goto
<1>3. ASSUME NEW t \in Threads, NEW k \in Keys, NEW c \in Asks, Barrier(t, k, c)
      PROVE  PlaceTyped'
    BY <1>a, <1>3 DEF Barrier, Goto, BarrierLabel
<1>4. ASSUME NEW t \in Threads, NEW c \in Asks, FlushAll(t, c) PROVE PlaceTyped'
    BY <1>a, <1>4 DEF FlushAll, Goto
<1>5. ASSUME NEW t \in Threads, Check(t) PROVE PlaceTyped'
    BY <1>a, <1>5 DEF Check, Goto
<1>6. ASSUME NEW t \in Threads, AppendCall(t) PROVE PlaceTyped'
    <2>1. key[t] \in Keys
        BY <1>a
    <2>2. pending[key[t]] \in BatchIds \cup {None} /\ made + 1 \in BatchIds
        BY <1>a, <1>6, <2>1, RoomForBatch DEF AppendCall, SharedTyped
    <2>3. PICK b \in BatchIds, l \in {"take", "idle"} :
            /\ expect' = [expect EXCEPT ![t] = b]
            /\ ret' = [ret EXCEPT ![t] = "idle"]
            /\ pc' = [pc EXCEPT ![t] = l]
            /\ UNCHANGED <<ask, key, cur, todo>>
        BY <1>6, <2>2 DEF AppendCall, Goto
    <2> QED BY <1>a, <2>3
<1>7. ASSUME NEW a \in Agents, NEW b \in BatchIds, NEW k \in Keys, Claim(a, b, k),
             UNCHANGED <<ret, ask, expect, todo>>,
             UNCHANGED key \/ key' = [key EXCEPT ![a] = k]
      PROVE  PlaceTyped'
    BY <1>a, <1>7 DEF Claim, Goto
<1>8. ASSUME NEW t \in Threads, Take(t) PROVE PlaceTyped'
    <2>1. key[t] \in Keys /\ ret[t] \in Labels
        BY <1>a
    <2>2. pending[key[t]] # None => pending[key[t]] \in BatchIds
        BY <1>a, <2>1 DEF SharedTyped
    <2>3. CASE Claimable(pending[key[t]], expect[t])
        BY <1>7, <1>8, <2>1, <2>2, <2>3 DEF Take, Claimable
    <2>4. CASE ~Claimable(pending[key[t]], expect[t])
        BY <1>a, <1>8, <2>1, <2>4 DEF Take, Goto
    <2> QED BY <2>3, <2>4
<1>9. ASSUME NEW x \in Timers, NEW b \in BatchIds, TimerFires(x, b) PROVE PlaceTyped'
    <2>1. target[b] \in Keys
        BY <1>a DEF SharedTyped
    <2>2. CASE pending[target[b]] = b
        BY <1>7, <1>9, <2>1, <2>2 DEF TimerFires
    <2>3. CASE pending[target[b]] # b
        BY <1>a, <1>9, <2>1, <2>3 DEF TimerFires
    <2> QED BY <2>2, <2>3
<1>10. ASSUME NEW a \in Agents, Flush(a) PROVE PlaceTyped'
    <2>1. ret[a] \in Labels
        BY <1>a
    <2>2. PICK l \in Labels : /\ pc' = [pc EXCEPT ![a] = l]
                              /\ UNCHANGED <<ret, ask, key, cur, expect, todo>>
        <3>1. CASE CommitBatch(a) \/ Publish(a)
            BY <2>1, <3>1 DEF CommitBatch, Publish, Goto, mine
        <3>2. CASE RejectBatch(a) \/ PublishFails(a)
            BY <2>1, <3>2 DEF RejectBatch, PublishFails, FlushFails, Goto
        <3> QED BY <1>10, <3>1, <3>2 DEF Flush
    <2> QED BY <1>a, <2>2
<1>11. ASSUME NEW t \in Threads, NextKey(t) PROVE PlaceTyped'
    BY <1>a, <1>11 DEF NextKey, Goto
<1>12. ASSUME NEW t \in Threads, WaitInflight(t) \/ FlushReturns(t) \/ Observe(t) \/ Direct(t)
       PROVE  PlaceTyped'
    BY <1>a, <1>12 DEF WaitInflight, FlushReturns, Observe, Direct, Goto, mine
<1>13. ASSUME NEW t \in Threads, Enable(t) PROVE PlaceTyped'
    BY <1>1, <1>13 DEF Enable, mine
<1>14. CASE UNCHANGED vars
    BY <1>1, <1>14 DEF vars, mine
<1> QED BY <1>2, <1>3, <1>4, <1>5, <1>6, <1>8, <1>9, <1>10, <1>11, <1>12, <1>13, <1>14
        DEF Next, Call, Step, TimerStep, Enqueue, Finish, Quiescent

\* What the agents keep for flush_all, and the counters the bounds are about.
LEMMA KeptStep == BaseInv /\ [Next]_vars => KeptTyped' /\ CountTyped'
<1> SUFFICES ASSUME BaseInv, [Next]_vars PROVE KeptTyped' /\ CountTyped'
    OBVIOUS
<1> USE BatchConstantsOK, Names DEF KeptTyped, CountTyped
<1>a. SharedTyped /\ KeptTyped /\ CountTyped
    BY TypeParts DEF BaseInv
<1>1. CASE UNCHANGED <<before, bad, owed, op, issued, asked, faults, author>>
    BY <1>a, <1>1
<1>2. ASSUME NEW t \in Threads, Issue(t), UNCHANGED <<before, owed, faults>>,
             asked' \in 0..MaxAsked, bad' \in {bad, [bad EXCEPT ![t] = FALSE]}
      PROVE  KeptTyped' /\ CountTyped'
    <2>1. issued + 1 \in Ops
        BY <1>a, <1>2 DEF Issue, Ops
    <2>2. KeptTyped'
        BY <1>a, <1>2
    <2>3. /\ op' = [op EXCEPT ![t] = issued + 1] /\ author' = [author EXCEPT ![issued + 1] = t]
          /\ issued' = issued + 1 /\ issued + 1 \in 0..MaxIssued
        BY <1>2, <2>1 DEF Issue, Ops
    <2>4. CountTyped'
        BY <1>a, <1>2, <2>1, <2>3
    <2> QED BY <2>2, <2>4
<1>3. ASSUME NEW t \in Threads, NEW k \in Keys, Write(t, k) \/ Recover(t, k)
      PROVE  KeptTyped' /\ CountTyped'
    BY <1>a, <1>2, <1>3 DEF Write, Recover
<1>4. ASSUME NEW t \in Threads, NEW k \in Keys, NEW c \in Asks, Barrier(t, k, c)
      PROVE  KeptTyped' /\ CountTyped'
    <2>1. CASE c = "transact"
        <3>1. /\ Issue(t) /\ asked < MaxAsked /\ asked' = asked + 1
              /\ bad' = [bad EXCEPT ![t] = FALSE] /\ UNCHANGED <<before, owed, faults>>
            BY <1>4, <2>1 DEF Barrier
        <3>2. asked' \in 0..MaxAsked
            BY <1>a, <3>1
        <3> QED BY <1>2, <3>1, <3>2
    <2>2. CASE c # "transact"
        BY <1>a, <1>4, <2>2 DEF Barrier
    <2> QED BY <2>1, <2>2
<1>5. ASSUME NEW t \in Threads, NEW c \in Asks, FlushAll(t, c)
      PROVE  KeptTyped' /\ CountTyped'
    <2>1. Waiting \in SUBSET Ops
        <3>1. \A b \in BatchIds : InBatch(b) \subseteq Ops
            BY <1>a, RangeOfBatch DEF SharedTyped, InBatch
        <3>2. inflight \cup (Range(pending) \ {None}) \subseteq BatchIds
            BY <1>a DEF SharedTyped, Range
        <3> QED BY <3>1, <3>2 DEF Waiting
    <2>2. failures \in Nat
        BY <1>a DEF SharedTyped
    <2>3. Waiting \ Committed \in SUBSET Ops
        BY <2>1
    <2> QED BY <1>a, <1>5, <2>2, <2>3 DEF FlushAll
<1>6. ASSUME NEW t \in Threads, Check(t) \/ NextKey(t) \/ WaitInflight(t) \/ FlushReturns(t)
      PROVE  KeptTyped' /\ CountTyped'
    <2>1. CASE WaitInflight(t)
        <3>1. PICK v \in BOOLEAN : v = (bad[t] \/ failures > before[t])
            OBVIOUS
        <3>2. bad' = [bad EXCEPT ![t] = v] /\ UNCHANGED <<before, owed, op, count>>
            BY <2>1, <3>1 DEF WaitInflight
        <3> QED BY <1>a, <3>2 DEF count
    <2>2. CASE ~WaitInflight(t)
        BY <1>a, <1>6, <2>2 DEF Check, NextKey, FlushReturns, count
    <2> QED BY <2>1, <2>2
<1>7. ASSUME NEW a \in Agents, RejectBatch(a) \/ PublishFails(a)
      PROVE  KeptTyped' /\ CountTyped'
    <2>1. /\ faults < MaxFaults /\ faults' = faults + 1 /\ bad' = [bad EXCEPT ![a] = TRUE]
          /\ UNCHANGED <<before, owed, op, issued, asked, author>>
        BY <1>7 DEF RejectBatch, PublishFails, FlushFails
    <2>2. faults' \in 0..MaxFaults
        BY <1>a, <2>1
    <2> QED BY <1>a, <2>1, <2>2
<1>8. ASSUME NEW t \in Threads, Enable(t) PROVE KeptTyped' /\ CountTyped'
    BY <1>a, <1>8 DEF Enable, mine
<1>9. ASSUME NEW a \in Agents,
             \/ AppendCall(a) \/ Take(a) \/ CommitBatch(a) \/ Publish(a) \/ Observe(a)
             \/ Direct(a) \/ \E b \in BatchIds : TimerFires(a, b)
      PROVE  KeptTyped' /\ CountTyped'
    BY <1>1, <1>9 DEF AppendCall, Take, CommitBatch, Publish, Observe, Direct, TimerFires,
                      mine, count
<1>10. CASE UNCHANGED vars
    BY <1>1, <1>10 DEF vars, mine, count
<1> QED BY <1>3, <1>4, <1>5, <1>6, <1>7, <1>8, <1>9, <1>10
        DEF Next, Call, Step, TimerStep, Enqueue, Flush, Finish, Quiescent

\* Every step keeps the types.
LEMMA TypeStep == BaseInv /\ [Next]_vars => TypeOK'
<1> SUFFICES ASSUME BaseInv, [Next]_vars PROVE TypeOK'
    OBVIOUS
<1>1. SharedTyped' /\ PlaceTyped' /\ KeptTyped' /\ CountTyped'
    BY SharedStep, PlaceStep, KeptStep
<1>2. (SharedTyped /\ PlaceTyped /\ KeptTyped /\ CountTyped)' <=> TypeOK'
    BY TypeParts, PTL
<1> QED BY <1>1, <1>2

-----------------------------------------------------------------------------
(***************************************************************************)
(* Batch numbers and the mutations threads carry.                            *)
(***************************************************************************)
\* What an append does: the batch it makes or finds, and the mutation it adds.
LEMMA AppendFacts ==
    ASSUME BaseInv, NEW t \in Threads, AppendCall(t)
    PROVE  \E b \in BatchIds, l \in {"take", "idle"} :
              /\ b = IF pending[key[t]] = None THEN made + 1 ELSE pending[key[t]]
              /\ made' = IF pending[key[t]] = None THEN made + 1 ELSE made
              /\ pending' = [pending EXCEPT ![key[t]] = b]
              /\ calls' = [calls EXCEPT ![b] = Append(calls[b], op[t])]
              /\ target' = [target EXCEPT ![b] = key[t]]
              /\ expect' = [expect EXCEPT ![t] = b]
              /\ ret' = [ret EXCEPT ![t] = "idle"]
              /\ pc' = [pc EXCEPT ![t] = l]
              /\ pc[t] = "append" /\ op[t] \in Ops
              /\ l = "idle" => Len(calls[b]) + 1 < MaxOperations
              /\ UNCHANGED <<key, op, cur, inflight, log, rejected, count>>
<1>a. SharedTyped /\ PlaceTyped /\ CountTyped
    BY TypeParts DEF BaseInv
<1>1. key[t] \in Keys
    BY <1>a, Names DEF PlaceTyped
<1>2. pending[key[t]] \in BatchIds \cup {None} /\ made + 1 \in BatchIds
    BY <1>1, <1>a, RoomForBatch DEF AppendCall, SharedTyped
<1>3. op[t] \in Ops
    BY <1>a, BatchConstantsOK
    DEF AppendCall, BaseInv, OpInv, Carries, Heads, Ops, CountTyped
<1>4. PICK b \in BatchIds : b = IF pending[key[t]] = None THEN made + 1 ELSE pending[key[t]]
    BY <1>2
<1>5. /\ calls' = [calls EXCEPT ![b] = Append(calls[b], op[t])]
      /\ pc' = [pc EXCEPT ![t] = IF TimerOn => Reached(Len(calls[b]) + 1) THEN "take" ELSE "idle"]
    BY <1>4, Zenon DEF AppendCall, Queued, Goto
<1>6. /\ made' = IF pending[key[t]] = None THEN made + 1 ELSE made
      /\ pending' = [pending EXCEPT ![key[t]] = b] /\ target' = [target EXCEPT ![b] = key[t]]
      /\ expect' = [expect EXCEPT ![t] = b] /\ ret' = [ret EXCEPT ![t] = "idle"]
      /\ pc[t] = "append" /\ UNCHANGED <<key, op, cur, inflight, log, rejected, count>>
    BY <1>4 DEF AppendCall, At
<1>7. Len(calls[b]) \in Nat
    BY <1>a DEF SharedTyped
<1>8. CASE TimerOn => Reached(Len(calls[b]) + 1)
    BY <1>3, <1>4, <1>5, <1>6, <1>8
<1>9. CASE ~(TimerOn => Reached(Len(calls[b]) + 1))
    <2>1. Len(calls[b]) + 1 < MaxOperations
        BY <1>7, <1>9, BatchConstantsOK DEF Reached
    <2> QED BY <1>3, <1>4, <1>5, <1>6, <1>9, <2>1
<1> QED BY <1>8, <1>9

\* A step is the step of one agent: the others stay where they are.
OthersStay(a) == \A u \in Agents \ {a} :
    /\ pc'[u] = pc[u] /\ ret'[u] = ret[u] /\ cur'[u] = cur[u]
    /\ expect'[u] = expect[u] /\ key'[u] = key[u] /\ op'[u] = op[u] /\ ask'[u] = ask[u]

\* A step moves one agent and leaves the locals of the others.
LEMMA OneAgentMoves ==
    ASSUME BaseInv, NEW a \in Agents,
           Call(a) \/ Step(a) \/ \E b \in BatchIds : TimerFires(a, b)
    PROVE  OthersStay(a)
<1> USE DEF OthersStay
<1>a. PlaceTyped /\ CountTyped
    BY TypeParts DEF BaseInv
<1> USE DEF PlaceTyped, CountTyped, Goto
<1>1. ASSUME \E k \in Keys : Write(a, k) \/ Recover(a, k) PROVE OthersStay(a)
    BY <1>a, <1>1 DEF Write, Recover, Issue
<1>2. ASSUME \E k \in Keys, c \in Asks : Barrier(a, k, c) PROVE OthersStay(a)
    BY <1>a, <1>2 DEF Barrier, Issue
<1>3. ASSUME \E c \in Asks : FlushAll(a, c) PROVE OthersStay(a)
    BY <1>a, <1>3 DEF FlushAll
<1>4. CASE Check(a) \/ NextKey(a)
    BY <1>a, <1>4 DEF Check, NextKey, count
<1>5. CASE AppendCall(a)
    <2>1. \E l : pc' = [pc EXCEPT ![a] = l]
        BY <1>5 DEF AppendCall
    <2>2. \E b : expect' = [expect EXCEPT ![a] = b]
        BY <1>5 DEF AppendCall
    <2> QED BY <1>a, <1>5, <2>1, <2>2 DEF AppendCall
<1>6. CASE Take(a)
    BY <1>a, <1>6 DEF Take, Claim
<1>7. ASSUME \E b \in BatchIds : TimerFires(a, b) PROVE OthersStay(a)
    BY <1>a, <1>7 DEF TimerFires, Claim
<1>8. CASE Flush(a)
    <2>1. CASE CommitBatch(a) \/ Publish(a)
        BY <1>a, <2>1 DEF CommitBatch, Publish, mine, count
    <2>2. CASE RejectBatch(a) \/ PublishFails(a)
        BY <1>a, <2>2 DEF RejectBatch, PublishFails, FlushFails
    <2> QED BY <1>8, <2>1, <2>2 DEF Flush
<1>9. CASE WaitInflight(a) \/ FlushReturns(a) \/ Observe(a) \/ Direct(a) \/ Enable(a)
    BY <1>a, <1>9 DEF WaitInflight, FlushReturns, Observe, Direct, Enable, mine, count
<1> QED BY <1>1, <1>2, <1>3, <1>4, <1>5, <1>6, <1>7, <1>8, <1>9 DEF Call, Step, Enqueue, Finish

\* Every step keeps batch numbers those of batches that exist.
LEMMA IdStep == BaseInv /\ [Next]_vars => IdInv'
<1> SUFFICES ASSUME BaseInv, [Next]_vars PROVE IdInv'
    OBVIOUS
<1> USE BatchConstantsOK, Names
<1>a. SharedTyped /\ PlaceTyped /\ CountTyped
    BY TypeParts DEF BaseInv
<1>b. IdInv
    BY DEF BaseInv
<1>1. CASE UNCHANGED <<pending, calls, target, made, pc, ret, key, cur, expect>>
    BY <1>b, <1>1 DEF IdInv, Holds, At
\* An agent moves, and at most batches leave the queue.
<1>2. ASSUME NEW a \in Agents, OthersStay(a),
             UNCHANGED <<made, target, calls>>,
             \A j \in Keys : pending'[j] \in {pending[j], None},
             pc'[a] \in {"commit", "publish"} => cur'[a] \in 1..made,
             a \in Timers => pc'[a] \in {"idle", "commit", "publish"} /\ ret'[a] = "idle",
             ret'[a] \in {"idle", "append", "observe", "direct", "next_key"},
             pc'[a] = "take" => expect'[a] = None
      PROVE  IdInv'
    <2>3. made \in Nat
        BY <1>a DEF SharedTyped
    <2>4. \A j \in Keys : pending'[j] <= made' /\ (pending'[j] # None => target'[pending'[j]] = j)
        BY <1>b, <1>2, <2>3 DEF IdInv, None
    <2>5. \A u \in Agents : Holds(u)' => cur'[u] \in 1..made'
        BY <1>b, <1>2 DEF IdInv, Holds, OthersStay
    <2>6. \A u \in Threads : At(u, "take")' =>
             expect'[u] <= made' /\ (expect'[u] # None => target'[expect'[u]] = key'[u])
        BY <1>b, <1>2, <2>3 DEF IdInv, At, None, OthersStay
    <2>7. /\ \A x \in Timers : pc'[x] \in {"idle", "commit", "publish"} /\ ret'[x] = "idle"
          /\ \A u \in Agents : ret'[u] \in {"idle", "append", "observe", "direct", "next_key"}
          /\ \A b \in BatchIds : b > made' => calls'[b] = <<>>
        BY <1>b, <1>2 DEF IdInv, OthersStay
    <2> QED BY <2>4, <2>5, <2>6, <2>7 DEF IdInv
<1>3. ASSUME NEW t \in Threads, AppendCall(t) PROVE IdInv'
    <2>1. PICK b \in BatchIds, l \in {"take", "idle"} :
              /\ b = IF pending[key[t]] = None THEN made + 1 ELSE pending[key[t]]
              /\ made' = IF pending[key[t]] = None THEN made + 1 ELSE made
              /\ pending' = [pending EXCEPT ![key[t]] = b]
              /\ calls' = [calls EXCEPT ![b] = Append(calls[b], op[t])]
              /\ target' = [target EXCEPT ![b] = key[t]]
              /\ expect' = [expect EXCEPT ![t] = b]
              /\ ret' = [ret EXCEPT ![t] = "idle"]
              /\ pc' = [pc EXCEPT ![t] = l]
              /\ UNCHANGED <<key, cur>>
        BY <1>3, AppendFacts
    <2>2. made \in Nat /\ made' \in Nat /\ made <= made' /\ b <= made' /\ key[t] \in Keys
        <3>1. made \in Nat /\ key[t] \in Keys
            BY <1>a DEF SharedTyped, PlaceTyped
        <3>2. pending[key[t]] <= made
            BY <1>b, <3>1 DEF IdInv
        <3> QED BY <2>1, <3>1, <3>2
    \* The batch is new, or it is the one queued for this VFS.
    <2>3. (b <= made => target[b] = key[t]) /\ \A c \in BatchIds : target'[c] = IF c = b THEN key[t] ELSE target[c]
        BY <1>a, <1>b, <2>1, <2>2 DEF IdInv, SharedTyped
    <2>4. \A k \in Keys : pending'[k] <= made' /\ (pending'[k] # None => target'[pending'[k]] = k)
        <3> TAKE k \in Keys
        <3>1. CASE k = key[t]
            BY <1>a, <2>1, <2>2, <2>3, <3>1 DEF SharedTyped
        <3>2. CASE k # key[t]
            <4>1. pending'[k] = pending[k] /\ pending[k] \in BatchIds \cup {None} /\ pending[k] <= made
                BY <1>a, <1>b, <2>1, <3>2 DEF SharedTyped, IdInv
            <4> QED BY <1>b, <2>2, <2>3, <3>2, <4>1 DEF IdInv, BatchIds, None
        <3> QED BY <3>1, <3>2
    <2>5. \A u \in Agents : Holds(u)' => cur'[u] \in 1..made'
        BY <1>a, <1>b, <2>1, <2>2 DEF IdInv, Holds, PlaceTyped
    <2>6. ASSUME NEW u \in Threads, At(u, "take")'
          PROVE  expect'[u] <= made' /\ (expect'[u] # None => target'[expect'[u]] = key'[u])
        <3>1. CASE u = t
            BY <1>a, <2>1, <2>2, <2>3, <3>1 DEF PlaceTyped
        <3>2. CASE u # t
            <4>1. /\ expect'[u] = expect[u] /\ At(u, "take") /\ expect[u] \in BatchIds \cup {None}
                  /\ key'[u] = key[u]
                BY <1>a, <2>1, <2>6, <3>2 DEF PlaceTyped, At
            <4>2. expect[u] <= made /\ (expect[u] # None => target[expect[u]] = key[u])
                BY <1>b, <4>1 DEF IdInv
            <4> QED BY <2>2, <2>3, <4>1, <4>2 DEF BatchIds, None
        <3> QED BY <3>1, <3>2
    <2>7. \A c \in BatchIds : c > made' => calls'[c] = <<>>
        <3> TAKE c \in BatchIds
        <3> HAVE c > made'
        <3>1. c # b /\ c > made
            BY <2>2 DEF BatchIds
        <3> QED BY <1>a, <1>b, <2>1, <3>1 DEF IdInv, SharedTyped
    <2>8. /\ \A x \in Timers : pc'[x] \in {"idle", "commit", "publish"} /\ ret'[x] = "idle"
          /\ \A u \in Agents : ret'[u] \in {"idle", "append", "observe", "direct", "next_key"}
        BY <1>a, <1>b, <2>1 DEF IdInv, PlaceTyped
    <2> QED BY <2>4, <2>5, <2>6, <2>7, <2>8 DEF IdInv
<1>4. ASSUME NEW t \in Threads, ~AppendCall(t), Call(t) \/ Enqueue(t) \/ Finish(t) PROVE IdInv'
    <2>1. OthersStay(t) /\ t \notin Timers
        BY <1>4, OneAgentMoves DEF Step
    <2>2. ret[t] \in {"idle", "append", "observe", "direct", "next_key"} /\ key[t] \in Keys
        BY <1>a, <1>b DEF IdInv, PlaceTyped
    <2>3. CASE Call(t)
        <3>1. CASE Enable(t)
            BY <1>1, <3>1 DEF Enable, mine
        <3>2. ASSUME NEW k \in Keys, Write(t, k) \/ Recover(t, k) PROVE IdInv'
            BY <1>2, <1>a, <2>1, <2>2, <3>2 DEF Write, Recover, queue, Goto, PlaceTyped
        <3>3. ASSUME NEW k \in Keys, NEW c \in Asks, Barrier(t, k, c) PROVE IdInv'
            <4>1. /\ UNCHANGED <<pending, made, target, calls>>
                  /\ expect'[t] = None /\ ret'[t] \in {"observe", "direct"} /\ pc'[t] = "take"
                BY <1>a, <3>3 DEF Barrier, BarrierLabel, queue, Goto, PlaceTyped
            <4> QED BY <1>2, <2>1, <4>1
        <3>4. ASSUME NEW c \in Asks, FlushAll(t, c) PROVE IdInv'
            BY <1>2, <1>a, <2>1, <2>2, <3>4 DEF FlushAll, queue, Goto, PlaceTyped
        <3> QED BY <2>3, <3>1, <3>2, <3>3, <3>4 DEF Call
    <2>4. CASE Take(t)
        <3>1. /\ UNCHANGED <<made, target, calls, expect, ret>>
            BY <2>4 DEF Take
        <3>2. CASE Claimable(pending[key[t]], expect[t])
            <4>1. /\ pending' = [pending EXCEPT ![key[t]] = None]
                  /\ cur' = [cur EXCEPT ![t] = pending[key[t]]] /\ pc' = [pc EXCEPT ![t] = "commit"]
                BY <2>4, <3>2 DEF Take, Claim, Goto
            <4>2. pending[key[t]] \in BatchIds /\ pending[key[t]] <= made
                BY <1>a, <1>b, <2>2, <3>2 DEF SharedTyped, IdInv, Claimable, BatchIds
            <4> QED BY <1>2, <1>a, <2>1, <2>2, <3>1, <4>1, <4>2
                    DEF PlaceTyped, SharedTyped, BatchIds
        <3>3. CASE ~Claimable(pending[key[t]], expect[t])
            <4>1. pc' = [pc EXCEPT ![t] = ret[t]] /\ UNCHANGED pending
                BY <2>4, <3>3 DEF Take, Goto
            <4> QED BY <1>2, <1>a, <2>1, <2>2, <3>1, <4>1 DEF PlaceTyped
        <3> QED BY <3>2, <3>3
    <2>5. CASE Check(t) \/ NextKey(t)
        BY <1>2, <1>a, <2>1, <2>2, <2>5 DEF Check, NextKey, queue, Goto, PlaceTyped
    <2>6. CASE WaitInflight(t) \/ FlushReturns(t) \/ Observe(t) \/ Direct(t)
        BY <1>2, <1>a, <2>1, <2>2, <2>6
        DEF WaitInflight, FlushReturns, Observe, Direct, queue, mine, Goto, PlaceTyped
    <2> QED BY <1>4, <2>3, <2>4, <2>5, <2>6 DEF Enqueue, Finish
<1>5. ASSUME NEW a \in Agents, Flush(a) PROVE IdInv'
    <2>1. OthersStay(a)
        BY <1>5, OneAgentMoves DEF Step
    <2>2. /\ ret[a] \in {"idle", "append", "observe", "direct", "next_key"}
          /\ a \in Timers => ret[a] = "idle"
          /\ Holds(a) => cur[a] \in 1..made
        BY <1>b DEF IdInv
    <2>3. CASE CommitBatch(a)
        BY <1>2, <1>a, <2>1, <2>2, <2>3 DEF CommitBatch, queue, mine, Goto, Holds, At, PlaceTyped
    <2>4. CASE RejectBatch(a) \/ PublishFails(a)
        BY <1>2, <1>a, <2>1, <2>2, <2>4 DEF RejectBatch, PublishFails, FlushFails, Goto, PlaceTyped
    <2>5. CASE Publish(a)
        BY <1>2, <1>a, <2>1, <2>2, <2>5 DEF Publish, mine, Goto, PlaceTyped
    <2> QED BY <1>5, <2>3, <2>4, <2>5 DEF Flush
<1>6. ASSUME NEW x \in Timers, NEW b \in BatchIds, TimerFires(x, b) PROVE IdInv'
    <2>1. OthersStay(x) /\ x \in Agents
        BY <1>6, OneAgentMoves
    <2>2. pc[x] = "idle" /\ ret[x] = "idle" /\ UNCHANGED <<made, target, calls, expect, ret>>
        BY <1>6, <1>b DEF TimerFires, At, IdInv
    <2>3. CASE pending[target[b]] = b
        <3>1. /\ pending' = [pending EXCEPT ![target[b]] = None]
              /\ cur' = [cur EXCEPT ![x] = b] /\ pc' = [pc EXCEPT ![x] = "commit"]
            BY <1>6, <2>3 DEF TimerFires, Claim, Goto
        <3>2. target[b] \in Keys /\ b <= made
            BY <1>a, <1>b, <2>3 DEF SharedTyped, IdInv
        <3> QED BY <1>2, <1>a, <2>1, <2>2, <3>1, <3>2 DEF PlaceTyped, SharedTyped, BatchIds
    <2>4. CASE pending[target[b]] # b
        BY <1>2, <1>6, <2>1, <2>2, <2>4 DEF TimerFires
    <2> QED BY <2>3, <2>4
<1>7. CASE UNCHANGED vars
    BY <1>1, <1>7 DEF vars, queue, mine
<1> QED BY <1>3, <1>4, <1>5, <1>6, <1>7
        DEF Next, Step, TimerStep, Quiescent

\* The mutations in batches are those a call has appended.
LEMMA AppendedGrows ==
    ASSUME BaseInv, NEW t \in Threads, NEW b \in BatchIds, op[t] \in Ops,
           calls' = [calls EXCEPT ![b] = Append(calls[b], op[t])]
    PROVE  /\ \A c \in BatchIds \ {b} : calls'[c] = calls[c] /\ InBatch(c)' = InBatch(c)
           /\ calls'[b] = Append(calls[b], op[t]) /\ InBatch(b)' = InBatch(b) \cup {op[t]}
           /\ Appended' = Appended \cup {op[t]}
<1>a. calls \in [BatchIds -> Seq(Ops)]
    BY TypeParts DEF BaseInv, SharedTyped
<1>1. calls'[b] = Append(calls[b], op[t]) /\ \A c \in BatchIds \ {b} : calls'[c] = calls[c]
    BY <1>a
<1>2. InBatch(b)' = InBatch(b) \cup {op[t]}
    BY <1>a, <1>1, RangeOfBatch DEF InBatch
<1>3. \A c \in BatchIds \ {b} : InBatch(c)' = InBatch(c)
    BY <1>1 DEF InBatch
<1> HIDE DEF InBatch
<1>4. Appended' = Appended \cup {op[t]}
    BY <1>2, <1>3 DEF Appended
<1> QED BY <1>1, <1>2, <1>3, <1>4

\* A call issues a mutation, or the thread carries no more than before; it claims nothing.
LEMMA CallIssues ==
    ASSUME BaseInv, NEW t \in Threads, Call(t)
    PROVE  /\ UNCHANGED <<pending, calls, target, made, inflight, rejected, log, cur>>
           /\ \/ Issue(t)
              \/ UNCHANGED <<issued, author, op>> /\ (Carries(t)' => Carries(t))
           /\ UNCHANGED pc \/ (~Holds(t) /\ ~Holds(t)')
<1>a. PlaceTyped /\ t \in Agents
    BY TypeParts, Names DEF BaseInv
<1> USE DEF Goto, Holds, Carries, Heads, Flushing, At, PlaceTyped
<1>1. ASSUME NEW k \in Keys, Write(t, k) \/ Recover(t, k) PROVE Issue(t) /\ ~Holds(t) /\ ~Holds(t)'
    BY <1>a, <1>1, Names DEF Write, Recover
<1>2. ASSUME NEW k \in Keys, NEW c \in Asks, Barrier(t, k, c)
      PROVE  /\ Issue(t) \/ (UNCHANGED <<issued, author, op>> /\ ~Carries(t)')
             /\ ~Holds(t) /\ ~Holds(t)'
    <2>1. pc[t] = "idle" /\ pc'[t] = "take"
        BY <1>a, <1>2, Names DEF Barrier, BarrierLabel
    <2>2. CASE c = "transact"
        BY <1>2, <2>1, <2>2 DEF Barrier
    <2>3. CASE c # "transact"
        <3>1. ret'[t] = "observe" /\ UNCHANGED <<issued, author, op>>
            BY <1>a, <1>2, <2>3, Names DEF Barrier
        <3> QED BY <2>1, <3>1
    <2> QED BY <2>2, <2>3
<1>3. ASSUME NEW c \in Asks, FlushAll(t, c)
      PROVE  UNCHANGED <<issued, author, op>> /\ ~Carries(t)' /\ ~Holds(t) /\ ~Holds(t)'
    BY <1>a, <1>3, Names DEF FlushAll
<1>4. ASSUME Enable(t) PROVE UNCHANGED <<issued, author, op, pc, ret>>
    BY <1>4 DEF Enable, mine
<1>5. UNCHANGED <<pending, calls, target, made, inflight, rejected, log, cur>>
    BY DEF Call, Write, Recover, Barrier, FlushAll, Enable, queue, mine
<1>6. Enable(t) => Carries(t)' = Carries(t)
    BY <1>4
<1> HIDE DEF Goto, Holds, Carries, Heads, Flushing, At, PlaceTyped
<1> QED BY <1>1, <1>2, <1>3, <1>4, <1>5, <1>6 DEF Call

\* Any other step but an append issues nothing, and what is carried then was before.
LEMMA CarriesKept ==
    ASSUME BaseInv, NEW a \in Agents, ~AppendCall(a),
           Step(a) \/ (a \in Timers /\ \E b \in BatchIds : TimerFires(a, b))
    PROVE  UNCHANGED <<calls, made, issued, author, op>> /\ (Carries(a)' => Carries(a))
<1> USE Names
<1>a. SharedTyped /\ PlaceTyped /\ CountTyped
    BY TypeParts DEF BaseInv
<1>b. IdInv
    BY DEF BaseInv
<1>c. ret[a] \in {"idle", "append", "observe", "direct", "next_key"}
    BY <1>b DEF IdInv
<1>1. UNCHANGED <<calls, made, issued, author, op>>
    BY DEF Step, Enqueue, Flush, Finish, Check, Take, CommitBatch, RejectBatch, Publish,
                PublishFails, NextKey, WaitInflight, FlushReturns, Observe, Direct, TimerFires,
                queue, mine, count
<1>2. Carries(a)' => Carries(a)
    <2> USE DEF Carries, Heads, Flushing, At, Goto, PlaceTyped
    <2>1. CASE Check(a)
        BY <1>a, <2>1 DEF Check
    <2>2. CASE Take(a)
        BY <1>a, <1>c, <2>2 DEF Take, Claim
    <2>3. ASSUME a \in Timers, \E b \in BatchIds : TimerFires(a, b)
          PROVE  Carries(a)' => Carries(a)
        <3>1. ret[a] = "idle"
            BY <1>b, <2>3 DEF IdInv
        <3>2. pc'[a] \in {"idle", "commit"} /\ ret' = ret
            BY <1>a, <2>3 DEF TimerFires, Claim
        <3> QED BY <3>1, <3>2
    <2>4. CASE CommitBatch(a) \/ Publish(a)
        BY <1>a, <1>c, <2>4 DEF CommitBatch, Publish, mine
    <2>5. CASE RejectBatch(a) \/ PublishFails(a)
        BY <1>a, <1>c, <2>5 DEF RejectBatch, PublishFails, FlushFails
    <2>6. CASE NextKey(a)
        BY <1>a, <2>6 DEF NextKey
    <2>7. CASE WaitInflight(a) \/ FlushReturns(a) \/ Observe(a) \/ Direct(a)
        BY <1>a, <2>7 DEF WaitInflight, FlushReturns, Observe, Direct, mine
    <2> QED BY <2>1, <2>2, <2>3, <2>4, <2>5, <2>6, <2>7
            DEF Step, Enqueue, Flush, Finish
<1> QED BY <1>1, <1>2

\* Every step keeps a carried mutation its thread's own and in no batch.
LEMMA OpStep == BaseInv /\ [Next]_vars => OpInv'
<1> SUFFICES ASSUME BaseInv, [Next]_vars PROVE OpInv'
    OBVIOUS
<1> USE BatchConstantsOK, Names
<1>a. SharedTyped /\ PlaceTyped /\ CountTyped
    BY TypeParts DEF BaseInv
<1>b. OpInv /\ IdInv
    BY DEF BaseInv
<1>c. \A a \in Agents : ret[a] \in {"idle", "append", "observe", "direct", "next_key"}
    BY <1>b DEF IdInv
<1>d. ASSUME UNCHANGED calls PROVE Appended' = Appended
    BY <1>d DEF Appended, InBatch
<1>1. CASE UNCHANGED <<calls, made, issued, author, pc, ret, op>>
    BY <1>b, <1>d, <1>1 DEF OpInv, Carries, Heads, Flushing, At
\* Nothing is issued or appended: the agent carries what it carried, if anything.
<1>2. ASSUME NEW a \in Agents, OthersStay(a), UNCHANGED <<calls, made, issued, author>>,
             Carries(a)' => Carries(a) /\ op'[a] = op[a]
      PROVE  OpInv'
    <2>1. \A u \in Threads : Carries(u)' => Carries(u) /\ op'[u] = op[u]
        BY <1>2 DEF OthersStay, Carries, Heads, Flushing, At
    <2>2. Appended' = Appended
        BY <1>2, <1>d
    <2> QED BY <1>b, <1>2, <2>1, <2>2 DEF OpInv
\* A call issues a mutation that nothing else has.
<1>3. ASSUME NEW t \in Threads, OthersStay(t), UNCHANGED <<calls, made>>, Issue(t)
      PROVE  OpInv'
    <2>1. Appended' = Appended
        BY <1>3, <1>d
    <2>2. /\ issued \in Nat /\ issued' = issued + 1 /\ issued + 1 \in Ops
          /\ op'[t] = issued + 1 /\ author' = [author EXCEPT ![issued + 1] = t]
        BY <1>a, <1>3 DEF Issue, CountTyped, Ops
    <2>3. \A u \in Threads \ {t} : Carries(u)' => Carries(u) /\ op'[u] = op[u]
        BY <1>3 DEF OthersStay, Carries, Heads, Flushing, At
    <2>4. \A o \in 1..issued : author'[o] = author[o] /\ o \in 1..issued'
        BY <1>a, <2>2 DEF CountTyped, Ops
    <2>5. author'[issued + 1] = t /\ issued + 1 \in 1..issued' /\ issued + 1 \notin Appended
        BY <1>a, <1>b, <2>2 DEF CountTyped, OpInv
    <2>6. \A u \in Threads : Carries(u)' =>
             op'[u] \in 1..issued' /\ author'[op'[u]] = u /\ op'[u] \notin Appended'
        <3> TAKE u \in Threads
        <3> HAVE Carries(u)'
        <3>1. CASE u = t
            BY <2>1, <2>2, <2>5, <3>1
        <3>2. CASE u # t
            BY <1>b, <2>1, <2>3, <2>4, <3>2 DEF OpInv
        <3> QED BY <3>1, <3>2
    <2>7. Appended' \subseteq 1..issued' /\ made' <= Cardinality(Appended')
        BY <1>b, <1>3, <2>1, <2>2 DEF OpInv
    <2> QED BY <2>6, <2>7 DEF OpInv
<1>4. ASSUME NEW t \in Threads, AppendCall(t) PROVE OpInv'
    <2>1. PICK b \in BatchIds, l \in {"take", "idle"} :
              /\ made' = IF pending[key[t]] = None THEN made + 1 ELSE made
              /\ calls' = [calls EXCEPT ![b] = Append(calls[b], op[t])]
              /\ ret' = [ret EXCEPT ![t] = "idle"]
              /\ pc' = [pc EXCEPT ![t] = l]
              /\ pc[t] = "append" /\ op[t] \in Ops
              /\ UNCHANGED <<op, count>>
        BY <1>4, AppendFacts
    <2>2. Appended' = Appended \cup {op[t]}
        BY <2>1, AppendedGrows
    <2>3. op[t] \in 1..issued /\ author[op[t]] = t /\ op[t] \notin Appended
        BY <1>b, <2>1 DEF OpInv, Carries, Heads, At
    <2>4. \A u \in Threads : Carries(u)' => u # t /\ Carries(u)
        BY <1>a, <2>1 DEF PlaceTyped, Carries, Heads, Flushing, At
    <2>5. \A u \in Threads : Carries(u)' =>
             op'[u] \in 1..issued' /\ author'[op'[u]] = u /\ op'[u] \notin Appended'
        BY <1>b, <2>1, <2>2, <2>3, <2>4 DEF OpInv, count
    <2>6. Appended' \subseteq 1..issued'
        BY <1>b, <2>1, <2>2, <2>3 DEF OpInv, count
    <2>7. made' <= Cardinality(Appended')
        <3>1. issued \in Nat /\ made \in Nat
            BY <1>a DEF CountTyped, SharedTyped
        <3>2. Appended \in SUBSET (1..issued) /\ made <= Cardinality(Appended)
            BY <1>b DEF OpInv
        <3>3. IsFiniteSet(Appended) /\ Cardinality(Appended) \in Nat
            BY <3>1, <3>2, FewerThan
        <3>4. Cardinality(Appended \cup {op[t]}) = Cardinality(Appended) + 1
            BY <2>3, <3>3, FS_AddElement
        <3> QED BY <2>1, <2>2, <3>1, <3>2, <3>3, <3>4
    <2> QED BY <2>5, <2>6, <2>7 DEF OpInv
<1>5. ASSUME NEW t \in Threads, Call(t) PROVE OpInv'
    <2>1. OthersStay(t)
        BY <1>5, OneAgentMoves
    <2>2. /\ UNCHANGED <<calls, made>>
          /\ Issue(t) \/ (UNCHANGED <<issued, author, op>> /\ (Carries(t)' => Carries(t)))
        BY <1>5, CallIssues
    <2> QED BY <1>2, <1>3, <2>1, <2>2
<1>6. ASSUME NEW a \in Agents, ~AppendCall(a),
             Step(a) \/ (a \in Timers /\ \E b \in BatchIds : TimerFires(a, b))
      PROVE  OpInv'
    <2>1. OthersStay(a) /\ ret[a] \in {"idle", "append", "observe", "direct", "next_key"}
        BY <1>6, <1>c, OneAgentMoves
    <2>2. UNCHANGED <<calls, made, issued, author, op>> /\ (Carries(a)' => Carries(a))
        BY <1>6, CarriesKept
    <2> QED BY <1>2, <2>1, <2>2
<1>7. CASE UNCHANGED vars
    BY <1>1, <1>7 DEF vars, queue, mine, count
<1>8. \A x \in Timers : ~AppendCall(x)
    BY <1>b DEF IdInv, AppendCall, At
<1>9. ASSUME NEW x \in Timers, TimerStep(x) PROVE OpInv'
    BY <1>6, <1>8, <1>9 DEF TimerStep, Step
<1>10. ASSUME NEW t \in Threads, Step(t) PROVE OpInv'
    BY <1>4, <1>6, <1>10
<1> QED BY <1>5, <1>7, <1>9, <1>10 DEF Next, Quiescent

\* The base invariant holds at the start.
LEMMA BaseInit == Init => BaseInv
<1> SUFFICES ASSUME Init PROVE BaseInv
    OBVIOUS
<1> USE BatchConstantsOK, Names
<1>1. TypeOK
    BY TypeInit
<1>2. IdInv
    BY DEF Init, IdInv, Holds, At, None, Agents
<1>3. OpInv
    <2>1. \A b \in BatchIds : InBatch(b) = {}
        BY DEF Init, InBatch, Range
    <2>2. Appended = {}
        BY <2>1 DEF Appended
    <2>3. \A t \in Threads : ~Carries(t)
        BY DEF Init, Carries, Heads, Flushing, At
    <2> QED BY <2>2, <2>3, FS_EmptySet DEF Init, OpInv
<1> QED BY <1>1, <1>2, <1>3 DEF BaseInv

\* The types, the batch numbers and the carried mutations are as the code assumes.
THEOREM BaseHolds == Spec => []BaseInv
<1>1. BaseInv /\ [Next]_vars => BaseInv'
    BY TypeStep, IdStep, OpStep DEF BaseInv
<1> QED BY BaseInit, <1>1, PTL DEF Spec

-----------------------------------------------------------------------------
(***************************************************************************)
(* How far a batch outgrows batch_max_operations.                            *)
(***************************************************************************)
\* The threads whose append filled b and that have not come to claim it yet.
Extra(b) == {t \in Threads : At(t, "take") /\ expect[t] = b}

\* A queued batch is below the limit but for the calls of the threads on their way to
\* claim it; each thread is on its way once.
BoundInv ==
    /\ \A k \in Keys : pending[k] # None =>
          Len(calls[pending[k]]) < MaxOperations + Cardinality(Extra(pending[k]))
    /\ \A b \in 1..made : Len(calls[b]) < MaxOperations + Cardinality(Threads)

\* Cardinalities of sets of threads.
LEMMA ThreadSets ==
    ASSUME NEW T \in SUBSET Threads, NEW S \in SUBSET T
    PROVE  /\ IsFiniteSet(S) /\ Cardinality(S) \in Nat /\ Cardinality(T) \in Nat
           /\ Cardinality(S) <= Cardinality(T)
           /\ \A t \in T \ S : Cardinality(S) + 1 <= Cardinality(T)
<1>1. IsFiniteSet(Threads)
    BY BatchConstantsOK
<1>2. IsFiniteSet(T)
    BY <1>1, FS_Subset
<1>3. IsFiniteSet(S) /\ Cardinality(S) <= Cardinality(T)
    BY <1>2, FS_Subset
<1>4. Cardinality(S) \in Nat /\ Cardinality(T) \in Nat
    BY <1>2, <1>3, FS_CardinalityType
<1>5. ASSUME NEW t \in T \ S PROVE Cardinality(S) + 1 <= Cardinality(T)
    <2>1. S \cup {t} \in SUBSET T
        BY <1>5
    <2>2. Cardinality(S \cup {t}) <= Cardinality(T)
        BY <1>2, <2>1, FS_Subset
    <2>3. Cardinality(S \cup {t}) = Cardinality(S) + 1
        BY <1>3, <1>5, FS_AddElement
    <2> QED BY <2>2, <2>3
<1> QED BY <1>3, <1>4, <1>5

\* Only claiming a batch, or looking for it in vain, takes a thread out of Extra.
LEMMA ExtraKept ==
    ASSUME NEW a \in Agents, NEW b \in BatchIds, OthersStay(a),
           ~(At(a, "take") /\ expect[a] = b)
    PROVE  /\ Cardinality(Extra(b)) <= Cardinality(Extra(b)')
           /\ Cardinality(Extra(b)) \in Nat /\ Cardinality(Extra(b)') \in Nat
<1>1. Extra(b)' \in SUBSET Threads /\ Extra(b) \in SUBSET (Extra(b)')
    BY Names DEF Extra, At, OthersStay
<1> QED BY <1>1, ThreadSets

\* Every step keeps the batches bounded.
LEMMA BoundStep == BaseInv /\ BoundInv /\ [Next]_vars => BoundInv'
<1> SUFFICES ASSUME BaseInv, BoundInv, [Next]_vars PROVE BoundInv'
    OBVIOUS
<1> USE BatchConstantsOK, Names
<1>a. SharedTyped /\ PlaceTyped /\ IdInv
    BY TypeParts DEF BaseInv
<1>1. CASE UNCHANGED <<pending, calls, made, pc, expect>>
    BY <1>1 DEF BoundInv, Extra, At
\* Nothing is appended, and what stays queued keeps the threads that come for it.
<1>2. ASSUME NEW a \in Agents, OthersStay(a), UNCHANGED <<calls, made>>,
             \A k \in Keys : pending'[k] \in {pending[k], None},
             \A k \in Keys : At(a, "take") /\ pending[k] # None /\ expect[a] = pending[k]
                               => pending'[k] = None
      PROVE  BoundInv'
    <2>1. ASSUME NEW k \in Keys, pending'[k] # None
          PROVE  (Len(calls[pending[k]]) < MaxOperations + Cardinality(Extra(pending[k])))'
        <3>1. PICK b \in BatchIds : b = pending[k] /\ b = pending'[k]
            BY <1>a, <1>2, <2>1 DEF SharedTyped
        <3>2. /\ Cardinality(Extra(b)) <= Cardinality(Extra(b)')
              /\ Cardinality(Extra(b)) \in Nat /\ Cardinality(Extra(b)') \in Nat
            BY <1>2, <2>1, <3>1, ExtraKept
        <3>3. Len(calls[b]) < MaxOperations + Cardinality(Extra(b)) /\ Len(calls[b]) \in Nat
            <4>1. pending[k] # None
                BY <2>1, <3>1
            <4>2. Len(calls[b]) < MaxOperations + Cardinality(Extra(b))
                BY <3>1, <4>1 DEF BoundInv
            <4> QED BY <1>a, <4>2 DEF SharedTyped
        <3>4. Len(calls[b])' < MaxOperations + Cardinality(Extra(b)')
            BY <1>2, <3>2, <3>3
        <3>5. Extra(pending[k])' = Extra(b)'
            BY <3>1 DEF Extra
        <3> QED BY <3>1, <3>4, <3>5
    <2> QED BY <1>2, <2>1 DEF BoundInv
<1>3. ASSUME NEW t \in Threads, AppendCall(t) PROVE BoundInv'
    <2>1. PICK b \in BatchIds, l \in {"take", "idle"} :
              /\ b = IF pending[key[t]] = None THEN made + 1 ELSE pending[key[t]]
              /\ made' = IF pending[key[t]] = None THEN made + 1 ELSE made
              /\ pending' = [pending EXCEPT ![key[t]] = b]
              /\ calls' = [calls EXCEPT ![b] = Append(calls[b], op[t])]
              /\ expect' = [expect EXCEPT ![t] = b]
              /\ pc' = [pc EXCEPT ![t] = l]
              /\ pc[t] = "append" /\ op[t] \in Ops
              /\ l = "idle" => Len(calls[b]) + 1 < MaxOperations
        BY <1>3, AppendFacts
    <2>2. OthersStay(t) /\ key[t] \in Keys
        BY <1>3, <1>a, OneAgentMoves DEF Step, Enqueue, PlaceTyped
    <2>3. made \in Nat /\ pending[key[t]] \in BatchIds \cup {None} /\ pending[key[t]] <= made
        BY <1>a, <2>2 DEF SharedTyped, IdInv
    <2>4. \A c \in BatchIds : Len(calls[c]) \in Nat /\ Len(calls'[c]) = IF c = b THEN Len(calls[c]) + 1 ELSE Len(calls[c])
        <3>1. calls \in [BatchIds -> Seq(Ops)]
            BY <1>a DEF SharedTyped
        <3>2. Len(calls[b]) \in Nat /\ Len(Append(calls[b], op[t])) = Len(calls[b]) + 1
            BY <2>1, <3>1
        <3> QED BY <2>1, <3>1, <3>2
    <2>5. \A c \in BatchIds : /\ Cardinality(Extra(c)) <= Cardinality(Extra(c)')
                               /\ Cardinality(Extra(c)) \in Nat /\ Cardinality(Extra(c)') \in Nat
        BY <2>1, <2>2, ExtraKept DEF At
    <2>6. Extra(b)' \in SUBSET Threads /\ Extra(b) \in SUBSET (Extra(b)') /\ t \notin Extra(b)
        BY <2>1, <2>2 DEF Extra, At, OthersStay
    <2>7. Cardinality(Extra(b)') <= Cardinality(Threads) /\ Cardinality(Threads) \in Nat
        BY <2>6, ThreadSets
    <2>8. l = "take" => Cardinality(Extra(b)) + 1 <= Cardinality(Extra(b)')
        <3>1. l = "take" => t \in Extra(b)'
            <4>1. expect'[t] = b /\ (l = "take" => pc'[t] = "take")
                BY <1>a, <2>1 DEF PlaceTyped
            <4> QED BY <4>1 DEF Extra, At
        <3> QED BY <2>6, <3>1, ThreadSets
    \* The batch before the append.
    <2>9. Len(calls[b]) < MaxOperations + Cardinality(Extra(b))
        <3>1. CASE pending[key[t]] = None
            <4>1. b > made
                BY <2>1, <2>3, <3>1
            <4>2. calls[b] = <<>>
                BY <1>a, <4>1 DEF IdInv
            <4> QED BY <2>5, <4>2
        <3>2. CASE pending[key[t]] # None
            BY <2>1, <2>2, <3>2 DEF BoundInv
        <3> QED BY <3>1, <3>2
    <2>10. Len(calls'[b]) < MaxOperations + Cardinality(Extra(b)')
        <3>1. CASE l = "take"
            BY <2>4, <2>5, <2>8, <2>9, <3>1
        <3>2. CASE l = "idle"
            BY <2>1, <2>4, <2>5, <3>2
        <3> QED BY <3>1, <3>2
    <2>11. ASSUME NEW k \in Keys, pending'[k] # None
           PROVE  (Len(calls[pending[k]]) < MaxOperations + Cardinality(Extra(pending[k])))'
        <3>1. PICK c \in BatchIds : c = pending'[k]
            BY <1>a, <2>1, <2>11 DEF SharedTyped
        <3>2. Extra(pending[k])' = Extra(c)'
            BY <3>1 DEF Extra
        <3>3. CASE c = b
            BY <2>10, <3>1, <3>2, <3>3
        <3>4. CASE c # b
            <4>1. pending[k] = c
                BY <1>a, <2>1, <3>1, <3>4 DEF SharedTyped
            <4>2. Len(calls[c]) < MaxOperations + Cardinality(Extra(c))
                BY <4>1 DEF BoundInv, None, BatchIds
            <4>3. Len(calls'[c]) < MaxOperations + Cardinality(Extra(c)')
                BY <2>4, <2>5, <3>4, <4>2
            <4> QED BY <3>1, <3>2, <4>3
        <3> QED BY <3>3, <3>4
    <2>12. ASSUME NEW c \in 1..made' PROVE Len(calls'[c]) < MaxOperations + Cardinality(Threads)
        <3>1. CASE c = b
            BY <2>4, <2>5, <2>7, <2>10, <3>1
        <3>2. CASE c # b
            <4>1. c \in 1..made /\ c \in BatchIds
                BY <1>a, <2>1, <2>3, <2>12, <3>2 DEF BatchIds, SharedTyped
            <4> QED BY <2>4, <3>2, <4>1 DEF BoundInv
        <3> QED BY <3>1, <3>2
    <2> QED BY <2>11, <2>12 DEF BoundInv
<1>4. ASSUME NEW t \in Threads, Take(t) PROVE BoundInv'
    <2>1. OthersStay(t) /\ UNCHANGED <<calls, made>> /\ key[t] \in Keys /\ At(t, "take")
        BY <1>4, <1>a, OneAgentMoves DEF Step, Enqueue, Take, PlaceTyped
    <2>2. CASE Claimable(pending[key[t]], expect[t])
        <3>1. pending' = [pending EXCEPT ![key[t]] = None]
            BY <1>4, <2>2 DEF Take, Claim
        <3>2. \A k \in Keys : pending'[k] = IF k = key[t] THEN None ELSE pending[k]
            BY <1>a, <3>1 DEF SharedTyped
        <3>3. ASSUME NEW k \in Keys, pending[k] # None, expect[t] = pending[k]
              PROVE  k = key[t]
            BY <1>a, <2>1, <3>3 DEF IdInv, At
        <3> QED BY <1>2, <2>1, <3>2, <3>3
    <2>3. CASE ~Claimable(pending[key[t]], expect[t])
        <3>1. UNCHANGED pending
            BY <1>4, <2>3 DEF Take
        <3>2. ASSUME NEW k \in Keys, pending[k] # None, expect[t] = pending[k]
              PROVE  FALSE
            BY <1>a, <2>1, <2>3, <3>2 DEF IdInv, At, Claimable
        <3> QED BY <1>2, <2>1, <3>1, <3>2
    <2> QED BY <2>2, <2>3
<1>5. ASSUME NEW x \in Timers, NEW b \in BatchIds, TimerFires(x, b) PROVE BoundInv'
    <2>1. OthersStay(x) /\ UNCHANGED <<calls, made>> /\ ~At(x, "take") /\ target[b] \in Keys
        BY <1>5, <1>a, OneAgentMoves DEF TimerFires, At, SharedTyped
    <2>2. \A k \in Keys : pending'[k] \in {pending[k], None}
        BY <1>5, <1>a, <2>1 DEF TimerFires, Claim, SharedTyped
    <2> QED BY <1>2, <2>1, <2>2
<1>6. ASSUME NEW a \in Agents, Flush(a) PROVE BoundInv'
    <2>1. OthersStay(a)
        BY <1>6, OneAgentMoves DEF Step
    <2>2. UNCHANGED <<pending, calls, made>> /\ ~At(a, "take")
        BY <1>6 DEF Flush, CommitBatch, RejectBatch, Publish, PublishFails, queue, At
    <2> QED BY <1>2, <2>1, <2>2
<1>7. ASSUME NEW t \in Threads, Call(t) \/ Check(t) \/ Finish(t) PROVE BoundInv'
    <2>1. OthersStay(t)
        BY <1>7, OneAgentMoves DEF Step, Enqueue
    <2>2. UNCHANGED <<pending, calls, made>> /\ ~At(t, "take")
        BY <1>7 DEF Call, Write, Recover, Barrier, FlushAll, Enable, Check, Finish, NextKey,
                    WaitInflight, FlushReturns, Observe, Direct, queue, At
    <2> QED BY <1>2, <2>1, <2>2
<1>8. CASE UNCHANGED vars
    BY <1>1, <1>8 DEF vars, queue, mine
<1> QED BY <1>3, <1>4, <1>5, <1>6, <1>7, <1>8 DEF Next, Step, Enqueue, TimerStep, Quiescent

\* Every variable has its type, and a batch outgrows batch_max_operations by fewer calls
\* than there are threads (the two critical sections of enqueue, batching.py:163-186).
THEOREM BatchesBounded == Spec => []BatchBounded
<1>1. Init => BoundInv
    BY BatchConstantsOK DEF Init, BoundInv
<1>2. BaseInv /\ BoundInv => BatchBounded
    BY DEF BaseInv, BoundInv, BatchBounded
<1> QED BY <1>1, <1>2, BaseHolds, BoundStep, PTL DEF Spec

-----------------------------------------------------------------------------
(***************************************************************************)
(* What a thread has queued when it reads.                                   *)
(***************************************************************************)
\* A thread whose read has claimed or found no batch, up to the read itself.
Reading(t) == \/ At(t, "observe") \/ (At(t, "direct") /\ ask[t] = "transact")
              \/ (Holds(t) /\ ret[t] \in {"observe", "direct"})
OwnQueued(t, k) == {o \in Ops : pending[k] # None /\ o \in InBatch(pending[k]) /\ author[o] = t}

ReadInv ==
    /\ \A t \in Threads : Reading(t) => OwnQueued(t, key[t]) = {}
    /\ \A t \in Threads : At(t, "take") /\ ret[t] \in {"observe", "direct"} => expect[t] = None

\* What another agent does queues nothing of t.
LEMMA OwnQueuedFalls ==
    ASSUME BaseInv, [Next]_vars, NEW t \in Threads, NEW k \in Keys, ~AppendCall(t)
    PROVE  OwnQueued(t, k)' \subseteq OwnQueued(t, k)
<1> USE BatchConstantsOK, Names
<1>a. SharedTyped /\ PlaceTyped /\ CountTyped /\ IdInv /\ OpInv
    BY TypeParts DEF BaseInv
<1>b. pending[k] \in BatchIds \cup {None}
    BY <1>a DEF SharedTyped
\* A mutation in a batch keeps the author it was issued by.
<1>1. \A o \in Appended : author'[o] = author[o]
    <2>1. CASE UNCHANGED author
        BY <2>1
    <2>2. ASSUME NEW u \in Threads, Issue(u) PROVE \A o \in Appended : author'[o] = author[o]
        BY <1>a, <2>2 DEF Issue, OpInv, CountTyped, Ops
    <2>3. ASSUME NEW u \in Threads, Call(u) PROVE UNCHANGED author \/ Issue(u)
        BY <2>3, CallIssues
    <2>4. ASSUME NEW a \in Agents, Step(a) \/ \E b \in BatchIds : TimerFires(a, b)
          PROVE  UNCHANGED author
        BY <2>4 DEF Step, Enqueue, Check, AppendCall, Take, Flush, CommitBatch, RejectBatch,
                    Publish, PublishFails, Finish, NextKey, WaitInflight, FlushReturns, Observe,
                    Direct, TimerFires, count
    <2>5. UNCHANGED author \/ \E u \in Threads : Issue(u)
        BY <2>3, <2>4 DEF Next, TimerStep, Step, Quiescent, vars, count
    <2> QED BY <2>1, <2>2, <2>5
<1>2. ASSUME UNCHANGED calls, pending'[k] \in {pending[k], None}
      PROVE  OwnQueued(t, k)' \subseteq OwnQueued(t, k)
    <2>1. CASE pending'[k] = None
        BY <2>1 DEF OwnQueued
    <2>2. CASE pending'[k] # None
        <3>1. PICK b \in BatchIds : b = pending[k] /\ b = pending'[k]
            BY <1>2, <1>b, <2>2
        <3>2. InBatch(pending[k])' = InBatch(b) /\ InBatch(b) \subseteq Appended
            BY <1>2, <3>1 DEF InBatch, Appended
        <3> QED BY <1>1, <3>1, <3>2 DEF OwnQueued
    <2> QED BY <2>1, <2>2
<1>3. ASSUME NEW u \in Threads, AppendCall(u) PROVE OwnQueued(t, k)' \subseteq OwnQueued(t, k)
    <2>1. PICK b \in BatchIds :
              /\ b = IF pending[key[u]] = None THEN made + 1 ELSE pending[key[u]]
              /\ pending' = [pending EXCEPT ![key[u]] = b]
              /\ calls' = [calls EXCEPT ![b] = Append(calls[b], op[u])]
              /\ pc[u] = "append" /\ op[u] \in Ops
              /\ UNCHANGED author
        BY <1>3, AppendFacts DEF count
    <2>2. u # t /\ author[op[u]] = u /\ key[u] \in Keys
        BY <1>a, <1>3, <2>1 DEF OpInv, Carries, Heads, At, PlaceTyped
    <2>3. /\ \A c \in BatchIds \ {b} : InBatch(c)' = InBatch(c)
          /\ InBatch(b)' = InBatch(b) \cup {op[u]}
        BY <2>1, AppendedGrows
    <2>4. CASE k # key[u]
        <3>1. pending'[k] = pending[k]
            BY <1>a, <2>1, <2>4 DEF SharedTyped
        <3>2. pending[k] = None \/ pending[k] \in BatchIds \ {b}
            <4>1. pending[key[u]] <= made /\ pending[k] <= made /\ made \in Nat
                BY <1>a, <2>2 DEF IdInv, SharedTyped
            <4>2. CASE pending[key[u]] = None
                BY <1>b, <2>1, <4>1, <4>2 DEF BatchIds
            <4>3. CASE pending[key[u]] # None
                BY <1>a, <1>b, <2>1, <2>2, <2>4, <4>3 DEF IdInv
            <4> QED BY <4>2, <4>3
        <3>3. pending[k] # None => InBatch(pending[k])' = InBatch(pending[k])
            <4> SUFFICES ASSUME pending[k] # None PROVE InBatch(pending[k])' = InBatch(pending[k])
                OBVIOUS
            <4>1. PICK c \in BatchIds \ {b} : c = pending[k]
                BY <3>2
            <4>2. InBatch(pending[k])' = InBatch(c)'
                BY <3>1, <4>1 DEF InBatch
            <4> QED BY <2>3, <4>1, <4>2
        <3> QED BY <2>1, <3>1, <3>3 DEF OwnQueued
    <2>5. CASE k = key[u]
        <3>1. pending'[k] = b
            BY <1>a, <2>1, <2>5 DEF SharedTyped
        <3>2. InBatch(pending[k])' = InBatch(b) \cup {op[u]}
            <4>1. InBatch(pending[k])' = InBatch(b)'
                BY <3>1 DEF InBatch
            <4> QED BY <2>3, <4>1
        <3>3. CASE pending[key[u]] = None
            <4>1. b > made
                BY <1>a, <2>1, <3>3 DEF SharedTyped
            <4>2. InBatch(b) = {}
                BY <1>a, <4>1 DEF IdInv, InBatch, Range
            <4> QED BY <2>1, <2>2, <3>2, <4>2 DEF OwnQueued
        <3>4. CASE pending[key[u]] # None
            <4>1. InBatch(b) = InBatch(pending[k]) /\ pending[k] # None
                BY <2>1, <2>5, <3>4
            <4> QED BY <2>1, <2>2, <3>2, <4>1 DEF OwnQueued
        <3> QED BY <3>3, <3>4
    <2> QED BY <2>4, <2>5
<1>4. ASSUME NEW u \in Agents, NEW j \in Keys, NEW b, Claim(u, b, j) PROVE pending'[k] \in {pending[k], None}
    BY <1>a, <1>4 DEF Claim, SharedTyped
<1>5. ASSUME NEW u \in Threads, Take(u) PROVE OwnQueued(t, k)' \subseteq OwnQueued(t, k)
    <2>1. UNCHANGED calls /\ key[u] \in Keys
        BY <1>a, <1>5 DEF Take, PlaceTyped
    <2>2. pending'[k] \in {pending[k], None}
        BY <1>4, <1>5, <2>1 DEF Take
    <2> QED BY <1>2, <2>1, <2>2
<1>6. ASSUME NEW x \in Timers, NEW b \in BatchIds, TimerFires(x, b)
      PROVE  OwnQueued(t, k)' \subseteq OwnQueued(t, k)
    <2>1. UNCHANGED calls /\ target[b] \in Keys
        BY <1>a, <1>6 DEF TimerFires, SharedTyped
    <2>2. pending'[k] \in {pending[k], None}
        BY <1>4, <1>6, <2>1 DEF TimerFires
    <2> QED BY <1>2, <2>1, <2>2
<1>7. CASE UNCHANGED <<pending, calls>>
    BY <1>2, <1>7
<1>8. \/ UNCHANGED <<pending, calls>>
      \/ \E u \in Threads : AppendCall(u) \/ Take(u)
      \/ \E x \in Timers, b \in BatchIds : TimerFires(x, b)
    <2>1. ASSUME NEW u \in Agents, Flush(u) PROVE UNCHANGED <<pending, calls>>
        BY <2>1 DEF Flush, CommitBatch, RejectBatch, Publish, PublishFails, queue
    <2>2. ASSUME NEW u \in Threads, Call(u) PROVE UNCHANGED <<pending, calls>>
        BY <2>2 DEF Call, Write, Recover, Barrier, FlushAll, Enable, queue
    <2>3. ASSUME NEW u \in Threads, Check(u) \/ Finish(u) PROVE UNCHANGED <<pending, calls>>
        BY <2>3 DEF Check, Finish, NextKey, WaitInflight, FlushReturns, Observe, Direct, queue
    <2>4. CASE UNCHANGED vars
        BY <2>4 DEF vars, queue
    <2> QED BY <2>1, <2>2, <2>3, <2>4 DEF Next, Step, Enqueue, TimerStep, Quiescent
<1> QED BY <1>3, <1>5, <1>6, <1>7, <1>8

\* The read's own flush leaves the queue empty, whatever the batch was.
LEMMA ReadStep == BaseInv /\ ReadInv /\ [Next]_vars => ReadInv'
<1> SUFFICES ASSUME BaseInv, ReadInv, [Next]_vars PROVE ReadInv'
    OBVIOUS
<1> USE BatchConstantsOK, Names
<1>a. SharedTyped /\ PlaceTyped /\ IdInv
    BY TypeParts DEF BaseInv
<1>1. ASSUME NEW t \in Threads, pc'[t] = pc[t], ret'[t] = ret[t], key'[t] = key[t],
             expect'[t] = expect[t], ask'[t] = ask[t]
      PROVE  /\ Reading(t)' => OwnQueued(t, key[t])' = {}
             /\ At(t, "take")' /\ ret'[t] \in {"observe", "direct"} => expect'[t] = None
    <2>0. ~AppendCall(t)
        <3>1. AppendCall(t) => pc[t] = "append" /\ pc'[t] # "append"
            BY <1>a DEF AppendCall, At, Goto, PlaceTyped
        <3> QED BY <1>1, <3>1
    <2>1. PICK k \in Keys : k = key[t] /\ k = key'[t]
        BY <1>a, <1>1 DEF PlaceTyped
    <2>2. OwnQueued(t, key[t])' = OwnQueued(t, k)'
        BY <2>1 DEF OwnQueued
    <2>3. OwnQueued(t, k)' \subseteq OwnQueued(t, key[t])
        BY <2>0, <2>1, OwnQueuedFalls
    <2>4. Reading(t)' => Reading(t)
        BY <1>1 DEF Reading, Holds, At
    <2> QED BY <1>1, <2>2, <2>3, <2>4 DEF ReadInv, At
<1>2. ASSUME NEW t \in Threads, ~Reading(t)', pc'[t] = "take" /\ ret'[t] \in {"observe", "direct"} => expect'[t] = None
      PROVE  /\ Reading(t)' => OwnQueued(t, key[t])' = {}
             /\ At(t, "take")' /\ ret'[t] \in {"observe", "direct"} => expect'[t] = None
    BY <1>2 DEF At
<1>3. ASSUME NEW t \in Threads, Call(t) \/ Step(t)
      PROVE  /\ Reading(t)' => OwnQueued(t, key[t])' = {}
             /\ At(t, "take")' /\ ret'[t] \in {"observe", "direct"} => expect'[t] = None
    <2> USE DEF Goto, At, Reading, Holds, PlaceTyped
    <2>1. ASSUME NEW k \in Keys, Write(t, k) \/ Recover(t, k)
          PROVE  ~Reading(t)' /\ pc'[t] # "take"
        BY <1>a, <2>1 DEF Write, Recover
    <2>2. ASSUME NEW k \in Keys, NEW c \in Asks, Barrier(t, k, c)
          PROVE  ~Reading(t)' /\ expect'[t] = None
        BY <1>a, <2>2 DEF Barrier, BarrierLabel
    <2>3. ASSUME NEW c \in Asks, FlushAll(t, c) PROVE ~Reading(t)' /\ pc'[t] # "take"
        BY <1>a, <2>3 DEF FlushAll
    <2>4. CASE Check(t) \/ NextKey(t)
        <3>1. ~Reading(t)' /\ expect'[t] = None
            BY <1>a, <2>4 DEF Check, NextKey
        <3> QED BY <1>2, <3>1
    <2>5. CASE AppendCall(t)
        <3>1. PICK l \in {"take", "idle"} : ret' = [ret EXCEPT ![t] = "idle"] /\ pc' = [pc EXCEPT ![t] = l]
            BY <2>5, AppendFacts
        <3>2. ~Reading(t)' /\ ret'[t] \notin {"observe", "direct"}
            BY <1>a, <3>1
        <3> QED BY <1>2, <3>2
    <2>6. CASE FlushReturns(t) \/ WaitInflight(t) \/ Observe(t) \/ Direct(t)
        <3>1. ~Reading(t)' /\ pc'[t] # "take"
            BY <1>a, <2>6 DEF FlushReturns, WaitInflight, Observe, Direct, mine
        <3> QED BY <1>2, <3>1
    <2>7. CASE Enable(t)
        <3>1. UNCHANGED <<pc, ret, key, expect, ask>>
            BY <2>7 DEF Enable, mine
        <3> QED BY <1>1, <3>1
    <2>8. CASE Take(t)
        <3>1. UNCHANGED <<ret, key, expect, calls, ask>> /\ key[t] \in Keys /\ pc[t] = "take"
            BY <1>a, <2>8 DEF Take
        <3>2. CASE ret[t] \in {"observe", "direct"}
            <4>1. expect[t] = None
                BY <2>8, <3>2 DEF Take, ReadInv
            <4>2. pending'[key[t]] = None
                BY <1>a, <2>8, <4>1 DEF Take, Claimable, Claim, SharedTyped
            <4>3. OwnQueued(t, key[t])' = {}
                BY <3>1, <4>2 DEF OwnQueued
            <4> QED BY <3>1, <4>1, <4>3
        <3>3. CASE ret[t] \notin {"observe", "direct"}
            <4>1. pc'[t] \in {"commit", ret[t]}
                BY <1>a, <2>8 DEF Take, Claim
            <4> QED BY <1>2, <3>1, <3>3, <4>1
        <3> QED BY <3>2, <3>3
    <2>9. CASE Flush(t)
        <3>1. /\ UNCHANGED <<ret, key, expect>> /\ pc[t] \in {"commit", "publish"} /\ ~AppendCall(t)
              /\ pc'[t] \in {"publish", ret[t]}
            BY <1>a, <2>9 DEF Flush, CommitBatch, RejectBatch, Publish, PublishFails, FlushFails, mine, AppendCall
        <3>2. PICK k \in Keys : k = key[t] /\ k = key'[t]
            BY <1>a, <3>1
        <3>3. OwnQueued(t, key[t])' = OwnQueued(t, k)'
            BY <3>2 DEF OwnQueued
        <3>4. OwnQueued(t, k)' \subseteq OwnQueued(t, key[t])
            BY <3>1, <3>2, OwnQueuedFalls
        <3>5. ret[t] # "take"
            BY <1>a DEF IdInv
        <3> QED BY <3>1, <3>3, <3>4, <3>5 DEF ReadInv
    <2> QED BY <1>2, <1>3, <2>1, <2>2, <2>3, <2>4, <2>5, <2>6, <2>7, <2>8, <2>9
            DEF Call, Step, Enqueue, Finish
<1>4. ASSUME NEW t \in Threads, NEW a \in Agents \ {t}, OthersStay(a)
      PROVE  /\ Reading(t)' => OwnQueued(t, key[t])' = {}
             /\ At(t, "take")' /\ ret'[t] \in {"observe", "direct"} => expect'[t] = None
    BY <1>1, <1>4 DEF OthersStay
<1>5. ASSUME UNCHANGED vars, NEW t \in Threads
      PROVE  /\ Reading(t)' => OwnQueued(t, key[t])' = {}
             /\ At(t, "take")' /\ ret'[t] \in {"observe", "direct"} => expect'[t] = None
    BY <1>1, <1>5 DEF vars, mine
<1>6. ASSUME NEW a \in Agents, a \in Threads => Call(a) \/ Step(a), OthersStay(a) PROVE ReadInv'
    BY <1>3, <1>4, <1>6 DEF ReadInv
<1>7. \/ UNCHANGED vars
      \/ \E a \in Agents : (a \in Threads => Call(a) \/ Step(a)) /\ OthersStay(a)
    <2>1. ASSUME NEW t \in Threads, Call(t) \/ Step(t) PROVE OthersStay(t)
        BY <2>1, OneAgentMoves
    <2>2. ASSUME NEW x \in Timers, TimerStep(x) PROVE OthersStay(x) /\ x \notin Threads
        BY <2>2, OneAgentMoves DEF TimerStep, Step
    <2> QED BY <2>1, <2>2 DEF Next, Quiescent
<1> QED BY <1>5, <1>6, <1>7 DEF ReadInv

\* When a read observes the VFS, none of its thread's calls for it is still queued
\* (_flush_pending_for_consistency).
THEOREM ReadsSeeOwnCalls == Spec => []ReadLeavesNothingQueued
<1>1. Init => ReadInv
    BY DEF Init, ReadInv, Reading, Holds, At, Agents
<1>2. BaseInv /\ ReadInv => ReadLeavesNothingQueued
    <2> SUFFICES ASSUME BaseInv, ReadInv, NEW t \in Threads, At(t, "observe"), pending[key[t]] # None,
                        NEW o \in InBatch(pending[key[t]])
                 PROVE  author[o] # t
        BY DEF ReadLeavesNothingQueued
    <2>1. SharedTyped /\ PlaceTyped
        BY TypeParts DEF BaseInv
    <2>2. pending[key[t]] \in BatchIds
        BY <2>1, Names DEF SharedTyped, PlaceTyped
    <2>3. o \in Ops
        BY <2>1, <2>2, RangeOfBatch DEF SharedTyped, InBatch
    <2> QED BY <2>3 DEF ReadInv, Reading, OwnQueued
<1> QED BY <1>1, <1>2, BaseHolds, ReadStep, PTL DEF Spec

-----------------------------------------------------------------------------
(***************************************************************************)
(* Where every batch is, and that nothing is committed twice.                *)
(***************************************************************************)
\* A batch is queued, held by the one agent that claimed it, given up or committed.
WhereInv ==
    /\ \A b \in 1..made : \/ pending[target[b]] = b \/ b \in inflight \/ b \in rejected
                          \/ InBatch(b) \subseteq Range(log[target[b]])
    /\ inflight \subseteq 1..made
    /\ \A k \in Keys : pending[k] \notin inflight
    /\ \A a \in Agents : Holds(a) => cur[a] \in inflight
    /\ \A a, u \in Agents : Holds(a) /\ Holds(u) /\ cur[a] = cur[u] => a = u
    /\ \A a \in Agents, b \in BatchIds : At(a, "publish") /\ cur[a] = b =>
          InBatch(b) \subseteq Range(log[target[b]])

\* A sequence names no mutation twice.
Distinct(s) == Cardinality(Range(s)) = Len(s)

OnceInv ==
    /\ \A b, c \in BatchIds : b # c => InBatch(b) \cap InBatch(c) = {}
    /\ \A b \in BatchIds : Distinct(calls[b])
    /\ \A k \in Keys : Distinct(log[k])
    /\ Committed \subseteq 1..issued
    /\ \A t \in Threads : Carries(t) => op[t] \notin Committed
    /\ \A k \in Keys, b \in BatchIds : pending[k] = b => InBatch(b) \cap Committed = {}
    /\ \A a \in Agents, b \in BatchIds : At(a, "commit") /\ cur[a] = b =>
          InBatch(b) \cap Committed = {}

\* Sets of mutations are finite.
LEMMA OpsFinite == \A S \in SUBSET Ops : IsFiniteSet(S) /\ Cardinality(S) \in Nat
<1> SUFFICES ASSUME NEW S \in SUBSET Ops PROVE IsFiniteSet(S) /\ Cardinality(S) \in Nat
    OBVIOUS
<1>1. MaxIssued \in Nat /\ S \in SUBSET (1..MaxIssued)
    BY BatchConstantsOK DEF Ops
<1> QED BY <1>1, FewerThan

\* A single mutation is distinct.
LEMMA DistinctOne == \A e \in Ops : Range(<<e>>) = {e} /\ Distinct(<<e>>)
<1> SUFFICES ASSUME NEW e \in Ops PROVE Range(<<e>>) = {e} /\ Distinct(<<e>>)
    OBVIOUS
<1>1. Range(<<e>>) = {e}
    BY DEF Range
<1>2. Cardinality({e}) = 1 /\ Len(<<e>>) = 1
    BY FS_Singleton
<1> QED BY <1>1, <1>2 DEF Distinct

\* A mutation that is new keeps a sequence distinct.
LEMMA DistinctAppend ==
    ASSUME NEW s \in Seq(Ops), NEW e \in Ops, Distinct(s), e \notin Range(s)
    PROVE  Distinct(Append(s, e))
<1>1. Range(s) \in SUBSET Ops /\ Range(Append(s, e)) = Range(s) \cup {e}
    BY RangeOfBatch
<1>2. IsFiniteSet(Range(s))
    BY <1>1, OpsFinite
<1>3. Cardinality(Range(s) \cup {e}) = Cardinality(Range(s)) + 1
    BY <1>2, FS_AddElement
<1>4. Len(Append(s, e)) = Len(s) + 1
    OBVIOUS
<1> QED BY <1>1, <1>3, <1>4 DEF Distinct

\* Two distinct sequences without a common mutation are distinct together.
LEMMA DistinctConcat ==
    ASSUME NEW s \in Seq(Ops), NEW r \in Seq(Ops)
    PROVE  /\ s \o r \in Seq(Ops) /\ Range(s \o r) = Range(s) \cup Range(r)
           /\ Distinct(s) /\ Distinct(r) /\ Range(s) \cap Range(r) = {} => Distinct(s \o r)
<1>1. s \o r \in Seq(Ops) /\ Len(s \o r) = Len(s) + Len(r)
    OBVIOUS
<1>2. Range(s \o r) = Range(s) \cup Range(r)
    BY RangeConcatenation
<1>3. ASSUME Distinct(s), Distinct(r), Range(s) \cap Range(r) = {} PROVE Distinct(s \o r)
    <2>1. Range(s) \in SUBSET Ops /\ Range(r) \in SUBSET Ops
        BY RangeOfBatch
    <2>2. /\ IsFiniteSet(Range(s)) /\ IsFiniteSet(Range(r))
          /\ Cardinality(Range(s)) \in Nat /\ Cardinality(Range(r)) \in Nat
        BY <2>1, OpsFinite
    <2>3. Cardinality(Range(s) \cup Range(r))
            = Cardinality(Range(s)) + Cardinality(Range(r)) - Cardinality(Range(s) \cap Range(r))
        BY <2>2, FS_Union
    <2>4. Cardinality(Range(s) \cap Range(r)) = 0
        BY <1>3, FS_EmptySet
    <2> QED BY <1>1, <1>2, <1>3, <2>2, <2>3, <2>4 DEF Distinct
<1> QED BY <1>1, <1>2, <1>3

\* What a commit adds is all that becomes committed.
LEMMA CommitAdds ==
    ASSUME log \in [Keys -> Seq(Ops)], NEW k \in Keys, NEW r \in Seq(Ops),
           log' = [log EXCEPT ![k] = log[k] \o r]
    PROVE  /\ log'[k] = log[k] \o r /\ \A j \in Keys \ {k} : log'[j] = log[j]
           /\ \A j \in Keys : Range(log[j]) \subseteq Range(log'[j])
           /\ Range(log'[k]) = Range(log[k]) \cup Range(r)
           /\ Committed' = Committed \cup Range(r)
<1>1. log'[k] = log[k] \o r /\ \A j \in Keys \ {k} : log'[j] = log[j]
    OBVIOUS
<1>2. log[k] \in Seq(Ops)
    OBVIOUS
<1>3. Range(log'[k]) = Range(log[k]) \cup Range(r)
    BY <1>1, <1>2, DistinctConcat
<1> QED BY <1>1, <1>3 DEF Committed

\* The two kinds of commit, as what they add to which VFS.
LEMMA CommitsOf ==
    ASSUME BaseInv, NEW a \in Agents, CommitBatch(a) \/ (a \in Threads /\ Direct(a))
    PROVE  \/ UNCHANGED log /\ ~CommitBatch(a)
           \/ \E k \in Keys, r \in Seq(Ops) :
                 /\ log' = [log EXCEPT ![k] = log[k] \o r]
                 /\ \/ CommitBatch(a) /\ k = target[cur[a]] /\ r = calls[cur[a]]
                    \/ Direct(a) /\ a \in Threads /\ r = <<op[a]>>
<1>a. SharedTyped /\ PlaceTyped /\ CountTyped /\ IdInv /\ OpInv
    BY TypeParts DEF BaseInv
<1>1. CASE CommitBatch(a)
    <2>1. cur[a] \in BatchIds
        BY <1>a, <1>1, BatchConstantsOK DEF CommitBatch, IdInv, Holds, BatchIds, At, SharedTyped
    <2>2. calls[cur[a]] \in Seq(Ops) /\ target[cur[a]] \in Keys
        BY <1>a, <2>1 DEF SharedTyped
    <2> QED BY <1>1, <2>2 DEF CommitBatch
<1>2. CASE ~CommitBatch(a)
    <2>1. op[a] \in Ops /\ key[a] \in Keys
        <3>1. a \in Threads /\ Carries(a) /\ issued \in 0..MaxIssued
            BY <1>a, <1>2 DEF Direct, Carries, Heads, CountTyped
        <3> QED BY <1>a, <3>1, BatchConstantsOK DEF OpInv, Ops, PlaceTyped
    <2>2. log[key[a]] \in Seq(Ops) /\ <<op[a]>> \in Seq(Ops)
        BY <1>a, <2>1 DEF SharedTyped
    <2>3. Append(log[key[a]], op[a]) = log[key[a]] \o <<op[a]>>
        BY <2>1, <2>2
    <2>4. UNCHANGED log \/ log' = [log EXCEPT ![key[a]] = Append(log[key[a]], op[a])]
        BY <1>2 DEF Direct
    <2> QED BY <1>2, <2>1, <2>2, <2>3, <2>4
<1> QED BY <1>1, <1>2

\* Every step keeps each batch where it is accounted for.
LEMMA WhereStep == BaseInv /\ WhereInv /\ [Next]_vars => WhereInv'
<1> SUFFICES ASSUME BaseInv, WhereInv, [Next]_vars PROVE WhereInv'
    OBVIOUS
<1> USE BatchConstantsOK, Names
<1>a. SharedTyped /\ PlaceTyped /\ CountTyped /\ IdInv
    BY TypeParts DEF BaseInv
<1>b. made \in Nat /\ \A a \in Agents : ret[a] \in {"idle", "append", "observe", "direct", "next_key"}
    BY <1>a DEF SharedTyped, IdInv
<1>1. CASE UNCHANGED <<pending, calls, target, made, inflight, rejected, log, pc, cur>>
    BY <1>1 DEF WhereInv, Holds, At, InBatch
\* No batch changes hands; what is committed may grow.
<1>2. ASSUME NEW a \in Agents, OthersStay(a), ~Holds(a)', ~Holds(a),
             UNCHANGED <<pending, calls, target, made, inflight, rejected>>,
             \A k \in Keys : Range(log[k]) \subseteq Range(log'[k])
      PROVE  WhereInv'
    <2>1. \A b \in BatchIds : InBatch(b)' = InBatch(b) /\ target[b] \in Keys
        BY <1>a, <1>2 DEF InBatch, SharedTyped
    <2>2. 1..made \subseteq BatchIds
        BY <1>a DEF SharedTyped, BatchIds
    <2>3. \A u \in Agents : Holds(u)' => u # a /\ Holds(u) /\ pc'[u] = pc[u] /\ cur'[u] = cur[u]
        BY <1>2 DEF OthersStay, Holds
    <2>4. \A b \in 1..made' : \/ pending'[target'[b]] = b \/ b \in inflight' \/ b \in rejected'
                              \/ InBatch(b)' \subseteq Range(log'[target'[b]])
        BY <1>2, <2>1, <2>2 DEF WhereInv
    <2>5. \A u \in Agents, b \in BatchIds : At(u, "publish")' /\ cur'[u] = b =>
             InBatch(b)' \subseteq Range(log'[target'[b]])
        BY <1>2, <2>1, <2>3 DEF WhereInv, Holds, At
    <2> QED BY <1>2, <2>3, <2>4, <2>5 DEF WhereInv
<1>3. ASSUME NEW a \in Agents, OthersStay(a), NEW k \in Keys, NEW b \in BatchIds,
             pending[k] = b, ~Holds(a), Claim(a, b, k),
             UNCHANGED <<calls, target, made, rejected, log>>
      PROVE  WhereInv'
    <2>1. /\ \A j \in Keys : pending'[j] = IF j = k THEN None ELSE pending[j]
          /\ inflight' = inflight \cup {b} /\ cur'[a] = b /\ pc'[a] = "commit"
        BY <1>a, <1>3 DEF Claim, Goto, SharedTyped, PlaceTyped
    <2>2. target[b] = k /\ b \in 1..made /\ b \notin inflight /\ b # None
        BY <1>a, <1>3 DEF IdInv, BatchIds, None, WhereInv
    <2>3. \A u \in Agents : Holds(u)' => IF u = a THEN cur'[u] = b
                             ELSE Holds(u) /\ pc'[u] = pc[u] /\ cur'[u] = cur[u]
        <3>1. \A u \in Agents \ {a} : pc'[u] = pc[u] /\ cur'[u] = cur[u]
            BY <1>3 DEF OthersStay
        <3> QED BY <2>1, <3>1 DEF Holds
    <2>4. \A c \in BatchIds : InBatch(c)' = InBatch(c)
        BY <1>3 DEF InBatch
    <2>5. 1..made \subseteq BatchIds /\ \A c \in BatchIds : target[c] \in Keys
        BY <1>a DEF SharedTyped, BatchIds
    <2>6. \A c \in 1..made' : \/ pending'[target'[c]] = c \/ c \in inflight' \/ c \in rejected'
                              \/ InBatch(c)' \subseteq Range(log'[target'[c]])
        BY <1>3, <2>1, <2>2, <2>4, <2>5 DEF WhereInv
    <2>7. inflight' \subseteq 1..made' /\ \A u \in Agents : Holds(u)' => cur'[u] \in inflight'
        BY <1>3, <2>1, <2>2, <2>3 DEF WhereInv
    <2>8. \A j \in Keys : pending'[j] \notin inflight'
        <3>1. \A j \in Keys \ {k} : pending[j] # b
            BY <1>a, <2>2 DEF IdInv
        <3>2. None \notin inflight'
            BY <2>1, <2>2 DEF WhereInv, None
        <3> QED BY <2>1, <3>1, <3>2 DEF WhereInv
    <2>9. \A u, v \in Agents : Holds(u)' /\ Holds(v)' /\ cur'[u] = cur'[v] => u = v
        BY <2>2, <2>3 DEF WhereInv
    <2>10. \A u \in Agents, c \in BatchIds : At(u, "publish")' /\ cur'[u] = c =>
              InBatch(c)' \subseteq Range(log'[target'[c]])
        BY <1>3, <2>1, <2>3, <2>4 DEF WhereInv, Holds, At
    <2> QED BY <2>6, <2>7, <2>8, <2>9, <2>10 DEF WhereInv
<1>4. ASSUME NEW t \in Threads, AppendCall(t) PROVE WhereInv'
    <2>1. PICK b \in BatchIds, l \in {"take", "idle"} :
              /\ b = IF pending[key[t]] = None THEN made + 1 ELSE pending[key[t]]
              /\ made' = IF pending[key[t]] = None THEN made + 1 ELSE made
              /\ pending' = [pending EXCEPT ![key[t]] = b]
              /\ calls' = [calls EXCEPT ![b] = Append(calls[b], op[t])]
              /\ target' = [target EXCEPT ![b] = key[t]]
              /\ pc' = [pc EXCEPT ![t] = l] /\ pc[t] = "append" /\ op[t] \in Ops
              /\ UNCHANGED <<cur, inflight, log, rejected>>
        BY <1>4, AppendFacts
    <2>2. key[t] \in Keys /\ pending[key[t]] \in BatchIds \cup {None} /\ pending[key[t]] <= made
        BY <1>a DEF PlaceTyped, SharedTyped, IdInv
    <2>3. b \notin inflight
        BY <1>b, <2>1, <2>2 DEF WhereInv
    <2>4. /\ \A k \in Keys : pending'[k] = IF k = key[t] THEN b ELSE pending[k]
          /\ \A c \in BatchIds : target'[c] = IF c = b THEN key[t] ELSE target[c]
        BY <1>a, <2>1 DEF SharedTyped
    <2>5. \A c \in BatchIds \ {b} : InBatch(c)' = InBatch(c)
        BY <2>1, AppendedGrows
    <2>6. \A u \in Agents : Holds(u)' => Holds(u) /\ pc'[u] = pc[u] /\ cur'[u] = cur[u]
        BY <1>a, <2>1 DEF Holds, PlaceTyped
    <2>7. ASSUME NEW c \in 1..made'
          PROVE  \/ pending'[target'[c]] = c \/ c \in inflight' \/ c \in rejected'
                 \/ InBatch(c)' \subseteq Range(log'[target'[c]])
        <3>1. CASE c = b
            BY <2>1, <2>2, <2>4, <3>1
        <3>2. CASE c # b
            <4>1. c \in 1..made /\ c \in BatchIds /\ target[c] \in Keys
                BY <1>a, <1>b, <2>1, <2>7, <3>2 DEF SharedTyped, BatchIds
            <4>2. pending[target[c]] = c => pending'[target'[c]] = c
                <5>1. pending[target[c]] = c /\ target[c] = key[t] => b = c
                    BY <2>1, <4>1 DEF BatchIds, None
                <5> QED BY <2>4, <3>2, <4>1, <5>1
            <4> QED BY <2>1, <2>4, <2>5, <3>2, <4>1, <4>2 DEF WhereInv
        <3> QED BY <3>1, <3>2
    <2>8. inflight' \subseteq 1..made'
        BY <1>b, <2>1 DEF WhereInv
    <2>9. \A k \in Keys : pending'[k] \notin inflight'
        BY <2>1, <2>3, <2>4 DEF WhereInv
    <2>10. ASSUME NEW u \in Agents, NEW c \in BatchIds, At(u, "publish")', cur'[u] = c
           PROVE  InBatch(c)' \subseteq Range(log'[target'[c]])
        <3>1. Holds(u) /\ At(u, "publish") /\ cur[u] = c
            BY <2>6, <2>10 DEF Holds, At
        <3>2. c \in inflight /\ c # b
            BY <2>3, <3>1 DEF WhereInv
        <3> QED BY <2>1, <2>4, <2>5, <3>1, <3>2 DEF WhereInv
    <2>11. \A u \in Agents : Holds(u)' => cur'[u] \in inflight'
        BY <2>1, <2>6 DEF WhereInv
    <2>12. \A u, v \in Agents : Holds(u)' /\ Holds(v)' /\ cur'[u] = cur'[v] => u = v
        BY <2>6 DEF WhereInv
    <2> QED BY <2>7, <2>8, <2>9, <2>10, <2>11, <2>12 DEF WhereInv
<1>5. ASSUME NEW a \in Agents, Flush(a) PROVE WhereInv'
    <2>1. OthersStay(a) /\ UNCHANGED <<pending, calls, target, made, cur>> /\ Holds(a)
        <3>1. OthersStay(a)
            BY <1>5, OneAgentMoves DEF Step
        <3>2. UNCHANGED <<pending, calls, target, made, cur>> /\ Holds(a)
            BY <1>5 DEF Flush, CommitBatch, RejectBatch, Publish, PublishFails, FlushFails,
                        queue, mine, Holds, At
        <3> QED BY <3>1, <3>2
    <2>2. PICK b \in BatchIds : b = cur[a] /\ b \in 1..made /\ b \in inflight /\ target[b] \in Keys
        BY <1>a, <2>1 DEF IdInv, WhereInv, SharedTyped, BatchIds
    <2>3. \A c \in BatchIds : InBatch(c)' = InBatch(c) /\ target[c] \in Keys
        BY <1>a, <2>1 DEF InBatch, SharedTyped
    <2>4. 1..made \subseteq BatchIds
        BY <1>a DEF SharedTyped, BatchIds
    <2>5. \A u \in Agents \ {a} : /\ Holds(u)' <=> Holds(u)
                                  /\ pc'[u] = pc[u] /\ cur'[u] = cur[u]
                                  /\ Holds(u) => cur[u] # b
        BY <2>1, <2>2 DEF OthersStay, Holds, WhereInv
    <2>6. CASE CommitBatch(a)
        <3>1. UNCHANGED <<inflight, rejected>> /\ pc'[a] = "publish"
            BY <1>a, <2>6 DEF CommitBatch, queue, Goto, PlaceTyped
        <3>2. /\ \A k \in Keys : Range(log[k]) \subseteq Range(log'[k])
              /\ InBatch(b) \subseteq Range(log'[target[b]])
            <4>1. calls[b] \in Seq(Ops) /\ log \in [Keys -> Seq(Ops)]
                BY <1>a DEF SharedTyped
            <4>2. log' = [log EXCEPT ![target[b]] = log[target[b]] \o calls[b]]
                BY <2>2, <2>6 DEF CommitBatch
            <4>3. PICK k \in Keys : k = target[b]
                BY <2>2
            <4>4. PICK r \in Seq(Ops) : r = calls[b]
                BY <4>1
            <4>5. log' = [log EXCEPT ![k] = log[k] \o r]
                BY <4>2, <4>3, <4>4
            <4>6. /\ \A j \in Keys : Range(log[j]) \subseteq Range(log'[j])
                  /\ Range(log'[k]) = Range(log[k]) \cup Range(r)
                BY <4>1, <4>5, CommitAdds
            <4> QED BY <4>3, <4>4, <4>6 DEF InBatch
        <3>3. \A c \in 1..made' : \/ pending'[target'[c]] = c \/ c \in inflight' \/ c \in rejected'
                                  \/ InBatch(c)' \subseteq Range(log'[target'[c]])
            BY <2>1, <2>3, <2>4, <3>1, <3>2 DEF WhereInv
        <3>4. ASSUME NEW u \in Agents, NEW c \in BatchIds, At(u, "publish")', cur'[u] = c
              PROVE  InBatch(c)' \subseteq Range(log'[target'[c]])
            <4>1. CASE u = a
                BY <2>1, <2>2, <2>3, <3>2, <3>4, <4>1
            <4>2. CASE u # a
                BY <2>1, <2>3, <2>5, <3>2, <3>4, <4>2 DEF WhereInv, At
            <4> QED BY <4>1, <4>2
        <3>5. \A u \in Agents : Holds(u)' => Holds(u) /\ cur'[u] = cur[u]
            BY <2>1, <2>5
        <3> QED BY <2>1, <3>1, <3>3, <3>4, <3>5 DEF WhereInv
    <2>7. CASE Publish(a) \/ RejectBatch(a) \/ PublishFails(a)
        <3>1. /\ UNCHANGED log /\ inflight' = inflight \ {b} /\ rejected \subseteq rejected'
              /\ pc'[a] = ret[a] /\ (b \in rejected' \/ At(a, "publish"))
            BY <1>a, <2>2, <2>7
            DEF Publish, RejectBatch, PublishFails, FlushFails, Goto, PlaceTyped, At
        <3>2. \A u \in Agents : Holds(u)' => u # a
            BY <1>b, <3>1 DEF Holds
        <3>3. ASSUME NEW c \in 1..made'
              PROVE  \/ pending'[target'[c]] = c \/ c \in inflight' \/ c \in rejected'
                     \/ InBatch(c)' \subseteq Range(log'[target'[c]])
            <4>1. CASE c = b
                BY <2>1, <2>2, <2>3, <3>1, <4>1 DEF WhereInv
            <4>2. CASE c # b
                BY <2>1, <2>3, <2>4, <3>1, <4>2 DEF WhereInv
            <4> QED BY <4>1, <4>2
        <3>4. \A u \in Agents, c \in BatchIds : At(u, "publish")' /\ cur'[u] = c =>
                 InBatch(c)' \subseteq Range(log'[target'[c]])
            BY <2>1, <2>3, <2>5, <3>1, <3>2 DEF WhereInv, At, Holds
        <3>5. \A u \in Agents : Holds(u)' => cur'[u] \in inflight'
            BY <2>5, <3>1, <3>2 DEF WhereInv
        <3>6. \A u, v \in Agents : Holds(u)' /\ Holds(v)' /\ cur'[u] = cur'[v] => u = v
            BY <2>5, <3>2 DEF WhereInv
        <3> QED BY <2>1, <3>1, <3>3, <3>4, <3>5, <3>6 DEF WhereInv
    <2> QED BY <1>5, <2>6, <2>7 DEF Flush
<1>6. ASSUME NEW t \in Threads, Direct(t) PROVE WhereInv'
    <2>1. OthersStay(t) /\ UNCHANGED <<pending, calls, target, made, inflight, rejected>>
        BY <1>6, OneAgentMoves DEF Step, Finish, Direct, queue
    <2>2. ~Holds(t) /\ ~Holds(t)' /\ ~CommitBatch(t)
        BY <1>a, <1>6 DEF Direct, Goto, Holds, At, PlaceTyped, CommitBatch
    <2>3. \A k \in Keys : Range(log[k]) \subseteq Range(log'[k])
        <3>1. CASE UNCHANGED log
            BY <3>1
        <3>2. ASSUME NEW k \in Keys, NEW r \in Seq(Ops), log' = [log EXCEPT ![k] = log[k] \o r]
              PROVE  \A j \in Keys : Range(log[j]) \subseteq Range(log'[j])
            BY <1>a, <3>2, CommitAdds DEF SharedTyped
        <3> QED BY <1>6, <2>2, <3>1, <3>2, CommitsOf
    <2> QED BY <1>2, <2>1, <2>2, <2>3
<1>7. ASSUME NEW t \in Threads, Take(t) PROVE WhereInv'
    <2>1. /\ OthersStay(t) /\ ~Holds(t) /\ key[t] \in Keys
          /\ UNCHANGED <<calls, target, made, rejected, log>>
        BY <1>a, <1>7, OneAgentMoves DEF Step, Enqueue, Take, Holds, At, PlaceTyped
    <2>2. CASE Claimable(pending[key[t]], expect[t])
        <3>1. PICK b \in BatchIds : b = pending[key[t]]
            BY <1>a, <2>1, <2>2 DEF Claimable, SharedTyped
        <3> QED BY <1>3, <1>7, <2>1, <2>2, <3>1 DEF Take
    <2>3. CASE ~Claimable(pending[key[t]], expect[t])
        <3>1. pc'[t] = ret[t] /\ UNCHANGED <<pending, inflight>>
            BY <1>a, <1>7, <2>3 DEF Take, Goto, PlaceTyped
        <3>2. ~Holds(t)'
            BY <1>b, <3>1 DEF Holds
        <3> QED BY <1>2, <2>1, <3>1, <3>2
    <2> QED BY <2>2, <2>3
<1>8. ASSUME NEW x \in Timers, NEW b \in BatchIds, TimerFires(x, b) PROVE WhereInv'
    <2>1. /\ OthersStay(x) /\ ~Holds(x) /\ target[b] \in Keys
          /\ UNCHANGED <<calls, target, made, rejected, log>>
        BY <1>a, <1>8, OneAgentMoves DEF TimerFires, Holds, At, SharedTyped
    <2>2. CASE pending[target[b]] = b
        BY <1>3, <1>8, <2>1, <2>2 DEF TimerFires
    <2>3. CASE pending[target[b]] # b
        <3>1. UNCHANGED <<pending, inflight, pc>>
            BY <1>8, <2>3 DEF TimerFires
        <3>2. ~Holds(x)'
            BY <2>1, <3>1 DEF Holds
        <3> QED BY <1>2, <2>1, <3>1, <3>2
    <2> QED BY <2>2, <2>3
<1>9. ASSUME NEW t \in Threads, Call(t) PROVE WhereInv'
    <2>1. OthersStay(t) /\ UNCHANGED <<pending, calls, target, made, inflight, rejected, log, cur>>
        BY <1>9, OneAgentMoves, CallIssues
    <2>2. CASE UNCHANGED pc
        BY <1>1, <2>1, <2>2
    <2>3. CASE ~Holds(t) /\ ~Holds(t)'
        BY <1>2, <2>1, <2>3
    <2> QED BY <1>9, <2>2, <2>3, CallIssues
<1>10. ASSUME NEW t \in Threads,
              Check(t) \/ NextKey(t) \/ WaitInflight(t) \/ FlushReturns(t) \/ Observe(t)
       PROVE  WhereInv'
    <2>1. OthersStay(t)
        BY <1>10, OneAgentMoves DEF Step, Enqueue, Finish
    <2>2. UNCHANGED <<pending, calls, target, made, inflight, rejected, log>>
        BY <1>10 DEF Check, NextKey, WaitInflight, FlushReturns, Observe, queue
    <2>3. ~Holds(t) /\ ~Holds(t)'
        BY <1>a, <1>10 DEF Check, NextKey, WaitInflight, FlushReturns, Observe, Holds, At, Goto,
                           PlaceTyped
    <2> QED BY <1>2, <2>1, <2>2, <2>3
<1>11. CASE UNCHANGED vars
    BY <1>1, <1>11 DEF vars, queue, mine
<1> QED BY <1>4, <1>5, <1>6, <1>7, <1>8, <1>9, <1>10, <1>11
        DEF Next, Step, Enqueue, Finish, TimerStep, Quiescent

\* Every step keeps every mutation in one place.
LEMMA OnceStep == BaseInv /\ WhereInv /\ OnceInv /\ [Next]_vars => OnceInv'
<1> SUFFICES ASSUME BaseInv, WhereInv, OnceInv, [Next]_vars PROVE OnceInv'
    OBVIOUS
<1> USE BatchConstantsOK, Names
<1>a. SharedTyped /\ PlaceTyped /\ CountTyped /\ IdInv /\ OpInv
    BY TypeParts DEF BaseInv
<1>b. /\ made \in Nat /\ issued \in Nat /\ 1..issued \subseteq Ops
      /\ \A a \in Agents : ret[a] \in {"idle", "append", "observe", "direct", "next_key"}
    BY <1>a DEF SharedTyped, CountTyped, IdInv, Ops
<1>c. \A b \in BatchIds : InBatch(b) \subseteq Appended
    BY DEF Appended
\* Batches and VFS files stay as they are: an agent moves and may claim a batch.
<1>1. ASSUME NEW a \in Agents, OthersStay(a), UNCHANGED <<calls, log>>,
             issued' \in {issued, issued + 1},
             \A k \in Keys : pending'[k] \in {pending[k], None},
             \A b \in BatchIds : pc'[a] = "commit" /\ cur'[a] = b => InBatch(b) \cap Committed = {},
             a \in Threads /\ Carries(a)' => op'[a] \notin Committed
      PROVE  OnceInv'
    <2>1. Committed' = Committed /\ \A b \in BatchIds : InBatch(b)' = InBatch(b)
        BY <1>1 DEF Committed, InBatch
    <2>2. \A t \in Threads : Carries(t)' => op'[t] \notin Committed'
        <3>1. \A t \in Threads \ {a} : Carries(t)' => Carries(t) /\ op'[t] = op[t]
            BY <1>1 DEF OthersStay, Carries, Heads, Flushing, At
        <3> QED BY <1>1, <2>1, <3>1 DEF OnceInv
    <2>3. \A u \in Agents, b \in BatchIds : At(u, "commit")' /\ cur'[u] = b =>
             InBatch(b)' \cap Committed' = {}
        BY <1>1, <2>1 DEF OnceInv, OthersStay, At
    <2>4. \A k \in Keys, b \in BatchIds : pending'[k] = b => InBatch(b)' \cap Committed' = {}
        BY <1>1, <2>1 DEF OnceInv, BatchIds, None
    <2>5. Committed' \subseteq 1..issued'
        BY <1>b, <1>1, <2>1 DEF OnceInv
    <2> QED BY <1>1, <2>1, <2>2, <2>3, <2>4, <2>5 DEF OnceInv, Distinct
<1>2. CASE UNCHANGED <<pending, calls, log, issued, pc, ret, cur, op>>
    <2>1. Committed' = Committed /\ \A b \in BatchIds : InBatch(b)' = InBatch(b)
        BY <1>2 DEF Committed, InBatch
    <2> QED BY <1>2, <2>1 DEF OnceInv, Distinct, Carries, Heads, Flushing, At
<1>3. ASSUME NEW t \in Threads, Call(t) PROVE OnceInv'
    <2>1. OthersStay(t) /\ UNCHANGED <<pending, calls, log, cur>>
        BY <1>3, OneAgentMoves, CallIssues
    <2>2. \A b \in BatchIds : pc'[t] = "commit" /\ cur'[t] = b => InBatch(b) \cap Committed = {}
        <3>1. pc'[t] = "commit" => pc[t] = "commit"
            BY <1>3, CallIssues DEF Holds
        <3> QED BY <2>1, <3>1 DEF OnceInv, At
    <2>3. CASE Issue(t)
        <3>1. issued' = issued + 1 /\ op'[t] = issued + 1
            BY <1>a, <2>3 DEF Issue, CountTyped
        <3>2. op'[t] \notin Committed
            BY <1>b, <3>1 DEF OnceInv
        <3> QED BY <1>1, <2>1, <2>2, <3>1, <3>2
    <2>4. CASE UNCHANGED <<issued, author, op>> /\ (Carries(t)' => Carries(t))
        <3>1. Carries(t)' => op'[t] \notin Committed
            BY <2>4 DEF OnceInv
        <3> QED BY <1>1, <2>1, <2>2, <2>4, <3>1
    <2> QED BY <1>3, <2>3, <2>4, CallIssues
<1>4. ASSUME NEW t \in Threads, AppendCall(t) PROVE OnceInv'
    <2>1. PICK b \in BatchIds, l \in {"take", "idle"} :
              /\ b = IF pending[key[t]] = None THEN made + 1 ELSE pending[key[t]]
              /\ pending' = [pending EXCEPT ![key[t]] = b]
              /\ calls' = [calls EXCEPT ![b] = Append(calls[b], op[t])]
              /\ ret' = [ret EXCEPT ![t] = "idle"]
              /\ pc' = [pc EXCEPT ![t] = l] /\ pc[t] = "append" /\ op[t] \in Ops
              /\ UNCHANGED <<op, cur, log, count>>
        BY <1>4, AppendFacts
    <2>2. /\ \A c \in BatchIds \ {b} : calls'[c] = calls[c] /\ InBatch(c)' = InBatch(c)
          /\ calls'[b] = Append(calls[b], op[t]) /\ InBatch(b)' = InBatch(b) \cup {op[t]}
        BY <2>1, AppendedGrows
    <2>3. op[t] \notin Appended /\ op[t] \notin Committed /\ Carries(t)
        BY <1>a, <2>1 DEF OpInv, OnceInv, Carries, Heads, At
    <2>4. Committed' = Committed /\ key[t] \in Keys
        BY <1>a, <2>1 DEF Committed, PlaceTyped
    <2>5. InBatch(b) \cap Committed = {} /\ b \notin inflight
        <3>1. CASE pending[key[t]] = None
            <4>1. b > made
                BY <1>b, <2>1, <3>1
            <4>2. InBatch(b) = {}
                BY <1>a, <4>1 DEF IdInv, InBatch, Range
            <4>3. inflight \subseteq 1..made
                BY DEF WhereInv
            <4>4. made \in Nat
                BY <1>b
            <4>5. b \notin 1..made
                BY <4>1, <4>4
            <4> QED BY <4>2, <4>3, <4>5
        <3>2. CASE pending[key[t]] # None
            BY <2>1, <2>4, <3>2 DEF OnceInv, WhereInv
        <3> QED BY <3>1, <3>2
    <2>6. \A c, d \in BatchIds : c # d => InBatch(c)' \cap InBatch(d)' = {}
        BY <1>c, <2>2, <2>3 DEF OnceInv
    <2>7. \A c \in BatchIds : Distinct(calls[c])'
        <3>1. Distinct(calls'[b])
            <4>1. calls[b] \in Seq(Ops) /\ Distinct(calls[b]) /\ op[t] \notin Range(calls[b])
                BY <1>a, <1>c, <2>3 DEF SharedTyped, OnceInv, InBatch
            <4> QED BY <2>1, <2>2, <4>1, DistinctAppend
        <3> QED BY <2>2, <3>1 DEF OnceInv, Distinct
    <2>8. \A u \in Threads : Carries(u)' => op'[u] \notin Committed'
        <3>1. \A u \in Threads : Carries(u)' => Carries(u)
            BY <1>a, <2>1 DEF PlaceTyped, Carries, Heads, Flushing, At
        <3> QED BY <2>1, <2>4, <3>1 DEF OnceInv
    <2>9. \A k \in Keys, c \in BatchIds : pending'[k] = c => InBatch(c)' \cap Committed' = {}
        <3>1. \A k \in Keys : pending'[k] = b \/ pending'[k] = pending[k]
            BY <1>a, <2>1 DEF SharedTyped
        <3>2. InBatch(b)' \cap Committed' = {}
            BY <2>2, <2>3, <2>4, <2>5
        <3> QED BY <2>2, <2>4, <3>1, <3>2 DEF OnceInv
    <2>10. ASSUME NEW u \in Agents, NEW c \in BatchIds, At(u, "commit")', cur'[u] = c
           PROVE  InBatch(c)' \cap Committed' = {}
        <3>1. At(u, "commit") /\ cur[u] = c
            BY <1>a, <2>1, <2>10 DEF PlaceTyped, At
        <3>2. c # b
            BY <2>5, <3>1 DEF WhereInv, Holds, At
        <3> QED BY <2>2, <2>4, <3>1, <3>2 DEF OnceInv
    <2>11. \A k \in Keys : Distinct(log[k])'
        BY <2>1 DEF OnceInv, Distinct
    <2>12. Committed' \subseteq 1..issued'
        BY <2>1, <2>4 DEF OnceInv, count
    <2> QED BY <2>6, <2>7, <2>8, <2>9, <2>10, <2>11, <2>12 DEF OnceInv
\* A commit appends what nothing committed, queued or carried has in common with it.
<1>5. ASSUME NEW a \in Agents, OthersStay(a), NEW k \in Keys, NEW r \in Seq(Ops),
             log' = [log EXCEPT ![k] = log[k] \o r],
             UNCHANGED <<calls, pending, issued, op, cur>>,
             pc'[a] # "commit", Distinct(r), Range(r) \cap Committed = {}, Range(r) \subseteq 1..issued,
             \A j \in Keys, b \in BatchIds : pending[j] = b => InBatch(b) \cap Range(r) = {},
             \A u \in Agents \ {a}, b \in BatchIds : At(u, "commit") /\ cur[u] = b =>
                InBatch(b) \cap Range(r) = {},
             \A t \in Threads : Carries(t)' => Carries(t) /\ op[t] \notin Range(r)
      PROVE  OnceInv'
    <2>1. /\ log'[k] = log[k] \o r /\ \A j \in Keys \ {k} : log'[j] = log[j]
          /\ Committed' = Committed \cup Range(r)
        BY <1>a, <1>5, CommitAdds DEF SharedTyped
    <2>2. \A b \in BatchIds : InBatch(b)' = InBatch(b)
        BY <1>5 DEF InBatch
    <2>3. \A j \in Keys : Distinct(log[j])'
        <3>1. log[k] \in Seq(Ops) /\ Distinct(log[k]) /\ Range(log[k]) \subseteq Committed
            BY <1>a DEF SharedTyped, OnceInv, Committed
        <3>2. Distinct(log[k] \o r)
            BY <1>5, <3>1, DistinctConcat
        <3> QED BY <2>1, <3>2 DEF OnceInv, Distinct
    <2>4. \A t \in Threads : Carries(t)' => op'[t] \notin Committed'
        BY <1>5, <2>1 DEF OnceInv
    <2>5. \A j \in Keys, b \in BatchIds : pending'[j] = b => InBatch(b)' \cap Committed' = {}
        BY <1>5, <2>1, <2>2 DEF OnceInv
    <2>6. \A u \in Agents, b \in BatchIds : At(u, "commit")' /\ cur'[u] = b =>
             InBatch(b)' \cap Committed' = {}
        BY <1>5, <2>1, <2>2 DEF OnceInv, OthersStay, At
    <2>7. Committed' \subseteq 1..issued'
        BY <1>5, <2>1 DEF OnceInv
    <2>8. \A b, c \in BatchIds : b # c => InBatch(b)' \cap InBatch(c)' = {}
        BY <2>2 DEF OnceInv
    <2>9. \A b \in BatchIds : Distinct(calls[b])'
        BY <1>5 DEF OnceInv, Distinct
    <2> QED BY <2>3, <2>4, <2>5, <2>6, <2>7, <2>8, <2>9 DEF OnceInv
<1>6. ASSUME NEW a \in Agents, CommitBatch(a) PROVE OnceInv'
    <2>1. /\ OthersStay(a) /\ UNCHANGED <<calls, pending, issued, op, cur>> /\ pc'[a] = "publish"
          /\ At(a, "commit") /\ Holds(a) /\ ~AppendCall(a)
        BY <1>a, <1>6, OneAgentMoves
        DEF Step, Flush, CommitBatch, queue, mine, count, Goto, PlaceTyped, Holds, At, AppendCall
    <2>2. PICK k \in Keys, r \in Seq(Ops) :
            log' = [log EXCEPT ![k] = log[k] \o r] /\ k = target[cur[a]] /\ r = calls[cur[a]]
        <3>1. ~Direct(a)
            BY <2>1 DEF Direct, At
        <3> QED BY <1>6, <3>1, CommitsOf
    <2>3. PICK b \in BatchIds : b = cur[a] /\ b \in inflight
        BY <1>a, <2>1 DEF IdInv, WhereInv, BatchIds, SharedTyped
    <2>4. r = calls[b] /\ Range(r) = InBatch(b)
        BY <2>2, <2>3 DEF InBatch
    <2>5. Distinct(r) /\ Range(r) \cap Committed = {} /\ Range(r) \subseteq 1..issued
        <3>1. Distinct(calls[b])
            BY DEF OnceInv
        <3>2. InBatch(b) \cap Committed = {}
            BY <2>1, <2>3 DEF OnceInv
        <3>3. InBatch(b) \subseteq Appended /\ Appended \subseteq 1..issued
            BY <1>a, <1>c DEF OpInv
        <3> QED BY <2>4, <3>1, <3>2, <3>3
    <2>6. ASSUME NEW j \in Keys, NEW c \in BatchIds, pending[j] = c
          PROVE  InBatch(c) \cap Range(r) = {}
        <3>1. c # b
            BY <2>3, <2>6 DEF WhereInv
        <3> QED BY <2>4, <3>1 DEF OnceInv
    <2>7. ASSUME NEW u \in Agents \ {a}, NEW c \in BatchIds, At(u, "commit"), cur[u] = c
          PROVE  InBatch(c) \cap Range(r) = {}
        <3>1. c # b
            BY <2>1, <2>3, <2>7 DEF WhereInv, Holds, At
        <3> QED BY <2>4, <3>1 DEF OnceInv
    <2>8. \A t \in Threads : Carries(t)' => Carries(t) /\ op[t] \notin Range(r)
        <3>1. Carries(a)' => Carries(a)
            BY <1>6, <2>1, CarriesKept DEF Step, Flush
        <3>2. \A t \in Threads \ {a} : Carries(t)' => Carries(t)
            BY <2>1 DEF OthersStay, Carries, Heads, Flushing, At
        <3> QED BY <1>a, <1>c, <2>4, <3>1, <3>2 DEF OpInv
    <2> QED BY <1>5, <2>1, <2>2, <2>5, <2>6, <2>7, <2>8
<1>7. ASSUME NEW t \in Threads, Direct(t) PROVE OnceInv'
    <2>1. /\ OthersStay(t) /\ UNCHANGED <<calls, pending, issued, op, cur>> /\ pc'[t] = "idle"
          /\ Carries(t) /\ ~CommitBatch(t) /\ ~Carries(t)'
        BY <1>a, <1>7, OneAgentMoves
        DEF Step, Finish, Direct, CommitBatch, queue, mine, count, Goto, PlaceTyped, Carries, Heads,
            Flushing, At
    <2>2. op[t] \in 1..issued /\ author[op[t]] = t /\ op[t] \notin Appended /\ op[t] \notin Committed
        BY <1>a, <2>1 DEF OpInv, OnceInv
    <2>3. CASE UNCHANGED log
        <3>1. \A b \in BatchIds : pc'[t] = "commit" /\ cur'[t] = b => InBatch(b) \cap Committed = {}
            BY <2>1
        <3> QED BY <1>1, <2>1, <2>3, <3>1
    <2>4. ASSUME NEW k \in Keys, NEW r \in Seq(Ops), r = <<op[t]>>,
                 log' = [log EXCEPT ![k] = log[k] \o r]
          PROVE  OnceInv'
        <3>1. Range(r) = {op[t]} /\ Distinct(r)
            BY <1>b, <2>2, <2>4, DistinctOne
        <3>2. \A u \in Threads : Carries(u)' => Carries(u) /\ op[u] \notin Range(r)
            <4>1. \A u \in Threads : Carries(u)' => u # t /\ Carries(u)
                BY <2>1 DEF OthersStay, Carries, Heads, Flushing, At
            <4> QED BY <1>a, <2>2, <3>1, <4>1 DEF OpInv
        <3>3. \A b \in BatchIds : InBatch(b) \cap Range(r) = {}
            BY <1>c, <2>2, <3>1
        <3>4. Range(r) \cap Committed = {} /\ Range(r) \subseteq 1..issued
            BY <2>2, <3>1
        <3>5. pc'[t] # "commit"
            BY <2>1
        <3>6. /\ \A j \in Keys, b \in BatchIds : pending[j] = b => InBatch(b) \cap Range(r) = {}
              /\ \A u \in Agents \ {t}, b \in BatchIds : At(u, "commit") /\ cur[u] = b =>
                    InBatch(b) \cap Range(r) = {}
            BY <3>3
        <3>7. OthersStay(t) /\ UNCHANGED <<calls, pending, issued, op, cur>> /\ Distinct(r)
            BY <2>1, <3>1
        <3>8. log' = [log EXCEPT ![k] = log[k] \o r]
            BY <2>4
        <3> QED BY <1>5, <3>2, <3>4, <3>5, <3>6, <3>7, <3>8
    <2> QED BY <1>7, <2>1, <2>3, <2>4, CommitsOf
<1>8. ASSUME NEW a \in Agents, NEW k \in Keys, NEW b \in BatchIds, pending[k] = b, Claim(a, b, k),
             OthersStay(a), UNCHANGED <<calls, log, issued, op>>, Carries(a)' => Carries(a)
      PROVE  OnceInv'
    <2>1. cur'[a] = b /\ \A j \in Keys : pending'[j] \in {pending[j], None}
        BY <1>a, <1>8 DEF Claim, SharedTyped, PlaceTyped
    <2>2. InBatch(b) \cap Committed = {}
        BY <1>8 DEF OnceInv
    <2>3. a \in Threads /\ Carries(a)' => op'[a] \notin Committed
        BY <1>8 DEF OnceInv
    <2> QED BY <1>1, <1>8, <2>1, <2>2, <2>3
\* Nothing is claimed or committed.
<1>9. ASSUME NEW a \in Agents, OthersStay(a), UNCHANGED <<pending, calls, log, issued, op>>,
             pc'[a] # "commit", Carries(a)' => Carries(a)
      PROVE  OnceInv'
    <2>1. a \in Threads /\ Carries(a)' => op'[a] \notin Committed
        BY <1>9 DEF OnceInv
    <2> QED BY <1>1, <1>9, <2>1
<1>10. ASSUME NEW t \in Threads, Take(t) PROVE OnceInv'
    <2>1. /\ OthersStay(t) /\ key[t] \in Keys /\ UNCHANGED <<calls, log, issued, op>>
          /\ ~AppendCall(t)
        BY <1>a, <1>10, OneAgentMoves DEF Step, Enqueue, Take, At, AppendCall, count, PlaceTyped
    <2>2. Carries(t)' => Carries(t)
        BY <1>10, <2>1, CarriesKept DEF Step, Enqueue
    <2>3. CASE Claimable(pending[key[t]], expect[t])
        <3>1. PICK b \in BatchIds : b = pending[key[t]]
            BY <1>a, <2>1, <2>3 DEF Claimable, SharedTyped
        <3> QED BY <1>8, <1>10, <2>1, <2>2, <2>3, <3>1 DEF Take
    <2>4. CASE ~Claimable(pending[key[t]], expect[t])
        <3>1. pc'[t] = ret[t] /\ UNCHANGED pending
            BY <1>a, <1>10, <2>4 DEF Take, Goto, PlaceTyped
        <3>2. pc'[t] # "commit"
            BY <1>b, <3>1
        <3> QED BY <1>9, <2>1, <2>2, <3>1, <3>2
    <2> QED BY <2>3, <2>4
<1>11. ASSUME NEW x \in Timers, NEW b \in BatchIds, TimerFires(x, b) PROVE OnceInv'
    <2>1. /\ OthersStay(x) /\ target[b] \in Keys /\ UNCHANGED <<calls, log, issued, op>>
          /\ ~AppendCall(x) /\ pc[x] = "idle"
        BY <1>a, <1>11, OneAgentMoves DEF TimerFires, At, AppendCall, count, SharedTyped
    <2>2. Carries(x)' => Carries(x)
        BY <1>11, <2>1, CarriesKept
    <2>3. CASE pending[target[b]] = b
        BY <1>8, <1>11, <2>1, <2>2, <2>3 DEF TimerFires
    <2>4. CASE pending[target[b]] # b
        BY <1>9, <1>11, <2>1, <2>2, <2>4 DEF TimerFires
    <2> QED BY <2>3, <2>4
<1>12. ASSUME NEW a \in Agents,
              \/ RejectBatch(a) \/ Publish(a) \/ PublishFails(a) \/ Check(a) \/ NextKey(a)
              \/ WaitInflight(a) \/ FlushReturns(a) \/ Observe(a)
       PROVE  OnceInv'
    <2>1. OthersStay(a) /\ Step(a)
        <3>1. Step(a)
            BY <1>12 DEF Step, Flush, Enqueue, Finish
        <3> QED BY <3>1, OneAgentMoves
    <2>2. UNCHANGED <<pending, calls, log, issued, op>> /\ ~AppendCall(a)
        BY <1>12 DEF RejectBatch, Publish, PublishFails, FlushFails, Check, NextKey, WaitInflight,
                     FlushReturns, Observe, AppendCall, At, queue, mine, count
    <2>3. pc'[a] # "commit"
        <3>1. CASE RejectBatch(a) \/ Publish(a) \/ PublishFails(a)
            BY <1>a, <1>b, <3>1 DEF RejectBatch, Publish, PublishFails, FlushFails, Goto, PlaceTyped
        <3> QED BY <1>a, <1>12, <3>1 DEF Check, NextKey, WaitInflight, FlushReturns, Observe, Goto,
                                         PlaceTyped
    <2>4. Carries(a)' => Carries(a)
        BY <2>1, <2>2, CarriesKept
    <2> QED BY <1>9, <2>1, <2>2, <2>3, <2>4
<1>13. CASE UNCHANGED vars
    BY <1>2, <1>13 DEF vars, queue, mine, count
<1> QED BY <1>3, <1>4, <1>6, <1>7, <1>10, <1>11, <1>12, <1>13
        DEF Next, Step, Enqueue, Flush, Finish, TimerStep, Quiescent

\* At the start there is no batch.
LEMMA QueueInit == Init => WhereInv /\ OnceInv
<1> SUFFICES ASSUME Init PROVE WhereInv /\ OnceInv
    OBVIOUS
<1>1. Range(<<>>) = {} /\ Len(<<>>) = 0 /\ Cardinality({}) = 0
    BY FS_EmptySet DEF Range
<1>2. (\A b \in BatchIds : calls[b] = <<>>) /\ (\A k \in Keys : log[k] = <<>>)
    BY DEF Init
<1>3. Committed = {} /\ \A b \in BatchIds : InBatch(b) = {}
    BY <1>1, <1>2 DEF Committed, InBatch
<1>4. WhereInv
    BY DEF Init, WhereInv, Holds, At
<1>5. \A t \in Agents : pc[t] = "idle"
    BY DEF Init
<1>6. OnceInv
    BY <1>1, <1>2, <1>3, <1>5, Names DEF OnceInv, Distinct, At
<1> QED BY <1>4, <1>6

\* All that the theorems about the queue need to know of every state.
LEMMA QueueHolds == Spec => [](BaseInv /\ WhereInv /\ OnceInv)
BY QueueInit, BaseHolds, WhereStep, OnceStep, PTL DEF Spec

\* An accepted mutation is never lost and never applied twice, whichever threads and timers
\* flush (_take_batch and flush_key).
THEOREM NothingIsLostOrRepeated == Spec => []NothingLostOrRepeated
<1>1. BaseInv /\ WhereInv /\ OnceInv => NothingLostOrRepeated
    BY DEF WhereInv, OnceInv, Distinct, NothingLostOrRepeated
<1> QED BY <1>1, QueueHolds, PTL

-----------------------------------------------------------------------------
(***************************************************************************)
(* What flush_all waits for.                                               *)
(***************************************************************************)
\* t is in flush_all, and has still to look at a queue or at the batches in flight.
Flushes(t) == Heads(t, "next_key") \/ At(t, "wait")

\* flush_all still meets the batch: in flight, or queued for a VFS it has to look at.
Awaited(t, b) == \/ b \in inflight
                 \/ /\ pending[target[b]] = b
                    /\ target[b] \in todo[t] \/ (At(t, "take") /\ key[t] = target[b])

\* Until it has waited, every mutation it owes is durable, in a batch it still meets, or
\* the count of failures has grown.
FlushInv ==
    /\ \A t \in Threads : Flushes(t) => before[t] <= failures
    /\ \A t \in Threads : Flushes(t) =>
          \/ failures > before[t]
          \/ \A o \in owed[t] \ Committed : \E b \in BatchIds : o \in InBatch(b) /\ Awaited(t, b)
    /\ \A t \in Threads : At(t, "wait") => todo[t] = {}
    /\ \A t \in Threads : At(t, "take") /\ ret[t] = "next_key" => expect[t] = None
    /\ \A t \in Threads : At(t, "flushed") => bad[t] \/ owed[t] \subseteq Committed

\* Every step keeps what is committed and what a batch holds, and counts no failure away.
\* A queued batch stays queued or is claimed; one in flight stays there, is reported as
\* failed, or is durable.
Grows == /\ Committed \subseteq Committed' /\ failures <= failures'
         /\ \A b \in BatchIds : InBatch(b) \subseteq InBatch(b)'
BatchGoesOn(b) ==
    /\ pending[target[b]] = b =>
          b \in inflight' \/ (target'[b] = target[b] /\ pending'[target[b]] = b)
    /\ b \in inflight => b \in inflight' \/ failures' > failures \/ InBatch(b) \subseteq Committed

\* What one step can do to a batch.
LEMMA BatchesGoOn ==
    BaseInv /\ WhereInv /\ [Next]_vars => Grows /\ \A b \in BatchIds : BatchGoesOn(b)
<1> SUFFICES ASSUME BaseInv, WhereInv, [Next]_vars
             PROVE  Grows /\ \A b \in BatchIds : BatchGoesOn(b)
    OBVIOUS
<1> USE BatchConstantsOK, Names
<1>a. SharedTyped /\ PlaceTyped /\ CountTyped /\ IdInv
    BY TypeParts DEF BaseInv
<1>b. failures \in Nat
    BY <1>a DEF SharedTyped
\* Steps that leave the queue alone, but for a commit.
<1>1. ASSUME UNCHANGED <<pending, calls, target, inflight>>, failures' = failures,
             Committed \subseteq Committed'
      PROVE  Grows /\ \A b \in BatchIds : BatchGoesOn(b)
    BY <1>b, <1>1 DEF Grows, BatchGoesOn, InBatch
<1>2. ASSUME NEW a \in Agents, NEW k \in Keys, NEW c \in BatchIds, pending[k] = c, Claim(a, c, k),
             UNCHANGED <<calls, target, failures, log>>
      PROVE  Grows /\ \A b \in BatchIds : BatchGoesOn(b)
    <2>1. /\ inflight' = inflight \cup {c}
          /\ \A j \in Keys : pending'[j] = IF j = k THEN None ELSE pending[j]
        BY <1>a, <1>2 DEF Claim, SharedTyped
    <2>2. target[c] = k /\ \A b \in BatchIds : target[b] \in Keys
        <3>1. c # None
            BY DEF BatchIds, None
        <3>2. target[c] = k
            BY <1>a, <1>2, <3>1 DEF IdInv
        <3> QED BY <1>a, <3>2 DEF SharedTyped
    <2>3. Grows
        BY <1>b, <1>2 DEF Grows, Committed, InBatch
    <2>4. \A b \in BatchIds : BatchGoesOn(b)
        BY <1>2, <2>1, <2>2 DEF BatchGoesOn
    <2> QED BY <2>3, <2>4
<1>3. ASSUME NEW t \in Threads, AppendCall(t)
      PROVE  Grows /\ \A b \in BatchIds : BatchGoesOn(b)
    <2>1. PICK b \in BatchIds :
              /\ b = IF pending[key[t]] = None THEN made + 1 ELSE pending[key[t]]
              /\ pending' = [pending EXCEPT ![key[t]] = b]
              /\ calls' = [calls EXCEPT ![b] = Append(calls[b], op[t])]
              /\ target' = [target EXCEPT ![b] = key[t]]
              /\ op[t] \in Ops /\ UNCHANGED <<inflight, log>>
        BY <1>3, AppendFacts
    <2>2. UNCHANGED failures /\ key[t] \in Keys
        BY <1>a, <1>3 DEF AppendCall, PlaceTyped
    <2>3. \A c \in BatchIds : InBatch(c) \subseteq InBatch(c)'
        <3>1. /\ \A c \in BatchIds \ {b} : InBatch(c)' = InBatch(c)
              /\ InBatch(b)' = InBatch(b) \cup {op[t]}
            BY <2>1, AppendedGrows
        <3> QED BY <3>1
    <2>4. Grows
        BY <1>b, <2>1, <2>2, <2>3 DEF Grows, Committed
    <2>5. ASSUME NEW c \in BatchIds, pending[target[c]] = c
          PROVE  target'[c] = target[c] /\ pending'[target[c]] = c
        <3>1. target[c] \in Keys /\ target[c] = key[t] => c = b
            BY <1>a, <2>1, <2>5 DEF SharedTyped, BatchIds, None
        <3>2. c # b => target'[c] = target[c] /\ target[c] # key[t]
            <4>1. c = b \/ target[c] # key[t]
                BY <1>a, <2>1, <2>5 DEF BatchIds, None
            <4> QED BY <1>a, <2>1, <4>1 DEF SharedTyped
        <3>3. c = b => target'[c] = key[t] /\ target[c] = key[t]
            <4>1. c = b => pending[key[t]] # None
                <5>1. pending[key[t]] = None => b > made /\ pending[target[c]] <= made
                    BY <1>a, <2>1 DEF IdInv, SharedTyped
                <5>2. pending[target[c]] \in Nat /\ made \in Nat /\ b \in Nat
                    BY <1>a, <2>5 DEF SharedTyped, BatchIds
                <5> QED BY <2>5, <5>1, <5>2
            <4>2. c = b => target[c] = key[t]
                BY <1>a, <2>1, <2>2, <4>1 DEF IdInv
            <4> QED BY <1>a, <2>1, <4>2 DEF SharedTyped
        <3>4. target[c] \in Keys
            BY <1>a DEF SharedTyped
        <3> QED BY <1>a, <2>1, <2>5, <3>2, <3>3, <3>4 DEF SharedTyped
    <2>6. \A c \in BatchIds : BatchGoesOn(c)
        BY <2>1, <2>5 DEF BatchGoesOn
    <2> QED BY <2>4, <2>6
<1>4. ASSUME NEW a \in Agents, CommitBatch(a) \/ (a \in Threads /\ Direct(a))
      PROVE  Grows /\ \A b \in BatchIds : BatchGoesOn(b)
    <2>1. UNCHANGED <<pending, calls, target, inflight>> /\ failures' = failures
        BY <1>4 DEF CommitBatch, Direct, queue
    <2>2. CASE UNCHANGED log
        BY <1>1, <2>1, <2>2 DEF Committed
    <2>3. ASSUME NEW k \in Keys, NEW r \in Seq(Ops), log' = [log EXCEPT ![k] = log[k] \o r]
          PROVE  Committed \subseteq Committed'
        <3>1. log \in [Keys -> Seq(Ops)]
            BY <1>a DEF SharedTyped
        <3>2. Committed' = Committed \cup Range(r)
            BY <2>3, <3>1, CommitAdds
        <3> QED BY <3>2
    <2> QED BY <1>1, <1>4, <2>1, <2>2, <2>3, CommitsOf
<1>5. ASSUME NEW a \in Agents, RejectBatch(a) \/ Publish(a) \/ PublishFails(a)
      PROVE  Grows /\ \A b \in BatchIds : BatchGoesOn(b)
    <2>1. /\ UNCHANGED <<pending, calls, target, log>> /\ failures' \in {failures, failures + 1}
          /\ inflight' = inflight \ {cur[a]}
        BY <1>5 DEF RejectBatch, Publish, PublishFails, FlushFails
    <2>2. Grows
        BY <1>b, <2>1 DEF Grows, Committed, InBatch
    <2>3. ASSUME NEW b \in BatchIds, b \in inflight, b \notin inflight'
          PROVE  failures' > failures \/ InBatch(b) \subseteq Committed
        <3>1. b = cur[a]
            BY <2>1, <2>3
        <3>2. CASE Publish(a)
            <4>1. InBatch(b) \subseteq Range(log[target[b]]) /\ target[b] \in Keys
                BY <1>a, <3>1, <3>2 DEF Publish, WhereInv, SharedTyped
            <4> QED BY <4>1 DEF Committed
        <3>3. CASE RejectBatch(a) \/ PublishFails(a)
            BY <1>b, <3>3 DEF RejectBatch, PublishFails, FlushFails
        <3> QED BY <1>5, <3>2, <3>3
    <2>4. \A b \in BatchIds : BatchGoesOn(b)
        BY <2>1, <2>3 DEF BatchGoesOn
    <2> QED BY <2>2, <2>4
<1>6. ASSUME NEW t \in Threads, Take(t) PROVE Grows /\ \A b \in BatchIds : BatchGoesOn(b)
    <2>1. key[t] \in Keys /\ pending[key[t]] \in BatchIds \cup {None}
        BY <1>a DEF PlaceTyped, SharedTyped
    <2>2. CASE Claimable(pending[key[t]], expect[t])
        <3>1. PICK b \in BatchIds : b = pending[key[t]]
            BY <2>1, <2>2 DEF Claimable
        <3> QED BY <1>2, <1>6, <2>1, <2>2, <3>1 DEF Take
    <2>3. CASE ~Claimable(pending[key[t]], expect[t])
        BY <1>1, <1>6, <2>3 DEF Take, Committed
    <2> QED BY <2>2, <2>3
<1>7. ASSUME NEW x \in Timers, NEW b \in BatchIds, TimerFires(x, b)
      PROVE  Grows /\ \A c \in BatchIds : BatchGoesOn(c)
    <2>1. target[b] \in Keys
        BY <1>a DEF SharedTyped
    <2>2. CASE pending[target[b]] = b
        BY <1>2, <1>7, <2>1, <2>2 DEF TimerFires
    <2>3. CASE pending[target[b]] # b
        BY <1>1, <1>7, <2>3 DEF TimerFires, Committed
    <2> QED BY <2>2, <2>3
<1>8. ASSUME NEW t \in Threads,
             Call(t) \/ Check(t) \/ NextKey(t) \/ WaitInflight(t) \/ FlushReturns(t) \/ Observe(t)
      PROVE  Grows /\ \A b \in BatchIds : BatchGoesOn(b)
    <2>1. UNCHANGED <<pending, calls, target, inflight, failures, log>>
        BY <1>8 DEF Call, Write, Recover, Barrier, FlushAll, Enable, Check, NextKey, WaitInflight,
                    FlushReturns, Observe, queue
    <2> QED BY <1>1, <2>1 DEF Committed
<1>9. CASE UNCHANGED vars
    BY <1>1, <1>9 DEF vars, queue, Committed
<1> QED BY <1>3, <1>4, <1>5, <1>6, <1>7, <1>8, <1>9
        DEF Next, Step, Enqueue, Flush, Finish, TimerStep, Quiescent

\* An agent changes only what it keeps itself for flush_all.
OthersKeep(a) == \A u \in Agents \ {a} :
    todo'[u] = todo[u] /\ before'[u] = before[u] /\ bad'[u] = bad[u] /\ owed'[u] = owed[u]

\* A step changes only its own agent's notes for flush_all.
LEMMA OneAgentKeeps ==
    ASSUME BaseInv, NEW a \in Agents,
           Call(a) \/ Step(a) \/ \E b \in BatchIds : TimerFires(a, b)
    PROVE  OthersKeep(a)
<1> USE DEF OthersKeep, PlaceTyped, KeptTyped
<1>a. PlaceTyped /\ KeptTyped
    BY TypeParts DEF BaseInv
<1>1. ASSUME NEW k \in Keys, Write(a, k) \/ Recover(a, k) PROVE OthersKeep(a)
    BY <1>1 DEF Write, Recover
<1>2. ASSUME NEW k \in Keys, NEW c \in Asks, Barrier(a, k, c) PROVE OthersKeep(a)
    BY <1>a, <1>2 DEF Barrier
<1>3. ASSUME NEW c \in Asks, FlushAll(a, c) PROVE OthersKeep(a)
    BY <1>a, <1>3 DEF FlushAll
<1>4. CASE Enable(a) \/ Observe(a) \/ Direct(a) \/ CommitBatch(a) \/ Publish(a)
    BY <1>4 DEF Enable, Observe, Direct, CommitBatch, Publish, mine
<1>5. CASE Check(a) \/ WaitInflight(a) \/ FlushReturns(a)
    BY <1>a, <1>5 DEF Check, WaitInflight, FlushReturns
<1>6. CASE AppendCall(a) \/ Take(a) \/ \E b \in BatchIds : TimerFires(a, b)
    BY <1>6 DEF AppendCall, Take, TimerFires
<1>7. CASE RejectBatch(a) \/ PublishFails(a)
    BY <1>a, <1>7 DEF RejectBatch, PublishFails, FlushFails
<1>8. CASE NextKey(a)
    BY <1>a, <1>8 DEF NextKey
<1> QED BY <1>1, <1>2, <1>3, <1>4, <1>5, <1>6, <1>7, <1>8
        DEF Call, Step, Enqueue, Flush, Finish

\* The parts of FlushInv for one thread.
FlushOf(t) ==
    /\ Flushes(t) => before[t] <= failures
    /\ Flushes(t) =>
          \/ failures > before[t]
          \/ \A o \in owed[t] \ Committed : \E b \in BatchIds : o \in InBatch(b) /\ Awaited(t, b)
    /\ At(t, "wait") => todo[t] = {}
    /\ At(t, "take") /\ ret[t] = "next_key" => expect[t] = None
    /\ At(t, "flushed") => bad[t] \/ owed[t] \subseteq Committed

\* A thread outside flush_all keeps nothing for it.
LEMMA FlushOfOther ==
    ASSUME NEW t, ~Flushes(t), ~At(t, "flushed")
    PROVE  FlushOf(t)
BY DEF FlushOf, Flushes, Heads, Flushing, At

\* It is enough that the thread still awaits every batch that was not resolved.
LEMMA FlushOfGoes ==
    ASSUME BaseInv, WhereInv, [Next]_vars, NEW t \in Threads, FlushOf(t), Flushes(t),
           ~At(t, "flushed")',
           before'[t] = before[t], owed'[t] = owed[t],
           At(t, "wait")' => todo'[t] = {},
           At(t, "take")' /\ ret'[t] = "next_key" => expect'[t] = None,
           \A b \in BatchIds : Awaited(t, b) =>
              \/ Awaited(t, b)' \/ failures' > failures \/ InBatch(b) \subseteq Committed
    PROVE  FlushOf(t)'
<1>1. failures \in Nat /\ failures' \in Nat /\ before[t] \in Nat
    <2>1. TypeOK /\ TypeOK'
        BY TypeStep DEF BaseInv
    <2> QED BY <2>1, Names DEF TypeOK
<1>2. Grows
    BY BatchesGoOn
<1>3. before[t] <= failures /\ failures <= failures'
    BY <1>2 DEF FlushOf, Grows
<1>4. before'[t] <= failures'
    BY <1>1, <1>3
<1>5. CASE failures' > failures
    <2>1. failures' > before'[t]
        BY <1>1, <1>3, <1>5
    <2> QED BY <1>4, <2>1 DEF FlushOf
<1>6. CASE failures > before[t]
    <2>1. failures' > before'[t]
        BY <1>1, <1>3, <1>6
    <2> QED BY <1>4, <2>1 DEF FlushOf
<1>7. CASE ~(failures' > failures) /\ ~(failures > before[t])
    <2>1. ASSUME NEW o \in owed'[t] \ Committed'
          PROVE  \E b \in BatchIds : o \in InBatch(b)' /\ Awaited(t, b)'
        <3>1. o \in owed[t] \ Committed
            BY <1>2, <2>1 DEF Grows
        <3>2. PICK b \in BatchIds : o \in InBatch(b) /\ Awaited(t, b)
            BY <1>7, <3>1 DEF FlushOf
        <3>3. Awaited(t, b)' /\ o \in InBatch(b)'
            BY <1>2, <1>7, <3>1, <3>2 DEF Grows
        <3> QED BY <3>3
    <2> QED BY <1>4, <2>1 DEF FlushOf
<1> QED BY <1>5, <1>6, <1>7

\* The thread stays where it is in flush_all; what the others do resolves batches.
LEMMA FlushOfStays ==
    ASSUME BaseInv, WhereInv, [Next]_vars, NEW t \in Threads, FlushOf(t),
           pc'[t] = pc[t], ret'[t] = ret[t], key'[t] = key[t], expect'[t] = expect[t],
           todo'[t] = todo[t], before'[t] = before[t], bad'[t] = bad[t], owed'[t] = owed[t]
    PROVE  FlushOf(t)'
<1>1. Grows /\ \A b \in BatchIds : BatchGoesOn(b)
    BY BatchesGoOn
<1>2. CASE Flushes(t)
    <2>1. ASSUME NEW b \in BatchIds, Awaited(t, b)
          PROVE  Awaited(t, b)' \/ failures' > failures \/ InBatch(b) \subseteq Committed
        BY <1>1, <2>1 DEF Awaited, BatchGoesOn, At
    <2>2. /\ ~At(t, "flushed")' /\ (At(t, "wait")' => todo'[t] = {})
          /\ At(t, "take")' /\ ret'[t] = "next_key" => expect'[t] = None
        BY <1>2 DEF FlushOf, Flushes, Heads, Flushing, At
    <2> QED BY <1>2, <2>1, <2>2, FlushOfGoes
<1>3. CASE At(t, "flushed")
    <2>1. bad'[t] \/ owed'[t] \subseteq Committed'
        BY <1>1, <1>3 DEF FlushOf, Grows
    <2> QED BY <1>3, <2>1 DEF FlushOf, Flushes, Heads, Flushing, At
<1>4. CASE ~Flushes(t) /\ ~At(t, "flushed")
    BY <1>4 DEF FlushOf, Flushes, Heads, Flushing, At
<1> QED BY <1>2, <1>3, <1>4

\* What a thread does itself: the two lemmas above, and the steps that begin and end a
\* flush_all.
LEMMA FlushOfMoves ==
    ASSUME BaseInv, WhereInv, [Next]_vars, NEW t \in Threads, FlushOf(t), Call(t) \/ Step(t)
    PROVE  FlushOf(t)'
<1> USE Names
<1>a. SharedTyped /\ PlaceTyped /\ KeptTyped /\ IdInv /\ t \in Agents
    BY TypeParts DEF BaseInv
<1>b. Grows /\ \A b \in BatchIds : BatchGoesOn(b)
    BY BatchesGoOn
<1>c. ret[t] \in {"idle", "append", "observe", "direct", "next_key"}
    BY <1>a DEF IdInv
\* After the step the thread is not in flush_all.
<1>1. ASSUME pc'[t] \in {"idle", "check", "append", "observe", "direct"}
             \/ (pc'[t] \in {"take", "commit", "publish"} /\ ret'[t] # "next_key")
      PROVE  FlushOf(t)'
    BY <1>1 DEF FlushOf, Flushes, Heads, Flushing, At
<1>2. ASSUME NEW k \in Keys, Write(t, k) \/ Recover(t, k) PROVE FlushOf(t)'
    <2>1. pc'[t] \in {"check", "direct"}
        BY <1>a, <1>2 DEF Write, Recover, Goto, PlaceTyped
    <2> QED BY <1>1, <2>1
<1>3. ASSUME NEW k \in Keys, NEW c \in Asks, Barrier(t, k, c) PROVE FlushOf(t)'
    <2>1. pc'[t] = "take" /\ ret'[t] # "next_key"
        BY <1>a, <1>3 DEF Barrier, BarrierLabel, Goto, PlaceTyped
    <2> QED BY <1>1, <2>1
<1>4. ASSUME NEW c \in Asks, FlushAll(t, c) PROVE FlushOf(t)'
    <2>1. /\ pc'[t] = "next_key" /\ before'[t] = failures /\ owed'[t] = Waiting \ Committed
          /\ todo'[t] = {k \in Keys : pending[k] # None}
        BY <1>a, <1>4 DEF FlushAll, Goto, PlaceTyped, KeptTyped
    <2>2. UNCHANGED <<pending, calls, target, inflight, failures, log>>
        BY <1>4 DEF FlushAll, queue
    <2>3. failures \in Nat
        BY <1>a DEF SharedTyped
    <2>4. ASSUME NEW o \in Waiting PROVE \E b \in BatchIds : o \in InBatch(b)' /\ Awaited(t, b)'
        <3>1. PICK b \in inflight \cup (Range(pending) \ {None}) : o \in InBatch(b)
            BY <2>4 DEF Waiting
        <3>2. InBatch(b)' = InBatch(b)
            BY <2>2 DEF InBatch
        <3>3. CASE b \in inflight
            BY <1>a, <2>2, <3>1, <3>2, <3>3 DEF Awaited, SharedTyped
        <3>4. CASE b \in Range(pending) \ {None}
            <4>1. PICK k \in Keys : b = pending[k]
                BY <1>a, <3>4 DEF Range, SharedTyped
            <4>2. b \in BatchIds /\ target[b] = k
                BY <1>a, <3>4, <4>1 DEF IdInv, SharedTyped
            <4>3. target'[b] = k /\ pending'[k] = b /\ k \in todo'[t]
                BY <2>1, <2>2, <3>4, <4>1, <4>2
            <4> QED BY <3>1, <3>2, <4>2, <4>3 DEF Awaited
        <3> QED BY <3>1, <3>3, <3>4
    <2>5. before'[t] <= failures'
        BY <2>1, <2>2, <2>3
    <2> QED BY <2>1, <2>4, <2>5 DEF FlushOf, At
<1>5. CASE Enable(t)
    <2>1. UNCHANGED <<pc, ret, key, expect, todo, before, bad, owed>>
        BY <1>5 DEF Enable, mine
    <2> QED BY <2>1, FlushOfStays
<1>6. CASE Check(t)
    <2>1. pc'[t] \in {"idle", "append", "take"} /\ ret'[t] = "append"
        BY <1>a, <1>6 DEF Check, Goto, PlaceTyped
    <2> QED BY <1>1, <2>1
<1>7. CASE AppendCall(t)
    <2>1. PICK l \in {"take", "idle"} : ret' = [ret EXCEPT ![t] = "idle"] /\ pc' = [pc EXCEPT ![t] = l]
        BY <1>7, AppendFacts
    <2>2. pc'[t] \in {"idle", "take"} /\ ret'[t] = "idle"
        BY <1>a, <2>1 DEF PlaceTyped
    <2> QED BY <1>1, <2>2
<1>8. CASE Take(t)
    <2>1. /\ UNCHANGED <<ret, key, expect, todo, before, owed, target>>
          /\ pc[t] = "take" /\ key[t] \in Keys
        BY <1>a, <1>8 DEF Take, At, PlaceTyped
    <2>2. pc'[t] \in {"commit", ret[t]}
        BY <1>a, <1>8 DEF Take, Claim, Goto, PlaceTyped
    <2>3. CASE ret[t] # "next_key"
        BY <1>1, <1>c, <2>1, <2>2, <2>3
    <2>4. CASE ret[t] = "next_key"
        <3>1. Flushes(t) /\ expect[t] = None
            BY <2>1, <2>4 DEF Flushes, Heads, Flushing, At, FlushOf
        <3>2. ASSUME NEW b \in BatchIds, Awaited(t, b)
              PROVE  Awaited(t, b)' \/ failures' > failures \/ InBatch(b) \subseteq Committed
            <4>1. CASE b \in inflight \/ target[b] \in todo[t]
                BY <1>b, <2>1, <3>2, <4>1 DEF Awaited, BatchGoesOn
            <4>2. CASE pending[target[b]] = b /\ key[t] = target[b]
                <5>1. Claimable(b, expect[t]) /\ pending[key[t]] = b
                    BY <3>1, <4>2 DEF Claimable, BatchIds, None
                <5>2. b \in inflight'
                    BY <1>8, <5>1 DEF Take, Claim
                <5> QED BY <5>2 DEF Awaited
            <4> QED BY <3>2, <4>1, <4>2 DEF Awaited
        <3>3. pc'[t] \in {"commit", "next_key"}
            BY <2>2, <2>4
        <3> QED BY <2>1, <3>1, <3>2, <3>3, FlushOfGoes DEF At
    <2> QED BY <2>3, <2>4
<1>9. CASE Flush(t)
    <2>1. /\ UNCHANGED <<ret, key, expect, todo, before, owed, target>>
          /\ pc[t] \in {"commit", "publish"} /\ pc'[t] \in {"publish", ret[t]}
        BY <1>a, <1>9 DEF Flush, CommitBatch, RejectBatch, Publish, PublishFails, FlushFails,
                          Goto, At, mine, queue, PlaceTyped
    <2>2. CASE ret[t] # "next_key"
        BY <1>1, <1>c, <2>1, <2>2
    <2>3. CASE ret[t] = "next_key"
        <3>1. Flushes(t)
            BY <2>1, <2>3 DEF Flushes, Heads, Flushing
        <3>2. ASSUME NEW b \in BatchIds, Awaited(t, b)
              PROVE  Awaited(t, b)' \/ failures' > failures \/ InBatch(b) \subseteq Committed
            BY <1>b, <2>1, <3>2 DEF Awaited, BatchGoesOn, At
        <3>3. pc'[t] \in {"publish", "next_key"}
            BY <2>1, <2>3
        <3> QED BY <2>1, <3>1, <3>2, <3>3, FlushOfGoes DEF At
    <2> QED BY <2>2, <2>3
<1>10. CASE NextKey(t)
    <2>1. /\ UNCHANGED <<pending, target, inflight, before, owed>> /\ pc[t] = "next_key"
          /\ expect'[t] = None
        BY <1>a, <1>10 DEF NextKey, At, queue, PlaceTyped
    <2>2. Flushes(t)
        BY <2>1 DEF Flushes, Heads, At
    <2>3. \/ \E k \in todo[t] : todo'[t] = todo[t] \ {k} /\ key'[t] = k /\ pc'[t] = "take"
          \/ todo[t] = {} /\ todo'[t] = {} /\ pc'[t] = "wait"
        BY <1>a, <1>10 DEF NextKey, Goto, PlaceTyped
    <2>4. ASSUME NEW b \in BatchIds, Awaited(t, b) PROVE Awaited(t, b)'
        BY <2>1, <2>3, <2>4 DEF Awaited, At
    <2>5. /\ ~At(t, "flushed")' /\ (At(t, "wait")' => todo'[t] = {})
        BY <2>3 DEF At
    <2> QED BY <2>1, <2>2, <2>4, <2>5, FlushOfGoes
\* No batch is in flight and no queue is left: what is owed is durable or a flush failed.
<1>11. CASE WaitInflight(t)
    <2>1. /\ pc[t] = "wait" /\ inflight = {} /\ pc'[t] = "flushed" /\ UNCHANGED <<owed, log>>
          /\ bad'[t] = (bad[t] \/ failures > before[t])
        BY <1>a, <1>11 DEF WaitInflight, At, Goto, PlaceTyped, KeptTyped
    <2>2. failures > before[t] \/ owed[t] \subseteq Committed
        BY <2>1 DEF FlushOf, Flushes, Awaited, At
    <2>3. bad'[t] \/ owed'[t] \subseteq Committed'
        BY <2>1, <2>2 DEF Committed
    <2> QED BY <2>1, <2>3 DEF FlushOf, Flushes, Heads, Flushing, At
<1>12. CASE FlushReturns(t) \/ Observe(t) \/ Direct(t)
    <2>1. pc'[t] = "idle"
        BY <1>a, <1>12 DEF FlushReturns, Observe, Direct, Goto, PlaceTyped
    <2> QED BY <1>1, <2>1
<1> QED BY <1>2, <1>3, <1>4, <1>5, <1>6, <1>7, <1>8, <1>9, <1>10, <1>11, <1>12
        DEF Call, Step, Enqueue, Finish

\* Every step keeps what flushes owe.
LEMMA FlushStep == BaseInv /\ WhereInv /\ FlushInv /\ [Next]_vars => FlushInv'
<1> SUFFICES ASSUME BaseInv, WhereInv, FlushInv, [Next]_vars, NEW t \in Threads
             PROVE  FlushOf(t)'
    BY DEF FlushInv, FlushOf
<1>1. FlushOf(t)
    BY DEF FlushInv, FlushOf
<1>2. CASE Call(t) \/ Step(t)
    BY <1>1, <1>2, FlushOfMoves
<1>3. ASSUME NEW a \in Agents, a # t, Call(a) \/ Step(a) \/ \E b \in BatchIds : TimerFires(a, b)
      PROVE  FlushOf(t)'
    <2>1. OthersStay(a) /\ OthersKeep(a)
        BY <1>3, OneAgentMoves, OneAgentKeeps
    <2>2. t \in Agents
        BY Names
    <2> QED BY <1>1, <1>3, <2>1, <2>2, FlushOfStays DEF OthersStay, OthersKeep
<1>4. CASE UNCHANGED vars
    <2>1. UNCHANGED <<pc, ret, key, expect, todo, before, bad, owed>>
        BY <1>4 DEF vars, mine
    <2> QED BY <1>1, <2>1, FlushOfStays
<1>5. \/ UNCHANGED vars \/ Call(t) \/ Step(t)
      \/ \E a \in Agents : a # t /\ (Call(a) \/ Step(a) \/ \E b \in BatchIds : TimerFires(a, b))
    <2>1. \A x \in Timers : x # t
        BY BatchConstantsOK
    <2>2. \A x \in Timers : TimerStep(x) => Step(x) \/ \E b \in BatchIds : TimerFires(x, b)
        BY DEF TimerStep, Step
    <2> QED BY <2>1, <2>2, Names DEF Next, Quiescent
<1> QED BY <1>2, <1>3, <1>4, <1>5

\* A flush_writes that reports success leaves every mutation that was queued or in flight
\* when it began durable, whoever had claimed the batches (flush_all).
THEOREM SuccessMeansDurable == Spec => []FlushOkMeansDurable
<1>1. Init => FlushInv
    <2> SUFFICES ASSUME Init, NEW t \in Threads PROVE FlushOf(t)
        BY DEF FlushInv, FlushOf
    <2>1. pc[t] = "idle"
        BY Names DEF Init
    <2> QED BY <2>1, FlushOfOther DEF Flushes, Heads, Flushing, At
<1>2. FlushInv => FlushOkMeansDurable
    BY DEF FlushInv, FlushOkMeansDurable
<1> QED BY <1>1, <1>2, QueueHolds, FlushStep, PTL DEF Spec

-----------------------------------------------------------------------------
(***************************************************************************)
(* A batch is one transaction.                                             *)
(***************************************************************************)
\* r stands in s, whole and in one piece.
Inside(s, r) == \E i \in 1..(Len(s) - Len(r) + 1) : SubSeq(s, i, i + Len(r) - 1) = r

\* What is in a sequence stays in it when something is appended; what is appended is in it.
LEMMA InsideKept ==
    ASSUME NEW S, NEW s \in Seq(S), NEW r \in Seq(S), NEW q \in Seq(S), Inside(s, r)
    PROVE  Inside(s \o q, r)
<1>1. PICK i \in 1..(Len(s) - Len(r) + 1) : SubSeq(s, i, i + Len(r) - 1) = r
    BY DEF Inside
<1>2. Len(s) \in Nat /\ Len(r) \in Nat /\ Len(q) \in Nat /\ Len(s \o q) = Len(s) + Len(q)
    OBVIOUS
<1>3. i \in 1..(Len(s \o q) - Len(r) + 1)
    BY <1>1, <1>2
<1>4. SubSeq(s \o q, i, i + Len(r) - 1) = SubSeq(s, i, i + Len(r) - 1)
    <2>1. i \in Nat \ {0} /\ i + Len(r) - 1 \in Nat /\ i + Len(r) - 1 <= Len(s)
        BY <1>1, <1>2
    <2>2. PICK m \in Nat : m = i + Len(r) - 1
        BY <2>1
    <2>3. m <= Len(s) /\ i \in Nat \ {0}
        BY <2>1, <2>2
    <2>4. SubSeq(s \o q, i, m) = SubSeq(s, i, m)
        BY <1>2, <2>3
    <2> QED BY <2>2, <2>4
<1> QED BY <1>1, <1>3, <1>4 DEF Inside

\* The end of a sequence is inside it.
LEMMA InsideLast ==
    ASSUME NEW S, NEW s \in Seq(S), NEW r \in Seq(S)
    PROVE  Inside(s \o r, r)
<1>1. Len(s) \in Nat /\ Len(r) \in Nat /\ Len(s \o r) = Len(s) + Len(r)
    OBVIOUS
<1>2. SubSeq(s \o r, Len(s) + 1, Len(s) + Len(r)) = r
    BY <1>1
<1>3. Len(s) + 1 \in 1..(Len(s \o r) - Len(r) + 1) /\ Len(s) + 1 + Len(r) - 1 = Len(s) + Len(r)
    BY <1>1
<1> QED BY <1>2, <1>3 DEF Inside

\* One batch is in the VFS whole, or none of it is anywhere.
WholeOf(b) == InBatch(b) \cap Committed = {} \/ Inside(log[target[b]], calls[b])
WholeInv   == \A b \in BatchIds : WholeOf(b)

\* The checked property in terms of Inside.
LEMMA OneTransactionIsInside ==
    BatchIsOneTransaction <=>
        \A b \in 1..made : InBatch(b) \cap Committed = {} \/ Inside(log[target[b]], calls[b])
BY DEF BatchIsOneTransaction, Inside

\* The batch that takes a call is not in the VFS yet; nothing else about batches changes.
LEMMA AppendIsEarly ==
    ASSUME BaseInv, WhereInv, OnceInv, NEW t \in Threads, AppendCall(t)
    PROVE  \E b \in BatchIds :
              /\ b = IF pending[key[t]] = None THEN made + 1 ELSE pending[key[t]]
              /\ made' = IF pending[key[t]] = None THEN made + 1 ELSE made
              /\ pending' = [pending EXCEPT ![key[t]] = b]
              /\ calls'[b] = Append(calls[b], op[t]) /\ target'[b] = key[t]
              /\ \A c \in BatchIds \ {b} : calls'[c] = calls[c] /\ target'[c] = target[c]
              /\ UNCHANGED <<inflight, log, rejected, count, op, key>>
              /\ op[t] \in Ops /\ Carries(t) /\ key[t] \in Keys
              /\ InBatch(b) \cap Committed = {} /\ b \notin inflight
              /\ pending[key[t]] = None => calls[b] = <<>>
              /\ pending[key[t]] # None => target[b] = key[t]
<1>a. SharedTyped /\ PlaceTyped /\ IdInv
    BY TypeParts DEF BaseInv
<1>1. PICK b \in BatchIds :
          /\ b = IF pending[key[t]] = None THEN made + 1 ELSE pending[key[t]]
          /\ made' = IF pending[key[t]] = None THEN made + 1 ELSE made
          /\ pending' = [pending EXCEPT ![key[t]] = b]
          /\ calls' = [calls EXCEPT ![b] = Append(calls[b], op[t])]
          /\ target' = [target EXCEPT ![b] = key[t]]
          /\ pc[t] = "append" /\ op[t] \in Ops
          /\ UNCHANGED <<key, op, inflight, log, rejected, count>>
    BY AppendFacts
<1>2. /\ calls'[b] = Append(calls[b], op[t]) /\ target'[b] = key[t]
      /\ \A c \in BatchIds \ {b} : calls'[c] = calls[c] /\ target'[c] = target[c]
    BY <1>a, <1>1 DEF SharedTyped
<1>3. Carries(t) /\ key[t] \in Keys
    BY <1>a, <1>1, Names DEF Carries, Heads, At, PlaceTyped
<1>4. CASE pending[key[t]] = None
    <2>1. b > made /\ made \in Nat
        BY <1>a, <1>1, <1>4, BatchConstantsOK DEF SharedTyped
    <2>2. calls[b] = <<>> /\ InBatch(b) = {}
        BY <1>a, <2>1 DEF IdInv, InBatch, Range
    <2>3. b \notin 1..made
        BY <2>1
    <2>4. b \notin inflight
        BY <2>3 DEF WhereInv
    <2> QED BY <1>1, <1>2, <1>3, <1>4, <2>2, <2>4
<1>5. CASE pending[key[t]] # None
    <2>1. pending[key[t]] = b /\ target[b] = key[t]
        BY <1>a, <1>1, <1>3, <1>5 DEF IdInv
    <2>2. InBatch(b) \cap Committed = {} /\ b \notin inflight
        BY <1>3, <2>1 DEF OnceInv, WhereInv
    <2> QED BY <1>1, <1>2, <1>3, <1>5, <2>1, <2>2
<1> QED BY <1>4, <1>5

\* A commit adds one batch, or one mutation that is in none; the rest shares nothing with it.
LEMMA CommitIsFresh ==
    ASSUME BaseInv, WhereInv, OnceInv, NEW a \in Agents,
           CommitBatch(a) \/ (a \in Threads /\ Direct(a)), log' # log
    PROVE  \E k \in Keys, r \in Seq(Ops) :
              /\ log'[k] = log[k] \o r /\ \A j \in Keys \ {k} : log'[j] = log[j]
              /\ Committed' = Committed \cup Range(r)
              /\ \/ /\ CommitBatch(a) /\ k = target[cur[a]] /\ r = calls[cur[a]]
                    /\ cur[a] \in BatchIds /\ cur[a] \in inflight
                    /\ InBatch(cur[a]) \cap Committed = {}
                    /\ \A b \in BatchIds \ {cur[a]} : InBatch(b) \cap Range(r) = {}
                 \/ /\ Direct(a) /\ a \in Threads /\ k = key[a] /\ Range(r) = {op[a]}
                    /\ op[a] \in 1..issued /\ author[op[a]] = a
                    /\ ~(ask[a] = "transact" /\ bad[a])
                    /\ \A b \in BatchIds : InBatch(b) \cap Range(r) = {}
<1>a. SharedTyped /\ PlaceTyped /\ CountTyped /\ IdInv /\ OpInv
    BY TypeParts DEF BaseInv
<1>1. CASE CommitBatch(a)
    <2>1. Holds(a) /\ At(a, "commit") /\ ~Direct(a)
        BY <1>1 DEF CommitBatch, Direct, Holds, At
    <2>2. PICK k \in Keys, r \in Seq(Ops) :
            log' = [log EXCEPT ![k] = log[k] \o r] /\ k = target[cur[a]] /\ r = calls[cur[a]]
        BY <1>1, <2>1, CommitsOf
    <2>3. cur[a] \in BatchIds /\ cur[a] \in inflight
        BY <1>a, <2>1, BatchConstantsOK DEF IdInv, WhereInv, BatchIds, SharedTyped
    <2>4. Range(r) = InBatch(cur[a]) /\ InBatch(cur[a]) \cap Committed = {}
        BY <2>1, <2>2, <2>3 DEF OnceInv, InBatch
    <2>5. \A b \in BatchIds \ {cur[a]} : InBatch(b) \cap Range(r) = {}
        BY <2>3, <2>4 DEF OnceInv
    <2>6. /\ log'[k] = log[k] \o r /\ \A j \in Keys \ {k} : log'[j] = log[j]
          /\ Committed' = Committed \cup Range(r)
        BY <1>a, <2>2, CommitAdds DEF SharedTyped
    <2> QED BY <1>1, <2>2, <2>3, <2>4, <2>5, <2>6
<1>2. CASE a \in Threads /\ Direct(a)
    <2>1. Carries(a) /\ key[a] \in Keys
        BY <1>a, <1>2 DEF Direct, Carries, Heads, PlaceTyped
    <2>2. op[a] \in 1..issued /\ author[op[a]] = a /\ op[a] \notin Appended
        BY <1>a, <1>2, <2>1 DEF OpInv
    <2>3. op[a] \in Ops
        <3>1. MaxIssued \in Nat /\ issued \in Nat /\ issued <= MaxIssued
            BY <1>a, BatchConstantsOK DEF CountTyped
        <3> QED BY <2>2, <3>1 DEF Ops
    <2>4. PICK r \in Seq(Ops) : r = <<op[a]>>
        <3>1. \A e \in Ops : <<e>> \in Seq(Ops)
            OBVIOUS
        <3> QED BY <2>3, <3>1
    <2>5. Range(r) = {op[a]}
        BY <2>3, <2>4, DistinctOne
    <2>6. \A b \in BatchIds : InBatch(b) \cap Range(r) = {}
        BY <2>2, <2>5 DEF Appended
    <2>7. log' = [log EXCEPT ![key[a]] = log[key[a]] \o r] /\ ~(ask[a] = "transact" /\ bad[a])
        <3>1. log[key[a]] \in Seq(Ops)
            BY <1>a, <2>1 DEF SharedTyped
        <3>2. Append(log[key[a]], op[a]) = log[key[a]] \o <<op[a]>>
            BY <2>3, <3>1
        <3> QED BY <1>2, <2>4, <3>2 DEF Direct
    <2>8. PICK k \in Keys : k = key[a]
        BY <2>1
    <2>9. /\ log'[k] = log[k] \o r /\ \A j \in Keys \ {k} : log'[j] = log[j]
          /\ Committed' = Committed \cup Range(r)
        <3>1. log' = [log EXCEPT ![k] = log[k] \o r] /\ log \in [Keys -> Seq(Ops)]
            BY <1>a, <2>7, <2>8 DEF SharedTyped
        <3> QED BY <3>1, CommitAdds
    <2> QED BY <1>2, <2>2, <2>5, <2>6, <2>7, <2>8, <2>9
<1> QED BY <1>1, <1>2

\* Every other step leaves the batches and the VFS files as they are.
LEMMA OnlyAppendOrCommit ==
    ASSUME BaseInv, [Next]_vars,
           ~\E t \in Threads : AppendCall(t),
           ~\E a \in Agents : CommitBatch(a) \/ (a \in Threads /\ Direct(a))
    PROVE  UNCHANGED <<calls, target, made, log>>
<1>1. CASE UNCHANGED vars
    BY <1>1 DEF vars, queue
<1>2. ASSUME NEW t \in Threads, Call(t) PROVE UNCHANGED <<calls, target, made, log>>
    BY <1>2, CallIssues
<1>3. ASSUME NEW a \in Agents,
             \/ Check(a) \/ Take(a) \/ RejectBatch(a) \/ Publish(a) \/ PublishFails(a) \/ NextKey(a)
             \/ WaitInflight(a) \/ FlushReturns(a) \/ Observe(a)
             \/ \E b \in BatchIds : TimerFires(a, b)
      PROVE  UNCHANGED <<calls, target, made, log>>
    BY <1>3 DEF Check, Take, RejectBatch, Publish, PublishFails, NextKey, WaitInflight, FlushReturns,
                Observe, TimerFires, queue
<1> QED BY <1>1, <1>2, <1>3, Names
        DEF Next, Step, Enqueue, Flush, Finish, TimerStep, Quiescent

\* Every step keeps batches whole.
LEMMA WholeStep == BaseInv /\ WhereInv /\ OnceInv /\ WholeInv /\ [Next]_vars => WholeInv'
<1> SUFFICES ASSUME BaseInv, WhereInv, OnceInv, WholeInv, [Next]_vars, NEW b \in BatchIds
             PROVE  WholeOf(b)'
    BY DEF WholeInv
<1>a. SharedTyped /\ PlaceTyped
    BY TypeParts DEF BaseInv
<1>b. /\ InBatch(b) \cap Committed = {} \/ Inside(log[target[b]], calls[b])
      /\ target[b] \in Keys /\ calls[b] \in Seq(Ops) /\ \A k \in Keys : log[k] \in Seq(Ops)
    BY <1>a DEF WholeInv, WholeOf, SharedTyped
<1>1. CASE UNCHANGED <<calls, target, log>>
    BY <1>b, <1>1 DEF WholeOf, InBatch, Committed
<1>2. ASSUME NEW t \in Threads, AppendCall(t) PROVE WholeOf(b)'
    <2>1. PICK c \in BatchIds :
              /\ calls'[c] = Append(calls[c], op[t])
              /\ \A d \in BatchIds \ {c} : calls'[d] = calls[d] /\ target'[d] = target[d]
              /\ UNCHANGED log /\ op[t] \in Ops /\ Carries(t) /\ InBatch(c) \cap Committed = {}
        BY <1>2, AppendIsEarly
    <2>2. Committed' = Committed
        BY <2>1 DEF Committed
    <2>3. CASE b = c
        <3>1. InBatch(b)' = InBatch(b) \cup {op[t]}
            <4>1. Range(Append(calls[b], op[t])) = Range(calls[b]) \cup {op[t]}
                BY <1>b, <2>1, RangeOfBatch
            <4>2. calls'[b] = Append(calls[b], op[t])
                BY <2>1, <2>3
            <4> QED BY <4>1, <4>2, Zenon DEF InBatch
        <3>2. op[t] \notin Committed
            BY <2>1 DEF OnceInv
        <3> QED BY <2>1, <2>2, <2>3, <3>1, <3>2 DEF WholeOf
    <2>4. CASE b # c
        BY <1>b, <2>1, <2>2, <2>4 DEF WholeOf, InBatch
    <2> QED BY <2>3, <2>4
<1>3. ASSUME NEW a \in Agents, CommitBatch(a) \/ (a \in Threads /\ Direct(a)) PROVE WholeOf(b)'
    <2>1. UNCHANGED <<calls, target>>
        BY <1>3 DEF CommitBatch, Direct, queue
    <2>2. CASE log' = log
        BY <1>1, <2>1, <2>2
    <2>3. CASE log' # log
        <3>1. PICK k \in Keys, r \in Seq(Ops) :
                /\ log'[k] = log[k] \o r /\ \A j \in Keys \ {k} : log'[j] = log[j]
                /\ Committed' = Committed \cup Range(r)
                /\ \/ /\ k = target[cur[a]] /\ r = calls[cur[a]]
                      /\ \A c \in BatchIds \ {cur[a]} : InBatch(c) \cap Range(r) = {}
                   \/ \A c \in BatchIds : InBatch(c) \cap Range(r) = {}
            BY <1>3, <2>3, CommitIsFresh
        <3>2. InBatch(b)' = InBatch(b) /\ target'[b] = target[b] /\ calls'[b] = calls[b]
            BY <2>1 DEF InBatch
        <3>3. CASE Inside(log[target[b]], calls[b])
            <4>1. CASE target[b] = k
                <5>1. Inside(log[k] \o r, calls[b])
                    BY <1>b, <3>3, <4>1, InsideKept
                <5> QED BY <3>1, <3>2, <4>1, <5>1 DEF WholeOf
            <4>2. CASE target[b] # k
                BY <1>b, <3>1, <3>2, <3>3, <4>2 DEF WholeOf
            <4> QED BY <4>1, <4>2
        <3>4. CASE InBatch(b) \cap Committed = {} /\ InBatch(b) \cap Range(r) = {}
            BY <3>1, <3>2, <3>4 DEF WholeOf
        <3>5. CASE b = cur[a] /\ k = target[cur[a]] /\ r = calls[cur[a]]
            <4>1. Inside(log[k] \o r, r)
                BY <1>b, InsideLast
            <4> QED BY <3>1, <3>2, <3>5, <4>1 DEF WholeOf
        <3> QED BY <1>b, <3>1, <3>3, <3>4, <3>5
    <2> QED BY <2>2, <2>3
<1>4. CASE ~(\E t \in Threads : AppendCall(t))
           /\ ~\E a \in Agents : CommitBatch(a) \/ (a \in Threads /\ Direct(a))
    BY <1>1, <1>4, OnlyAppendOrCommit
<1> QED BY <1>2, <1>3, <1>4

\* At the start there are none.
LEMMA WholeInit == Init => WholeInv
<1> SUFFICES ASSUME Init, NEW b \in BatchIds PROVE InBatch(b) \cap Committed = {}
    BY DEF WholeInv, WholeOf
<1>1. calls[b] = <<>>
    BY DEF Init
<1> QED BY <1>1 DEF InBatch, Range

\* So batches are always whole.
LEMMA WholeHolds == Spec => [](BaseInv /\ WhereInv /\ OnceInv /\ WholeInv)
BY WholeInit, QueueHolds, WholeStep, PTL DEF Spec

\* A batch is applied whole, in its call order and with nothing in between, or not at all,
\* although several threads and timers commit (run_transaction_calls).
THEOREM BatchesAreTransactions == Spec => []BatchIsOneTransaction
<1>1. BaseInv /\ WholeInv => BatchIsOneTransaction
    <2>1. BaseInv => 1..made \subseteq BatchIds
        BY TypeParts, BatchConstantsOK DEF BaseInv, SharedTyped, BatchIds
    <2> QED BY <2>1, OneTransactionIsInside DEF WholeInv, WholeOf
<1> QED BY <1>1, WholeHolds, PTL

-----------------------------------------------------------------------------
(***************************************************************************)
(* The calls of one thread keep their order.                               *)
(***************************************************************************)
\* Calls of one thread stand in the batches of a VFS, and in each batch, as they were made:
\* a batch that is queued is the last of its VFS, and what a thread still carries is the
\* last it has issued.
OrderInv ==
    /\ \A b \in 1..made : pending[target[b]] # None => b <= pending[target[b]]
    /\ \A t \in Threads, o \in 1..issued : Carries(t) /\ author[o] = t => o <= op[t]
    /\ \A b, c \in 1..made : target[b] = target[c] =>
          \A i \in InBatch(b), j \in InBatch(c) : author[i] = author[j] /\ i < j => b <= c
    /\ \A b \in BatchIds : \A p, q \in DOMAIN calls[b] :
          p < q /\ author[calls[b][p]] = author[calls[b][q]] => calls[b][p] < calls[b][q]

\* What was issued keeps its author.
LEMMA AuthorsStay ==
    ASSUME BaseInv, [Next]_vars
    PROVE  /\ issued' \in {issued, issued + 1} /\ issued \in Nat
           /\ \A o \in 1..issued : author'[o] = author[o]
<1>a. CountTyped
    BY TypeParts DEF BaseInv
<1>1. CASE UNCHANGED <<issued, author>>
    BY <1>a, <1>1, BatchConstantsOK DEF CountTyped
<1>2. ASSUME NEW u \in Threads, Issue(u)
      PROVE  issued' = issued + 1 /\ \A o \in 1..issued : author'[o] = author[o]
    BY <1>a, <1>2, BatchConstantsOK DEF Issue, CountTyped, Ops
<1>3. ASSUME NEW u \in Threads, Call(u) PROVE UNCHANGED <<issued, author>> \/ Issue(u)
    BY <1>3, CallIssues
<1>4. ASSUME NEW a \in Agents, Step(a) \/ \E b \in BatchIds : TimerFires(a, b)
      PROVE  UNCHANGED <<issued, author>>
    BY <1>4 DEF Step, Enqueue, Check, AppendCall, Take, Flush, CommitBatch, RejectBatch,
                Publish, PublishFails, Finish, NextKey, WaitInflight, FlushReturns, Observe,
                Direct, TimerFires, count
<1>5. UNCHANGED <<issued, author>> \/ \E u \in Threads : Issue(u)
    BY <1>3, <1>4, Names DEF Next, TimerStep, Step, Quiescent, vars, count
<1>6. issued \in Nat
    BY <1>a, BatchConstantsOK DEF CountTyped
<1> QED BY <1>1, <1>2, <1>5, <1>6

\* The mutations in batches and in the VFS files are among those issued.
LEMMA InBatchIssued ==
    ASSUME BaseInv, NEW b \in BatchIds
    PROVE  InBatch(b) \subseteq 1..issued /\ \A p \in DOMAIN calls[b] : calls[b][p] \in InBatch(b)
BY DEF BaseInv, OpInv, Appended, InBatch, Range

\* Another step leaves the batches, and queues nothing.
LEMMA QueueShrinks ==
    ASSUME BaseInv, [Next]_vars, ~\E t \in Threads : AppendCall(t)
    PROVE  UNCHANGED <<calls, target, made>> /\ \A k \in Keys : pending'[k] \in {pending[k], None}
<1>a. SharedTyped /\ PlaceTyped
    BY TypeParts DEF BaseInv
<1>1. CASE UNCHANGED vars
    BY <1>1 DEF vars, queue
<1>2. ASSUME NEW t \in Threads, Call(t)
      PROVE  UNCHANGED <<calls, target, made, pending>>
    BY <1>2, CallIssues
<1>3. ASSUME NEW a \in Agents,
             \/ Check(a) \/ Flush(a) \/ NextKey(a) \/ WaitInflight(a) \/ FlushReturns(a)
             \/ Observe(a) \/ Direct(a)
      PROVE  UNCHANGED <<calls, target, made, pending>>
    BY <1>3 DEF Check, Flush, CommitBatch, RejectBatch, Publish, PublishFails, NextKey,
                WaitInflight, FlushReturns, Observe, Direct, queue
<1>4. ASSUME NEW a \in Agents, Take(a) \/ \E b \in BatchIds : TimerFires(a, b)
      PROVE  /\ UNCHANGED <<calls, target, made>>
             /\ \A k \in Keys : pending'[k] \in {pending[k], None}
    BY <1>a, <1>4 DEF Take, TimerFires, Claim, SharedTyped
<1> QED BY <1>1, <1>2, <1>3, <1>4, Names
        DEF Next, Step, Enqueue, Finish, TimerStep, Quiescent

\* A thread carries what it carried, or what it has just issued.
LEMMA CarriesOld ==
    ASSUME BaseInv, [Next]_vars, NEW t \in Threads, Carries(t)'
    PROVE  \/ Carries(t) /\ op'[t] = op[t]
           \/ op'[t] = issued' /\ issued' = issued + 1
<1>a. PlaceTyped /\ CountTyped
    BY TypeParts DEF BaseInv
<1>1. ASSUME NEW a \in Agents, a # t, OthersStay(a) PROVE Carries(t) /\ op'[t] = op[t]
    BY <1>1, Names DEF OthersStay, Carries, Heads, Flushing, At
<1>2. CASE UNCHANGED vars
    BY <1>2 DEF vars, mine, Carries, Heads, Flushing, At
<1>3. CASE Call(t)
    <2>1. Issue(t) => op'[t] = issued' /\ issued' = issued + 1
        BY <1>a, Names DEF Issue, CountTyped
    <2> QED BY <1>3, <2>1, CallIssues
<1>4. CASE AppendCall(t)
    <2>1. PICK l \in {"take", "idle"} : ret' = [ret EXCEPT ![t] = "idle"] /\ pc' = [pc EXCEPT ![t] = l]
        BY <1>4, AppendFacts
    <2>2. ~Carries(t)'
        BY <1>a, <2>1, Names DEF Carries, Heads, Flushing, At, PlaceTyped
    <2> QED BY <2>2
<1>5. CASE Step(t) /\ ~AppendCall(t)
    BY <1>5, CarriesKept, Names
<1>6. \/ UNCHANGED vars \/ Call(t) \/ Step(t)
      \/ \E a \in Agents : a # t /\ (Call(a) \/ Step(a) \/ \E b \in BatchIds : TimerFires(a, b))
    <2>1. \A x \in Timers : x # t
        BY BatchConstantsOK
    <2>2. \A x \in Timers : TimerStep(x) => Step(x) \/ \E b \in BatchIds : TimerFires(x, b)
        BY DEF TimerStep, Step
    <2> QED BY <2>1, <2>2, Names DEF Next, Quiescent
<1> QED BY <1>1, <1>2, <1>3, <1>4, <1>5, <1>6, OneAgentMoves

\* Every step keeps the order of the mutations of a thread.
LEMMA OrderStep == BaseInv /\ WhereInv /\ OnceInv /\ OrderInv /\ [Next]_vars => OrderInv'
<1> SUFFICES ASSUME BaseInv, WhereInv, OnceInv, OrderInv, [Next]_vars PROVE OrderInv'
    OBVIOUS
<1>a. SharedTyped /\ IdInv /\ CountTyped
    BY TypeParts DEF BaseInv
<1>b. made \in Nat /\ 1..made \subseteq BatchIds
    BY <1>a, BatchConstantsOK DEF SharedTyped, BatchIds
<1>c. /\ issued' \in {issued, issued + 1} /\ issued \in Nat
      /\ \A o \in 1..issued : author'[o] = author[o]
    BY AuthorsStay
<1>d. \A b \in BatchIds : InBatch(b) \subseteq 1..issued
    BY InBatchIssued
\* What is carried.
<1>1. ASSUME NEW t \in Threads, NEW o \in 1..issued', Carries(t)', author'[o] = t
      PROVE  o <= op'[t]
    <2>1. CASE op'[t] = issued'
        BY <1>c, <2>1
    <2>2. CASE Carries(t) /\ op'[t] = op[t]
        <3>1. CASE o \in 1..issued
            BY <1>c, <1>1, <2>2, <3>1 DEF OrderInv
        \* The last one issued is of another thread.
        <3>2. CASE o \notin 1..issued
            <4>1. o = issued + 1 /\ issued' = issued + 1
                BY <1>c, <1>1, <3>2
            <4>2. PICK u \in Threads : Issue(u)
                <5>1. ASSUME NEW u \in Threads, Call(u) PROVE UNCHANGED <<issued, author>> \/ Issue(u)
                    BY <5>1, CallIssues
                <5>2. ASSUME NEW a \in Agents, Step(a) \/ \E b \in BatchIds : TimerFires(a, b)
                      PROVE  UNCHANGED <<issued, author>>
                    BY <5>2 DEF Step, Enqueue, Check, AppendCall, Take, Flush, CommitBatch,
                                RejectBatch, Publish, PublishFails, Finish, NextKey, WaitInflight,
                                FlushReturns, Observe, Direct, TimerFires, count
                <5>3. issued' # issued
                    BY <1>c, <4>1
                <5> QED BY <5>1, <5>2, <5>3, Names DEF Next, TimerStep, Step, Quiescent, vars, count
            <4>3. author'[o] = u /\ op'[u] = issued + 1
                <5>1. issued + 1 \in Ops
                    BY <1>c, <4>2, BatchConstantsOK DEF Issue, Ops
                <5> QED BY <1>a, <4>1, <4>2, <5>1, Names DEF Issue, CountTyped
            <4> QED BY <1>1, <4>1, <4>3
        <3> QED BY <3>1, <3>2
    <2> QED BY <1>1, <2>1, <2>2, CarriesOld
<1>2. CASE ~\E t \in Threads : AppendCall(t)
    <2>1. UNCHANGED <<calls, target, made>> /\ \A k \in Keys : pending'[k] \in {pending[k], None}
        BY <1>2, QueueShrinks
    <2>2. \A b \in BatchIds : InBatch(b)' = InBatch(b) /\ target[b] \in Keys
        BY <1>a, <2>1 DEF InBatch, SharedTyped
    <2>3. \A b \in 1..made' : pending'[target'[b]] # None => b <= pending'[target'[b]]
        BY <1>b, <2>1, <2>2 DEF OrderInv
    <2>4. ASSUME NEW b \in 1..made', NEW c \in 1..made', target'[b] = target'[c],
                 NEW i \in InBatch(b)', NEW j \in InBatch(c)', author'[i] = author'[j], i < j
          PROVE  b <= c
        <3>1. i \in InBatch(b) /\ j \in InBatch(c) /\ b \in 1..made /\ c \in 1..made
            BY <1>b, <2>1, <2>2, <2>4
        <3>2. author[i] = author[j]
            BY <1>b, <1>c, <1>d, <2>4, <3>1
        <3> QED BY <2>1, <2>4, <3>1, <3>2 DEF OrderInv
    <2>5. ASSUME NEW b \in BatchIds, NEW p \in DOMAIN calls'[b], NEW q \in DOMAIN calls'[b], p < q,
                 author'[calls'[b][p]] = author'[calls'[b][q]]
          PROVE  calls'[b][p] < calls'[b][q]
        <3>1. calls[b][p] \in 1..issued /\ calls[b][q] \in 1..issued
            BY <1>d, <2>1, InBatchIssued
        <3> QED BY <1>c, <2>1, <2>5, <3>1 DEF OrderInv
    <2> QED BY <1>1, <2>3, <2>4, <2>5 DEF OrderInv
<1>3. ASSUME NEW t \in Threads, AppendCall(t) PROVE OrderInv'
    <2>1. PICK b \in BatchIds :
              /\ b = IF pending[key[t]] = None THEN made + 1 ELSE pending[key[t]]
              /\ made' = IF pending[key[t]] = None THEN made + 1 ELSE made
              /\ pending' = [pending EXCEPT ![key[t]] = b]
              /\ calls'[b] = Append(calls[b], op[t]) /\ target'[b] = key[t]
              /\ \A c \in BatchIds \ {b} : calls'[c] = calls[c] /\ target'[c] = target[c]
              /\ UNCHANGED <<log, count, op>>
              /\ op[t] \in Ops /\ Carries(t) /\ key[t] \in Keys
              /\ pending[key[t]] = None => calls[b] = <<>>
              /\ pending[key[t]] # None => target[b] = key[t]
        BY <1>3, AppendIsEarly
    <2>2. UNCHANGED <<issued, author>>
        BY <2>1 DEF count
    <2>3. op[t] \in 1..issued /\ author[op[t]] = t /\ op[t] \notin Appended
        BY <2>1 DEF BaseInv, OpInv
    <2>4. calls[b] \in Seq(Ops)
        BY <1>a DEF SharedTyped
    <2>5. /\ \A c \in BatchIds \ {b} : InBatch(c)' = InBatch(c)
          /\ InBatch(b)' = InBatch(b) \cup {op[t]}
        <3>1. Range(Append(calls[b], op[t])) = Range(calls[b]) \cup {op[t]}
            BY <2>1, <2>4, RangeOfBatch
        <3>2. InBatch(b)' = InBatch(b) \cup {op[t]}
            BY <2>1, <3>1, Zenon DEF InBatch
        <3> QED BY <2>1, <3>2 DEF InBatch
    <2>6. \A k \in Keys : pending'[k] = IF k = key[t] THEN b ELSE pending[k]
        BY <1>a, <2>1 DEF SharedTyped
    \* b is the last batch of its VFS.
    <2>7. ASSUME NEW c \in 1..made', target'[c] = key[t] PROVE c <= b
        <3>1. CASE pending[key[t]] = None
            BY <1>b, <2>1, <2>7, <3>1
        <3>2. CASE pending[key[t]] # None /\ c # b
            <4>1. c \in 1..made /\ target[c] = key[t]
                BY <1>b, <2>1, <2>7, <3>2
            <4> QED BY <2>1, <3>2, <4>1 DEF OrderInv
        <3> QED BY <1>b, <2>7, <3>1, <3>2
    <2>8. b \in 1..made' /\ made' \in Nat /\ \A c \in 1..made' : c # b => c \in 1..made /\ c \in BatchIds
        <3>1. CASE pending[key[t]] = None
            BY <1>b, <2>1, <3>1
        <3>2. CASE pending[key[t]] # None
            <4>1. pending[key[t]] <= made
                BY <1>a, <2>1 DEF IdInv
            <4>2. b <= made /\ made' = made
                BY <2>1, <3>2, <4>1
            <4>3. b \in 1..made
                BY <1>b, <4>2, BatchConstantsOK DEF BatchIds
            <4> QED BY <1>b, <4>2, <4>3
        <3> QED BY <3>1, <3>2
    <2>9. ASSUME NEW c \in 1..made', pending'[target'[c]] # None PROVE c <= pending'[target'[c]]
        <3>1. CASE target'[c] = key[t]
            BY <2>1, <2>6, <2>7, <3>1
        <3>2. CASE target'[c] # key[t]
            <4>1. c # b /\ c \in 1..made /\ target'[c] = target[c] /\ target[c] \in Keys
                BY <1>a, <2>1, <2>8, <3>2 DEF SharedTyped
            <4> QED BY <2>6, <2>9, <3>2, <4>1 DEF OrderInv
        <3> QED BY <3>1, <3>2
    <2>10. \A o \in 1..issued : author[o] = t => o <= op[t]
        BY <2>1 DEF OrderInv
    <2>11. ASSUME NEW c \in 1..made', NEW d \in 1..made', target'[c] = target'[d],
                  NEW i \in InBatch(c)', NEW j \in InBatch(d)', author[i] = author[j], i < j
           PROVE  c <= d
        <3>1. i \in 1..issued /\ j \in 1..issued
            BY <1>d, <2>3, <2>5, <2>8, <2>11
        <3>2. CASE d = b
            BY <2>1, <2>7, <2>11, <3>2
        <3>3. CASE c = b /\ d # b
            <4>1. i # op[t]
                <5>1. i = op[t] => j <= op[t]
                    BY <2>3, <2>10, <2>11, <3>1
                <5> QED BY <2>11, <3>1, <5>1
            <4>2. i \in InBatch(b) /\ j \in InBatch(d) /\ d \in 1..made /\ target'[d] = target[d]
                BY <2>1, <2>5, <2>8, <2>11, <3>3, <4>1
            <4>3. pending[key[t]] # None
                <5>1. calls[b] = <<>> => InBatch(b) = {}
                    BY DEF InBatch, Range
                <5> QED BY <2>1, <4>2, <5>1
            <4>4. target[b] = key[t] /\ b \in 1..made /\ target[d] = key[t]
                <5>1. b \in 1..made
                    BY <2>1, <2>8, <4>3
                <5> QED BY <2>1, <2>11, <3>3, <4>2, <4>3, <5>1
            <4> QED BY <2>11, <3>3, <4>2, <4>4 DEF OrderInv
        <3>4. CASE c # b /\ d # b
            <4>1. /\ c \in 1..made /\ d \in 1..made /\ target'[c] = target[c] /\ target'[d] = target[d]
                  /\ i \in InBatch(c) /\ j \in InBatch(d)
                BY <2>1, <2>5, <2>8, <2>11, <3>4
            <4> QED BY <2>11, <4>1 DEF OrderInv
        <3> QED BY <3>2, <3>3, <3>4
    <2>12. ASSUME NEW c \in BatchIds, NEW p \in DOMAIN calls'[c], NEW q \in DOMAIN calls'[c], p < q,
                  author[calls'[c][p]] = author[calls'[c][q]]
           PROVE  calls'[c][p] < calls'[c][q]
        <3>1. CASE c # b
            <4>1. calls'[c] = calls[c]
                BY <2>1, <3>1
            <4> QED BY <2>12, <4>1 DEF OrderInv
        <3>2. CASE c = b
            <4>1. PICK s \in Seq(Ops) : s = calls[b]
                BY <2>4
            <4>2. /\ DOMAIN Append(s, op[t]) = 1..(Len(s) + 1) /\ Len(s) \in Nat
                  /\ DOMAIN s = 1..Len(s) /\ Append(s, op[t])[Len(s) + 1] = op[t]
                  /\ \A x \in 1..Len(s) : Append(s, op[t])[x] = s[x]
                BY <2>1
            <4>3. calls'[c] = Append(s, op[t]) /\ p \in 1..Len(s) /\ q \in 1..(Len(s) + 1)
                <5>1. calls'[c] = Append(s, op[t])
                    BY <2>1, <3>2, <4>1
                <5>2. p \in 1..(Len(s) + 1) /\ q \in 1..(Len(s) + 1)
                    BY <2>12, <4>2, <5>1
                <5> QED BY <2>12, <4>2, <5>1, <5>2
            <4>4. calls'[c][p] = s[p] /\ s[p] \in InBatch(b)
                BY <4>1, <4>2, <4>3, InBatchIssued
            <4>5. CASE q \in 1..Len(s)
                BY <2>12, <4>1, <4>2, <4>3, <4>4, <4>5 DEF OrderInv
            <4>6. CASE q = Len(s) + 1
                <5>1. calls'[c][q] = op[t] /\ author[s[p]] = t
                    BY <2>3, <2>12, <4>2, <4>3, <4>4, <4>6
                <5>2. s[p] \in 1..issued /\ s[p] # op[t]
                    BY <1>d, <2>3, <4>4 DEF Appended
                <5>3. s[p] <= op[t]
                    BY <2>10, <5>1, <5>2
                <5> QED BY <2>3, <4>4, <5>1, <5>2, <5>3
            <4> QED BY <4>2, <4>3, <4>5, <4>6
        <3> QED BY <3>1, <3>2
    <2> QED BY <1>1, <2>2, <2>9, <2>11, <2>12 DEF OrderInv
<1> QED BY <1>2, <1>3

\* The callers use nothing that goes to the engine past their own queue: recover_vfs and
\* its kind do not flush, and configure(write_batching=False) may clear the flag while a
\* call that has seen it set still waits to be appended.
NoBypass == Asks \cap {"recover", "disable"} = {}

\* Then only an explicit transaction commits directly, after its flush.
BypassInv ==
    /\ enabled = TRUE
    /\ \A a \in Agents : ask[a] \notin {"recover", "disable"}
    /\ \A t \in Threads : Heads(t, "direct") => ask[t] = "transact"

\* Without recover and disable, batching stays on.
LEMMA BypassStep ==
    ASSUME NoBypass
    PROVE  BaseInv /\ BypassInv /\ [Next]_vars => BypassInv'
<1> SUFFICES ASSUME BaseInv, BypassInv, [Next]_vars PROVE BypassInv'
    OBVIOUS
<1> USE Names
<1>a. PlaceTyped /\ IdInv
    BY TypeParts DEF BaseInv
<1>1. enabled' = TRUE
    <2>1. ASSUME NEW t \in Threads, FlushReturns(t) PROVE enabled' = TRUE
        BY <2>1 DEF FlushReturns, BypassInv
    <2>2. ASSUME NEW t \in Threads, Call(t) PROVE enabled' = TRUE
        BY <2>2 DEF Call, Write, Recover, Barrier, FlushAll, Enable, queue, BypassInv
    <2>3. ASSUME NEW a \in Agents,
                 \/ Enqueue(a) \/ Flush(a) \/ NextKey(a) \/ WaitInflight(a) \/ Observe(a)
                 \/ Direct(a) \/ \E b \in BatchIds : TimerFires(a, b)
          PROVE  enabled' = TRUE
        BY <2>3 DEF Enqueue, Check, AppendCall, Take, Flush, CommitBatch, RejectBatch, Publish,
                    PublishFails, NextKey, WaitInflight, Observe, Direct, TimerFires, queue,
                    BypassInv
    <2>4. CASE UNCHANGED vars
        BY <2>4 DEF vars, queue, BypassInv
    <2> QED BY <2>1, <2>2, <2>3, <2>4 DEF Next, Step, Finish, TimerStep, Quiescent
\* The part of one thread.
<1>2. ASSUME NEW t \in Threads, Call(t)
      PROVE  ask'[t] \notin {"recover", "disable"} /\ (Heads(t, "direct")' => ask'[t] = "transact")
    <2> USE DEF Heads, Flushing, At, Goto, PlaceTyped
    <2>1. ASSUME NEW k \in Keys, Write(t, k)
          PROVE  pc'[t] = "check" /\ ask'[t] = "write"
        BY <1>a, <2>1 DEF Write, BypassInv
    <2>2. ASSUME NEW k \in Keys, Recover(t, k) PROVE FALSE
        BY <2>2 DEF Recover, NoBypass
    <2>3. ASSUME NEW k \in Keys, NEW c \in Asks, Barrier(t, k, c)
          PROVE  /\ ask'[t] = c /\ c \in {"read", "transact"} /\ pc'[t] = "take"
                 /\ ret'[t] = "direct" => c = "transact"
        BY <1>a, <2>3 DEF Barrier, BarrierLabel
    <2>4. ASSUME NEW c \in Asks, FlushAll(t, c)
          PROVE  ask'[t] \notin {"recover", "disable"} /\ pc'[t] = "next_key"
        BY <1>a, <2>4 DEF FlushAll, NoBypass
    <2>5. CASE Enable(t)
        BY <2>5 DEF Enable, mine, BypassInv
    <2> QED BY <1>2, <2>1, <2>2, <2>3, <2>4, <2>5 DEF Call
<1>3. ASSUME NEW t \in Threads, Step(t)
      PROVE  ask'[t] \notin {"recover", "disable"} /\ (Heads(t, "direct")' => ask'[t] = "transact")
    <2> USE DEF Heads, Flushing, At, Goto, PlaceTyped
    <2>1. ask'[t] = ask[t]
        BY <1>3 DEF Step, Enqueue, Check, AppendCall, Take, Flush, CommitBatch, RejectBatch, Publish,
                    PublishFails, Finish, NextKey, WaitInflight, FlushReturns, Observe, Direct, mine
    <2>2. ret[t] \in {"idle", "append", "observe", "direct", "next_key"}
        BY <1>a DEF IdInv
    <2>3. Heads(t, "direct")' => Heads(t, "direct")
        <3>1. CASE AppendCall(t)
            <4>1. PICK l \in {"take", "idle"} : /\ ret' = [ret EXCEPT ![t] = "idle"]
                                                /\ pc' = [pc EXCEPT ![t] = l]
                BY <3>1, AppendFacts
            <4> QED BY <1>a, <4>1
        <3>2. CASE Check(t) \/ NextKey(t)
            BY <1>a, <3>2 DEF Check, NextKey
        <3>3. CASE Take(t)
            BY <1>a, <2>2, <3>3 DEF Take, Claim
        <3>4. CASE Flush(t)
            <4>1. UNCHANGED ret /\ pc'[t] \in {"publish", ret[t]} /\ pc[t] \in {"commit", "publish"}
                BY <1>a, <3>4 DEF Flush, CommitBatch, RejectBatch, Publish, PublishFails, FlushFails, mine
            <4> QED BY <2>2, <4>1
        <3>5. CASE WaitInflight(t) \/ FlushReturns(t) \/ Observe(t) \/ Direct(t)
            <4>1. pc'[t] \in {"flushed", "idle"}
                BY <1>a, <3>5 DEF WaitInflight, FlushReturns, Observe, Direct
            <4> QED BY <4>1
        <3> QED BY <1>3, <3>1, <3>2, <3>3, <3>4, <3>5 DEF Step, Enqueue, Finish
    <2> QED BY <2>1, <2>3 DEF BypassInv
<1>4. ASSUME NEW x \in Timers, TimerStep(x) PROVE ask' = ask
    BY <1>4 DEF TimerStep, Flush, CommitBatch, RejectBatch, Publish, PublishFails, TimerFires, mine
<1>5. CASE UNCHANGED vars
    BY <1>1, <1>5 DEF vars, mine, BypassInv, Heads, Flushing, At
<1>6. ASSUME NEW a \in Agents, OthersStay(a),
             /\ ask'[a] \notin {"recover", "disable"}
             /\ a \in Threads => (Heads(a, "direct")' => ask'[a] = "transact")
      PROVE  BypassInv'
    <2>1. ASSUME NEW u \in Agents \ {a}
          PROVE  ask'[u] = ask[u] /\ (Heads(u, "direct")' => Heads(u, "direct"))
        BY <1>6 DEF OthersStay, Heads, Flushing, At
    <2>2. \A u \in Agents : ask'[u] \notin {"recover", "disable"}
        BY <1>6, <2>1 DEF BypassInv
    <2>3. \A t \in Threads : Heads(t, "direct")' => ask'[t] = "transact"
        BY <1>6, <2>1 DEF BypassInv
    <2> QED BY <1>1, <2>2, <2>3 DEF BypassInv
<1>7. ASSUME NEW t \in Threads, Call(t) \/ Step(t) PROVE BypassInv'
    <2>1. OthersStay(t)
        BY <1>7, OneAgentMoves
    <2> QED BY <1>2, <1>3, <1>6, <1>7, <2>1
<1>8. ASSUME NEW x \in Timers, TimerStep(x) PROVE BypassInv'
    <2>1. OthersStay(x)
        BY <1>8, OneAgentMoves DEF TimerStep, Step
    <2>2. x \notin Threads /\ ask'[x] \notin {"recover", "disable"}
        BY <1>4, <1>8, BatchConstantsOK DEF BypassInv
    <2> QED BY <1>6, <2>1, <2>2
<1> QED BY <1>5, <1>7, <1>8 DEF Next, Quiescent

\* A call is passed by a later one of its thread only while its batch is in flight with
\* somebody else, or when that batch was given up.
PassInv ==
    \A b \in 1..made : \A i \in InBatch(b) \ Committed : \A j \in Range(log[target[b]]) :
        author[j] = author[i] /\ i < j => b \in inflight \cup rejected

OrderedInv == BaseInv /\ WhereInv /\ OnceInv /\ WholeInv /\ OrderInv /\ ReadInv

\* A batch leaves the queue for those in flight; one in flight is given up or durable.
LEMMA PassedStays ==
    ASSUME BaseInv, WhereInv, [Next]_vars, NEW b \in BatchIds, b \in inflight \cup rejected
    PROVE  b \in inflight' \cup rejected' \/ InBatch(b) \subseteq Committed
<1>a. SharedTyped
    BY TypeParts DEF BaseInv
<1>1. rejected \subseteq rejected'
    <2>1. ASSUME NEW t \in Threads, Call(t) PROVE rejected \subseteq rejected'
        BY <2>1 DEF Call, Write, Recover, Barrier, FlushAll, Enable, queue
    <2>2. ASSUME NEW a \in Agents, Flush(a) PROVE rejected \subseteq rejected'
        BY <2>2 DEF Flush, CommitBatch, RejectBatch, Publish, PublishFails, FlushFails
    <2>3. ASSUME NEW a \in Agents, Enqueue(a) \/ Finish(a) \/ \E b2 \in BatchIds : TimerFires(a, b2)
          PROVE  rejected \subseteq rejected'
        BY <2>3 DEF Enqueue, Check, AppendCall, Take, Finish, NextKey, WaitInflight, FlushReturns,
                    Observe, Direct, TimerFires, queue
    <2>4. CASE UNCHANGED vars
        BY <2>4 DEF vars, queue
    <2> QED BY <2>1, <2>2, <2>3, <2>4, Names DEF Next, Step, TimerStep, Quiescent
<1>2. ASSUME NEW a \in Agents, RejectBatch(a) \/ PublishFails(a)
      PROVE  inflight \cup rejected \subseteq inflight' \cup rejected'
    BY <1>2 DEF RejectBatch, PublishFails, FlushFails
<1>3. ASSUME NEW a \in Agents, Publish(a), b \in inflight, b \notin inflight'
      PROVE  InBatch(b) \subseteq Committed
    <2>1. b = cur[a] /\ At(a, "publish")
        BY <1>3 DEF Publish
    <2>2. InBatch(b) \subseteq Range(log[target[b]]) /\ target[b] \in Keys
        BY <1>a, <2>1 DEF WhereInv, SharedTyped
    <2> QED BY <2>2 DEF Committed
<1>4. ASSUME NEW a \in Agents,
             \/ Call(a) \/ Enqueue(a) \/ CommitBatch(a) \/ Finish(a)
             \/ \E c \in BatchIds : TimerFires(a, c)
      PROVE  inflight \subseteq inflight'
    BY <1>4 DEF Call, Write, Recover, Barrier, FlushAll, Enable, Enqueue, Check, AppendCall, Take, Claim,
                CommitBatch, Finish, NextKey, WaitInflight, FlushReturns, Observe, Direct, TimerFires,
                queue
<1>5. CASE UNCHANGED vars
    BY <1>5 DEF vars, queue
<1> QED BY <1>1, <1>2, <1>3, <1>4, <1>5, Names DEF Next, Step, Flush, TimerStep, Quiescent

\* Every step keeps overtakers behind batches in flight.
LEMMA PassStep ==
    ASSUME NoBypass
    PROVE  OrderedInv /\ BypassInv /\ PassInv /\ [Next]_vars => PassInv'
<1> SUFFICES ASSUME OrderedInv, BypassInv, PassInv, [Next]_vars,
                    NEW b \in 1..made', NEW i \in InBatch(b)' \ Committed',
                    NEW j \in Range(log'[target'[b]]), author'[j] = author'[i], i < j
             PROVE  b \in inflight' \cup rejected'
    BY DEF PassInv
<1>a. BaseInv /\ WhereInv /\ OnceInv /\ WholeInv /\ OrderInv /\ ReadInv
    BY DEF OrderedInv
<1>b. SharedTyped /\ PlaceTyped /\ CountTyped /\ IdInv
    BY <1>a, TypeParts DEF BaseInv
<1>c. /\ issued' \in {issued, issued + 1} /\ issued \in Nat
      /\ \A o \in 1..issued : author'[o] = author[o]
    BY <1>a, AuthorsStay
<1>d. 1..made \subseteq BatchIds /\ \A k \in Keys : Range(log[k]) \subseteq 1..issued
    BY <1>a, <1>b, BatchConstantsOK DEF SharedTyped, BatchIds, OnceInv, Committed
<1>1. CASE UNCHANGED <<calls, target, made, log>>
    <2>1. b \in 1..made /\ b \in BatchIds /\ target'[b] \in Keys /\ target'[b] = target[b]
        BY <1>b, <1>d, <1>1 DEF SharedTyped
    <2>2. i \in InBatch(b) \ Committed /\ j \in Range(log[target[b]])
        BY <1>1 DEF InBatch, Committed
    <2>3. author[i] = author[j]
        BY <1>a, <1>c, <1>d, <2>1, <2>2, InBatchIssued
    <2>4. b \in inflight \cup rejected
        BY <2>1, <2>2, <2>3 DEF PassInv
    <2> QED BY <1>a, <2>1, <2>2, <2>4, PassedStays
\* The call that is appended is the last of its thread.
<1>2. ASSUME NEW t \in Threads, AppendCall(t) PROVE b \in inflight' \cup rejected'
    <2>1. PICK c \in BatchIds :
              /\ c = IF pending[key[t]] = None THEN made + 1 ELSE pending[key[t]]
              /\ made' = IF pending[key[t]] = None THEN made + 1 ELSE made
              /\ calls'[c] = Append(calls[c], op[t]) /\ target'[c] = key[t]
              /\ \A d \in BatchIds \ {c} : calls'[d] = calls[d] /\ target'[d] = target[d]
              /\ UNCHANGED <<inflight, log, rejected, count>>
              /\ op[t] \in Ops /\ Carries(t) /\ key[t] \in Keys
              /\ pending[key[t]] = None => calls[c] = <<>>
              /\ pending[key[t]] # None => target[c] = key[t]
        BY <1>a, <1>2, AppendIsEarly
    <2>2. Committed' = Committed /\ UNCHANGED <<issued, author>>
        BY <2>1 DEF Committed, count
    <2>3. \A o \in 1..issued : author[o] = t => o <= op[t]
        BY <1>a, <2>1 DEF OrderInv
    <2>4. op[t] \in 1..issued /\ author[op[t]] = t
        BY <1>a, <2>1 DEF BaseInv, OpInv
    <2>5. b \in 1..made \/ b = c
        <3>1. made \in Nat
            BY <1>b, BatchConstantsOK DEF SharedTyped
        <3> QED BY <2>1, <3>1
    <2>6. target'[b] \in Keys /\ j \in 1..issued
        <3>1. target'[b] \in Keys
            BY <1>b, <1>d, <2>1, <2>5 DEF SharedTyped
        <3> QED BY <1>d, <2>1, <3>1
    <2>7. i # op[t]
        <3>1. i = op[t] => author[j] = t /\ j <= op[t]
            BY <2>2, <2>3, <2>4, <2>6
        <3> QED BY <2>4, <2>6, <3>1
    <2>8. i \in InBatch(b)
        <3>1. CASE b # c
            BY <1>d, <2>1, <2>5, <3>1 DEF InBatch
        <3>2. CASE b = c
            <4>1. calls[c] \in Seq(Ops)
                BY <1>b DEF SharedTyped
            <4>2. Range(Append(calls[c], op[t])) = Range(calls[c]) \cup {op[t]}
                BY <2>1, <4>1, RangeOfBatch
            <4>3. InBatch(b)' = InBatch(b) \cup {op[t]}
                BY <2>1, <3>2, <4>2, Zenon DEF InBatch
            <4> QED BY <2>7, <4>3
        <3> QED BY <3>1, <3>2
    <2>9. b \in 1..made /\ target'[b] = target[b]
        <3>1. CASE b # c
            BY <1>d, <2>1, <2>5, <3>1
        <3>2. CASE b = c
            <4>1. calls[c] # <<>>
                BY <2>8, <3>2 DEF InBatch, Range
            <4>2. pending[key[t]] # None
                BY <2>1, <4>1
            <4> QED BY <2>1, <3>2, <4>2
        <3> QED BY <3>1, <3>2
    <2> QED BY <2>1, <2>2, <2>8, <2>9 DEF PassInv
\* A commit of a batch comes after all earlier batches of its VFS, a transaction after the
\* flush of all its thread had queued.
<1>3. ASSUME NEW a \in Agents, CommitBatch(a) \/ (a \in Threads /\ Direct(a)), log' # log
      PROVE  b \in inflight' \cup rejected'
    <2>1. UNCHANGED <<calls, target, made, pending, inflight, rejected, issued, author>>
        BY <1>3 DEF CommitBatch, Direct, queue, count
    <2>2. PICK k \in Keys, r \in Seq(Ops) :
              /\ log'[k] = log[k] \o r /\ \A x \in Keys \ {k} : log'[x] = log[x]
              /\ Committed' = Committed \cup Range(r)
              /\ \/ /\ CommitBatch(a) /\ k = target[cur[a]] /\ r = calls[cur[a]]
                    /\ cur[a] \in BatchIds /\ cur[a] \in inflight
                    /\ InBatch(cur[a]) \cap Committed = {}
                    /\ \A c \in BatchIds \ {cur[a]} : InBatch(c) \cap Range(r) = {}
                 \/ /\ Direct(a) /\ a \in Threads /\ k = key[a] /\ Range(r) = {op[a]}
                    /\ op[a] \in 1..issued /\ author[op[a]] = a
                    /\ ~(ask[a] = "transact" /\ bad[a])
                    /\ \A c \in BatchIds : InBatch(c) \cap Range(r) = {}
        BY <1>a, <1>3, CommitIsFresh
    <2>3. b \in 1..made /\ b \in BatchIds /\ target[b] \in Keys
        BY <1>b, <1>d, <2>1 DEF SharedTyped
    <2>4. i \in InBatch(b) /\ i \notin Committed /\ i \notin Range(r)
        BY <2>1, <2>2 DEF InBatch
    <2>5. CASE j \in Range(log[target[b]])
        BY <2>1, <2>3, <2>4, <2>5 DEF PassInv
    <2>6. CASE j \notin Range(log[target[b]])
        <3>1. target[b] = k /\ j \in Range(r)
            <4>1. target[b] = k
                BY <2>1, <2>2, <2>3, <2>6
            <4>2. Range(log'[k]) = Range(log[k]) \cup Range(r)
                <5>1. log[k] \in Seq(Ops)
                    BY <1>b DEF SharedTyped
                <5> QED BY <2>2, <5>1, DistinctConcat
            <4> QED BY <2>1, <2>6, <4>1, <4>2
        <3>2. SUFFICES ASSUME b \notin inflight \cup rejected PROVE FALSE
            BY <2>1
        <3>3. pending[k] = b
            <4>1. ~(InBatch(b) \subseteq Range(log[target[b]]))
                BY <2>3, <2>4 DEF Committed
            <4> QED BY <1>a, <2>3, <3>1, <3>2, <4>1 DEF WhereInv
        <3>4. CASE CommitBatch(a) /\ k = target[cur[a]] /\ r = calls[cur[a]] /\ cur[a] \in inflight
                   /\ cur[a] \in BatchIds
            <4>1. PICK c \in 1..made : c = cur[a] /\ target[c] = k /\ j \in InBatch(c)
                BY <1>a, <3>1, <3>4 DEF WhereInv, InBatch
            <4>2. b <= c
                BY <1>a, <2>1, <2>3, <2>4, <3>1, <4>1 DEF OrderInv
            <4>3. c <= b
                BY <1>a, <2>3, <3>3, <4>1 DEF OrderInv, BatchIds, None
            <4>4. b = c
                BY <2>3, <4>1, <4>2, <4>3 DEF BatchIds
            <4> QED BY <3>2, <3>4, <4>1, <4>4
        <3>5. CASE Direct(a) /\ a \in Threads /\ k = key[a] /\ Range(r) = {op[a]} /\ author[op[a]] = a
            <4>1. At(a, "direct")
                BY <3>5 DEF Direct
            <4>2. Reading(a)
                BY <3>5, <4>1 DEF BypassInv, Heads, Reading
            <4>3. OwnQueued(a, k) = {}
                BY <1>a, <3>5, <4>2 DEF ReadInv
            <4>4. author[i] = a /\ i \in Ops /\ b # None
                <5>1. author[i] = a
                    BY <2>1, <3>1, <3>5
                <5>2. calls[b] \in Seq(Ops)
                    BY <1>b, <2>3 DEF SharedTyped
                <5> QED BY <2>3, <2>4, <5>1, <5>2, RangeOfBatch DEF InBatch, BatchIds, None
            <4> QED BY <2>4, <3>3, <4>3, <4>4 DEF OwnQueued
        <3> QED BY <2>2, <3>4, <3>5
    <2> QED BY <2>5, <2>6
<1>4. CASE ~(\E t \in Threads : AppendCall(t))
           /\ ~\E a \in Agents : CommitBatch(a) \/ (a \in Threads /\ Direct(a))
    BY <1>a, <1>1, <1>4, OnlyAppendOrCommit
<1>5. ASSUME NEW a \in Agents, CommitBatch(a) \/ (a \in Threads /\ Direct(a)), log' = log
      PROVE  UNCHANGED <<calls, target, made, log>>
    BY <1>5 DEF CommitBatch, Direct, queue
<1> QED BY <1>1, <1>2, <1>3, <1>4, <1>5

\* A sequence that names nothing twice has one place for each.
LEMMA OnePlace ==
    ASSUME NEW s \in Seq(Ops), Distinct(s), NEW x \in DOMAIN s
    PROVE  (CHOOSE y \in DOMAIN s : s[y] = s[x]) = x
<1>1. DOMAIN s = 1..Len(s) /\ Len(s) \in Nat
    OBVIOUS
<1>2. IsFiniteSet(1..Len(s)) /\ Cardinality(1..Len(s)) = Len(s)
    <2>1. 1 \in Int /\ Len(s) \in Int
        BY <1>1
    <2>2. /\ IsFiniteSet(1..Len(s))
          /\ Cardinality(1..Len(s)) = IF 1 > Len(s) THEN 0 ELSE Len(s) - 1 + 1
        BY <2>1, FS_Interval, Zenon
    <2> QED BY <1>1, <2>2
<1>3. s \in Surjection(1..Len(s), Range(s))
    BY <1>1 DEF Surjection, Range
<1>4. s \in Injection(1..Len(s), Range(s))
    BY <1>2, <1>3, FS_SurjSameCardinalityImpliesInj DEF Distinct
<1>5. \A y \in DOMAIN s : s[y] = s[x] => y = x
    BY <1>1, <1>4 DEF Injection, IsInjective
<1> QED BY <1>5

\* The calls of one thread for one VFS take effect in the order they were made, unless one is
\* passed while its batch is in flight with another agent or given up: as long as no caller
\* goes past the queue (batching.py:172-199).
THEOREM CallsKeepTheirOrder == ASSUME NoBypass PROVE Spec => []OvertakenOnlyInFlight
<1>1. Init => OrderInv /\ ReadInv /\ BypassInv /\ PassInv
    <2> SUFFICES ASSUME Init PROVE OrderInv /\ ReadInv /\ BypassInv /\ PassInv
        OBVIOUS
    <2>1. (\A a \in Agents : pc[a] = "idle") /\ made = 0 /\ \A b \in BatchIds : calls[b] = <<>>
        BY DEF Init
    <2>2. \A t \in Threads : ~Carries(t) /\ ~Heads(t, "direct") /\ ~Reading(t) /\ pc[t] # "take"
        BY <2>1, Names DEF Carries, Heads, Flushing, Reading, Holds, At
    <2>3. OrderInv
        BY <2>1, <2>2 DEF OrderInv
    <2>4. ReadInv
        BY <2>2 DEF ReadInv, At
    <2>5. BypassInv
        BY <2>2, BatchConstantsOK DEF Init, BypassInv
    <2>6. PassInv
        BY <2>1 DEF PassInv
    <2> QED BY <2>3, <2>4, <2>5, <2>6
<1>2. OrderedInv /\ PassInv => OvertakenOnlyInFlight
    <2> SUFFICES ASSUME OrderedInv, PassInv,
                        NEW b \in 1..made, NEW i \in InBatch(b), NEW j \in (i + 1)..issued,
                        author[j] = author[i], j \in Range(log[target[b]]),
                        b \notin inflight \cup rejected
                 PROVE  /\ i \in Committed
                        /\ j \in InBatch(b) => Position(target[b], i) < Position(target[b], j)
        BY DEF OvertakenOnlyInFlight
    <2>a. SharedTyped /\ CountTyped /\ OnceInv /\ WholeInv /\ OrderInv
        BY TypeParts DEF OrderedInv, BaseInv
    <2>b. b \in BatchIds /\ issued \in Nat
        BY <2>a, BatchConstantsOK DEF SharedTyped, CountTyped, BatchIds
    <2>c. i \in 1..issued
        BY <2>b, InBatchIssued DEF OrderedInv
    <2>d. i < j
        BY <2>b, <2>c
    <2>1. i \in Committed
        BY <2>d DEF PassInv
    <2>2. ASSUME j \in InBatch(b) PROVE Position(target[b], i) < Position(target[b], j)
        <3>1. PICK s \in Seq(Ops) : s = log[target[b]] /\ Distinct(s)
            BY <2>a, <2>b DEF SharedTyped, OnceInv
        <3>2. PICK r \in Seq(Ops) : r = calls[b]
            BY <2>a, <2>b DEF SharedTyped
        <3>3. Inside(s, r)
            BY <2>a, <2>b, <2>1, <3>1, <3>2 DEF WholeInv, WholeOf
        <3>4. PICK x \in 1..(Len(s) - Len(r) + 1) : SubSeq(s, x, x + Len(r) - 1) = r
            BY <3>3 DEF Inside
        <3>5. PICK p \in DOMAIN r, q \in DOMAIN r : r[p] = i /\ r[q] = j
            BY <2>2, <3>2 DEF InBatch, Range
        <3>6. p \in 1..Len(r) /\ q \in 1..Len(r) /\ Len(r) \in Nat /\ Len(s) \in Nat
            BY <3>5
        <3>7. p < q
            <4>1. ~(q < p)
                <5>1. q < p => j < i
                    BY <2>a, <2>b, <3>2, <3>5 DEF OrderInv
                <5> QED BY <2>b, <2>c, <2>d, <5>1
            <4>2. p # q
                BY <2>c, <2>d, <3>5
            <4> QED BY <3>6, <4>1, <4>2
        <3>8. /\ x + p - 1 \in DOMAIN s /\ s[x + p - 1] = i
              /\ x + q - 1 \in DOMAIN s /\ s[x + q - 1] = j
            <4>0. x \in 1..(Len(s) - Len(r) + 1)
                BY <3>4
            <4>1. x \in Nat \ {0} /\ x + Len(r) - 1 <= Len(s)
                BY <3>6, <4>0
            <4>2. PICK m \in Nat : m = x + Len(r) - 1
                <5>1. x + Len(r) - 1 \in Nat
                    BY <3>6, <4>1
                <5> QED BY <5>1
            <4>3. SubSeq(s, x, m) = r /\ m <= Len(s)
                BY <3>4, <4>1, <4>2
            <4>4. \A y \in 1..Len(r) : SubSeq(s, x, m)[y] = s[x + y - 1]
                BY <3>6, <4>1, <4>2, <4>3
            <4>5. s[x + p - 1] = i /\ s[x + q - 1] = j
                BY <3>5, <3>6, <4>3, <4>4
            <4>6. x + p - 1 \in 1..Len(s) /\ x + q - 1 \in 1..Len(s)
                BY <3>6, <4>1
            <4> QED BY <4>5, <4>6
        <3>9. Position(target[b], i) = x + p - 1 /\ Position(target[b], j) = x + q - 1
            <4>1. \A y \in DOMAIN s : (CHOOSE z \in DOMAIN s : s[z] = s[y]) = y
                BY <3>1, OnePlace
            <4> QED BY <3>1, <3>8, <4>1 DEF Position
        <3> QED BY <3>4, <3>6, <3>7, <3>9
    <2> QED BY <2>1, <2>2
<1>3. OrderedInv /\ BypassInv /\ PassInv /\ [Next]_vars => PassInv'
    BY PassStep
<1>4. BaseInv /\ BypassInv /\ [Next]_vars => BypassInv'
    BY BypassStep
<1> QED BY <1>1, <1>2, <1>3, <1>4, WholeHolds, OrderStep, ReadStep, PTL DEF Spec, OrderedInv
-----------------------------------------------------------------------------
(***************************************************************************)
(* WriteBatching implements AcceptedWrites.                                 *)
(***************************************************************************)
\* A batch is never empty, and one that is given up is neither queued nor in flight.
GivenUpInv ==
    /\ \A b \in 1..made : calls[b] # <<>>
    /\ rejected \subseteq 1..made
    /\ rejected \cap inflight = {}
    /\ \A k \in Keys : pending[k] \notin rejected

PromiseInv == BaseInv /\ WhereInv /\ OnceInv /\ GivenUpInv

\* A claim: an agent that was not committing takes a queue.
LEMMA ClaimFacts ==
    ASSUME BaseInv, NEW a \in Agents, ~At(a, "commit"), NEW k \in Keys, pending[k] # None,
           Claim(a, pending[k], k)
    PROVE  /\ pending[k] \in 1..made /\ target[pending[k]] = k
           /\ pending' = [pending EXCEPT ![k] = None]
           /\ inflight' = inflight \cup {pending[k]}
           /\ cur' = [cur EXCEPT ![a] = pending[k]] /\ pc' = [pc EXCEPT ![a] = "commit"]
           /\ \A j \in Keys \ {k} : pending'[j] = pending[j] /\ pending[j] # pending[k]
<1>a. SharedTyped /\ IdInv
    BY TypeParts DEF BaseInv
<1>1. pending[k] \in 1..made /\ target[pending[k]] = k
    <2>1. pending[k] \in BatchIds /\ pending[k] <= made /\ target[pending[k]] = k
        BY <1>a DEF SharedTyped, IdInv
    <2> QED BY <2>1, <1>a, BatchConstantsOK DEF BatchIds, SharedTyped
<1>2. \A j \in Keys : pending[j] = pending[k] => j = k
    BY <1>a, <1>1 DEF IdInv
<1>3. /\ pending' = [pending EXCEPT ![k] = None]
      /\ inflight' = inflight \cup {pending[k]}
      /\ cur' = [cur EXCEPT ![a] = pending[k]] /\ pc' = [pc EXCEPT ![a] = "commit"]
    BY DEF Claim, Goto
<1>4. \A j \in Keys \ {k} : pending'[j] = pending[j]
    BY <1>a, <1>3 DEF SharedTyped
<1> QED BY <1>1, <1>2, <1>3, <1>4

\* What a step is, as far as batches are concerned: an append, a claim, a commit, the end of a
\* flush, or nothing.
LEMMA FlushParts ==
    ASSUME BaseInv, WhereInv, [Next]_vars
    PROVE  \/ \E t \in Threads : AppendCall(t)
           \/ \E a \in Agents : CommitBatch(a) \/ RejectBatch(a) \/ Publish(a) \/ PublishFails(a)
           \/ \E t \in Threads : Direct(t)
           \/ \E a \in Agents, k \in Keys :
                 /\ ~At(a, "commit") /\ pending[k] # None /\ Claim(a, pending[k], k)
                 /\ UNCHANGED <<calls, target, made, rejected, log>>
           \/ /\ UNCHANGED <<pending, calls, target, made, inflight, rejected, log, cur>>
              /\ \A a \in Agents : At(a, "commit")' <=> At(a, "commit")
<1>a. SharedTyped /\ PlaceTyped /\ IdInv
    BY TypeParts DEF BaseInv
<1> DEFINE Quiet == /\ UNCHANGED <<pending, calls, target, made, inflight, rejected, log, cur>>
                    /\ \A a \in Agents : At(a, "commit")' <=> At(a, "commit")
<1>1. CASE UNCHANGED vars
    <2>1. UNCHANGED <<pending, calls, target, made, inflight, rejected, log, cur, pc>>
        BY <1>1 DEF vars, queue, mine
    <2> QED BY <2>1 DEF At
<1>2. ASSUME NEW t \in Threads, Call(t) PROVE Quiet
    <2>1. /\ UNCHANGED <<pending, calls, target, made, inflight, rejected, log, cur>>
          /\ UNCHANGED pc \/ (~Holds(t) /\ ~Holds(t)')
        BY <1>2, CallIssues
    <2>2. OthersStay(t)
        BY <1>2, Names, OneAgentMoves
    <2> QED BY <2>1, <2>2 DEF OthersStay, Holds, At
<1>3. ASSUME NEW t \in Threads, pc[t] # "commit", \E l : l # "commit" /\ pc' = [pc EXCEPT ![t] = l],
             UNCHANGED <<pending, calls, target, made, inflight, rejected, log, cur>>
      PROVE  Quiet
    BY <1>a, <1>3, Names DEF At, PlaceTyped
<1>4. ASSUME NEW t \in Threads,
             \/ Check(t) \/ NextKey(t) \/ WaitInflight(t) \/ FlushReturns(t) \/ Observe(t)
      PROVE  Quiet
    <2>1. UNCHANGED <<pending, calls, target, made, inflight, rejected, log, cur>>
        BY <1>4 DEF Check, NextKey, WaitInflight, FlushReturns, Observe, queue, mine
    <2>2. pc[t] # "commit"
        BY <1>4 DEF Check, NextKey, WaitInflight, FlushReturns, Observe, At
    <2>3. CASE Check(t) \/ NextKey(t)
        <3>1. pc' \in {[pc EXCEPT ![t] = "idle"], [pc EXCEPT ![t] = "take"],
                       [pc EXCEPT ![t] = "append"], [pc EXCEPT ![t] = "wait"]}
            BY <2>3 DEF Check, NextKey, Goto
        <3>2. \E l : l # "commit" /\ pc' = [pc EXCEPT ![t] = l]
            BY <3>1
        <3> QED BY <1>3, <2>1, <2>2, <3>2
    <2>4. CASE WaitInflight(t) \/ FlushReturns(t) \/ Observe(t)
        <3>1. pc' = [pc EXCEPT ![t] = "flushed"] \/ pc' = [pc EXCEPT ![t] = "idle"]
            BY <2>4 DEF WaitInflight, FlushReturns, Observe, Goto
        <3>2. \E l : l # "commit" /\ pc' = [pc EXCEPT ![t] = l]
            BY <3>1
        <3> QED BY <1>3, <2>1, <2>2, <3>2
    <2> QED BY <1>4, <2>3, <2>4
<1>5. ASSUME NEW t \in Threads, Take(t)
      PROVE  \/ Quiet
             \/ /\ ~At(t, "commit") /\ key[t] \in Keys /\ pending[key[t]] # None
                /\ Claim(t, pending[key[t]], key[t])
                /\ UNCHANGED <<calls, target, made, rejected, log>>
    <2>1. /\ pc[t] = "take" /\ key[t] \in Keys /\ ret[t] # "commit"
          /\ UNCHANGED <<calls, target, made, rejected, log>>
        BY <1>5, <1>a, Names DEF Take, At, PlaceTyped, IdInv
    <2>2. CASE Claimable(pending[key[t]], expect[t])
        BY <1>5, <2>1, <2>2 DEF Take, Claimable, At
    <2>3. CASE ~Claimable(pending[key[t]], expect[t])
        <3>1. pc' = [pc EXCEPT ![t] = ret[t]] /\ UNCHANGED <<pending, inflight, cur>>
            BY <1>5, <2>3 DEF Take, Goto
        <3> QED BY <1>3, <2>1, <3>1
    <2> QED BY <2>2, <2>3
<1>6. ASSUME NEW x \in Timers, NEW b \in BatchIds, TimerFires(x, b)
      PROVE  \/ Quiet
             \/ /\ ~At(x, "commit") /\ target[b] \in Keys /\ pending[target[b]] # None
                /\ Claim(x, pending[target[b]], target[b])
                /\ UNCHANGED <<calls, target, made, rejected, log>>
    <2>1. /\ pc[x] = "idle" /\ target[b] \in Keys /\ b # None
          /\ UNCHANGED <<calls, target, made, rejected, log>>
        BY <1>6, <1>a, BatchConstantsOK DEF TimerFires, At, SharedTyped, BatchIds, None
    <2>2. CASE pending[target[b]] = b
        BY <1>6, <2>1, <2>2 DEF TimerFires, At
    <2>3. CASE pending[target[b]] # b
        <3>1. UNCHANGED <<pending, inflight, cur, pc>>
            BY <1>6, <2>3 DEF TimerFires
        <3> QED BY <2>1, <3>1 DEF At
    <2> QED BY <2>2, <2>3
<1> HIDE DEF Quiet
<1>7. CASE \E t \in Threads : Take(t)
    <2>1. PICK t \in Threads : Take(t)
        BY <1>7
    <2>2. CASE Quiet
        BY <2>2 DEF Quiet
    <2>3. CASE ~Quiet
        BY <1>5, <2>1, <2>3, Names
    <2> QED BY <2>2, <2>3
<1>8. CASE \E x \in Timers, b \in BatchIds : TimerFires(x, b)
    <2>1. PICK x \in Timers, b \in BatchIds : TimerFires(x, b)
        BY <1>8
    <2>2. CASE Quiet
        BY <2>2 DEF Quiet
    <2>3. CASE ~Quiet
        BY <1>6, <2>1, <2>3, Names
    <2> QED BY <2>2, <2>3
<1>9. CASE \E t \in Threads : \/ Call(t) \/ Check(t) \/ NextKey(t) \/ WaitInflight(t)
                             \/ FlushReturns(t) \/ Observe(t)
    <2>1. Quiet
        BY <1>2, <1>4, <1>9
    <2> QED BY <2>1 DEF Quiet
<1> QED BY <1>1, <1>7, <1>8, <1>9, Names
        DEF Next, Step, Enqueue, Flush, Finish, TimerStep, Quiescent

\* Every step keeps batches filled, and those given up out of reach.
LEMMA GivenUpStep == BaseInv /\ WhereInv /\ OnceInv /\ GivenUpInv /\ [Next]_vars => GivenUpInv'
<1> SUFFICES ASSUME BaseInv, WhereInv, OnceInv, GivenUpInv, [Next]_vars PROVE GivenUpInv'
    OBVIOUS
<1>a. SharedTyped /\ PlaceTyped /\ IdInv /\ made \in Nat
    BY TypeParts, BatchConstantsOK DEF BaseInv, SharedTyped
<1>1. CASE UNCHANGED <<pending, calls, made, rejected>> /\ inflight' \subseteq inflight
    BY <1>1 DEF GivenUpInv
<1>2. ASSUME NEW t \in Threads, AppendCall(t) PROVE GivenUpInv'
    <2>1. PICK b \in BatchIds :
              /\ b = IF pending[key[t]] = None THEN made + 1 ELSE pending[key[t]]
              /\ made' = IF pending[key[t]] = None THEN made + 1 ELSE made
              /\ pending' = [pending EXCEPT ![key[t]] = b]
              /\ calls'[b] = Append(calls[b], op[t])
              /\ \A c \in BatchIds \ {b} : calls'[c] = calls[c]
              /\ UNCHANGED <<inflight, rejected>>
              /\ op[t] \in Ops /\ key[t] \in Keys /\ b \notin inflight
        BY <1>2, AppendIsEarly
    <2>2. calls'[b] # <<>>
        <3>1. calls[b] \in Seq(Ops)
            BY <1>a DEF SharedTyped
        <3>2. \A s \in Seq(Ops), o \in Ops : Append(s, o) # <<>>
            BY AppendProperties
        <3> QED BY <2>1, <3>1, <3>2
    <2>3. 1..made' \subseteq 1..made \cup {b} /\ 1..made \subseteq 1..made' /\ 1..made' \subseteq BatchIds
        <3>1. MaxIssued \in Nat /\ made <= MaxIssued /\ b <= MaxIssued
            BY <1>a, BatchConstantsOK DEF SharedTyped, BatchIds
        <3> QED BY <1>a, <2>1, <3>1 DEF BatchIds
    <2>4. b \notin rejected
        <3>1. CASE pending[key[t]] = None
            <4>1. b = made + 1
                BY <2>1, <3>1
            <4> QED BY <1>a, <4>1 DEF GivenUpInv
        <3>2. CASE pending[key[t]] # None
            BY <2>1, <3>2 DEF GivenUpInv
        <3> QED BY <3>1, <3>2
    <2>5. \A k \in Keys : pending'[k] \in {pending[k], b}
        BY <1>a, <2>1 DEF SharedTyped
    <2>6. \A c \in 1..made' : calls'[c] # <<>>
        <3> TAKE c \in 1..made'
        <3>1. c = b \/ (c \in 1..made /\ c \in BatchIds \ {b})
            BY <2>3
        <3> QED BY <2>1, <2>2, <3>1 DEF GivenUpInv
    <2> QED BY <2>1, <2>3, <2>4, <2>5, <2>6 DEF GivenUpInv
<1>3. ASSUME NEW a \in Agents, RejectBatch(a) \/ PublishFails(a) PROVE GivenUpInv'
    <2>1. /\ Holds(a) /\ UNCHANGED <<pending, calls, made>>
          /\ inflight' = inflight \ {cur[a]} /\ rejected' = rejected \cup {cur[a]}
        BY <1>3 DEF RejectBatch, PublishFails, FlushFails, Holds, At
    <2>2. cur[a] \in inflight /\ cur[a] \in 1..made
        BY <2>1 DEF WhereInv
    <2>3. \A k \in Keys : pending[k] # cur[a]
        BY <2>2 DEF WhereInv
    <2> QED BY <2>1, <2>2, <2>3 DEF GivenUpInv
<1>4. ASSUME NEW a \in Agents, CommitBatch(a) \/ Publish(a) PROVE GivenUpInv'
    BY <1>1, <1>4 DEF CommitBatch, Publish, queue
<1>5. ASSUME NEW t \in Threads, Direct(t) PROVE GivenUpInv'
    BY <1>1, <1>5 DEF Direct, queue
<1>6. ASSUME NEW a \in Agents, NEW k \in Keys, ~At(a, "commit"), pending[k] # None,
             Claim(a, pending[k], k), UNCHANGED <<calls, target, made, rejected, log>>
      PROVE  GivenUpInv'
    <2>1. /\ inflight' = inflight \cup {pending[k]} /\ pending' = [pending EXCEPT ![k] = None]
          /\ \A j \in Keys \ {k} : pending'[j] = pending[j]
        BY <1>6, ClaimFacts
    <2>2. pending'[k] = None /\ None \notin rejected
        BY <1>a, <2>1 DEF SharedTyped, GivenUpInv, None
    <2> QED BY <1>6, <2>1, <2>2 DEF GivenUpInv
<1>7. CASE UNCHANGED <<pending, calls, made, rejected, inflight>>
    BY <1>1, <1>7
<1> QED BY <1>2, <1>3, <1>4, <1>5, <1>6, <1>7, FlushParts

\* So what callers are promised can be read off every state.
LEMMA PromiseHolds == Spec => []PromiseInv
<1>1. Init => GivenUpInv
    BY DEF Init, GivenUpInv
<1> QED BY <1>1, QueueHolds, GivenUpStep, PTL DEF Spec, PromiseInv

-----------------------------------------------------------------------------
\* What is being committed stays, where the same agents commit the same batches.
LEMMA TakenStays ==
    ASSUME \A a \in Agents : At(a, "commit")' <=> At(a, "commit"),
           \A a \in Agents : At(a, "commit") => Group(a)' = Group(a)
    PROVE  TakenNow' = TakenNow
BY DEF TakenNow

\* Two agents never commit what cannot be told apart.
LEMMA GroupsDiffer ==
    ASSUME PromiseInv, NEW a \in Agents, NEW u \in Agents, At(a, "commit"), At(u, "commit"),
           Group(a) = Group(u)
    PROVE  a = u
<1>1. Holds(a) /\ Holds(u)
    BY DEF Holds, At
<1>2. cur[a] \in 1..made /\ cur[u] \in 1..made /\ 1..made \subseteq BatchIds
    BY <1>1, TypeParts, BatchConstantsOK
    DEF PromiseInv, BaseInv, IdInv, SharedTyped, BatchIds
<1>3. calls[cur[a]] = calls[cur[u]] /\ calls[cur[a]] # <<>> /\ calls[cur[a]] \in Seq(Ops)
    <2>1. calls[cur[a]] \in Seq(Ops)
        BY <1>2, TypeParts DEF PromiseInv, BaseInv, SharedTyped
    <2> QED BY <1>2, <2>1 DEF Group, PromiseInv, GivenUpInv
<1>4. InBatch(cur[a]) = InBatch(cur[u]) /\ InBatch(cur[a]) # {}
    <2>1. 1 \in DOMAIN calls[cur[a]]
        BY <1>3
    <2> QED BY <1>3, <2>1 DEF InBatch, Range
<1>5. cur[a] = cur[u]
    BY <1>2, <1>4 DEF PromiseInv, OnceInv
<1> QED BY <1>1, <1>5 DEF PromiseInv, WhereInv

\* An agent that stops committing leaves the rest of what is being committed.
LEMMA TakenLeaves ==
    ASSUME PromiseInv, NEW a \in Agents, At(a, "commit"), ~At(a, "commit")',
           \A u \in Agents \ {a} : At(u, "commit")' <=> At(u, "commit"),
           UNCHANGED <<calls, target, cur>>
    PROVE  Group(a) \in TakenNow /\ TakenNow' = TakenNow \ {Group(a)}
<1>1. \A u \in Agents : Group(u)' = Group(u)
    BY DEF Group
<1>2. \A u \in Agents \ {a} : At(u, "commit") => Group(u) # Group(a)
    BY GroupsDiffer
<1> HIDE DEF Group
<1> QED BY <1>1, <1>2 DEF TakenNow

\* A write that a thread carries is new to everything that is promised.
LEMMA CarriedIsUnknown ==
    ASSUME PromiseInv, NEW t \in Threads, Carries(t)
    PROVE  op[t] \notin Promise!Known
<1>a. SharedTyped /\ IdInv
    BY TypeParts DEF PromiseInv, BaseInv
<1>1. op[t] \notin Appended /\ op[t] \notin Committed
    BY DEF PromiseInv, BaseInv, OpInv, OnceInv
<1>2. \A k \in Keys : op[t] \notin Range(log[k])
    BY <1>1 DEF Committed
<1>3. \A b \in BatchIds : op[t] \notin Range(calls[b])
    BY <1>1 DEF Appended, InBatch
<1>4. \A k \in Keys : op[t] \notin Range(QueuedNow[k])
    <2> TAKE k \in Keys
    <2>1. CASE pending[k] = None
        BY <2>1 DEF QueuedNow, Range
    <2>2. CASE pending[k] # None
        <3>1. pending[k] \in BatchIds
            BY <1>a, <2>2 DEF SharedTyped
        <3> QED BY <1>3, <2>2, <3>1 DEF QueuedNow
    <2> QED BY <2>1, <2>2
<1>5. \A g \in TakenNow : op[t] \notin Range(g.writes)
    <2> TAKE g \in TakenNow
    <2>1. PICK a \in Agents : At(a, "commit") /\ g.writes = calls[cur[a]]
        BY DEF TakenNow, Group
    <2>2. cur[a] \in BatchIds
        BY <1>a, <2>1, BatchConstantsOK DEF IdInv, Holds, At, BatchIds, SharedTyped
    <2> QED BY <1>3, <2>1, <2>2
<1>6. op[t] \notin GivenUp
    BY <1>a, <1>3 DEF GivenUp, InBatch, SharedTyped
<1>7. op[t] \notin UNION {Range(log[k]) \cup Range(QueuedNow[k]) : k \in Keys}
    BY <1>2, <1>4
<1>8. op[t] \notin UNION {Range(g.writes) : g \in TakenNow}
    BY <1>5
<1>9. \A s : Promise!Range(s) = Range(s)
    BY DEF Promise!Range, Range
<1> QED BY <1>6, <1>7, <1>8, <1>9, Zenon DEF Promise!Known

\* An append accepts a write.
LEMMA AppendAccepts ==
    ASSUME PromiseInv, NEW t \in Threads, AppendCall(t)
    PROVE  Promise!Next
<1>a. SharedTyped /\ PlaceTyped /\ IdInv /\ BaseInv /\ WhereInv /\ OnceInv /\ made \in Nat
    BY TypeParts DEF PromiseInv, BaseInv, SharedTyped
<1>1. PICK b \in BatchIds :
          /\ b = IF pending[key[t]] = None THEN made + 1 ELSE pending[key[t]]
          /\ pending' = [pending EXCEPT ![key[t]] = b]
          /\ calls'[b] = Append(calls[b], op[t])
          /\ \A c \in BatchIds \ {b} : calls'[c] = calls[c] /\ target'[c] = target[c]
          /\ UNCHANGED <<inflight, log, rejected>>
          /\ op[t] \in Ops /\ Carries(t) /\ key[t] \in Keys /\ b \notin inflight
          /\ pending[key[t]] = None => calls[b] = <<>>
    BY <1>a, AppendIsEarly
<1>2. b # None /\ b \notin rejected
    <2>1. CASE pending[key[t]] = None
        <3>1. b = made + 1
            BY <1>1, <2>1
        <3> QED BY <1>a, <3>1 DEF PromiseInv, GivenUpInv, None
    <2>2. CASE pending[key[t]] # None
        BY <1>1, <2>2 DEF PromiseInv, GivenUpInv
    <2> QED BY <2>1, <2>2
<1>3. \A k \in Keys \ {key[t]} : pending'[k] = pending[k] /\ pending[k] # b
    <2> TAKE k \in Keys \ {key[t]}
    <2>1. pending'[k] = pending[k]
        BY <1>a, <1>1 DEF SharedTyped
    <2>2. CASE pending[key[t]] = None
        <3>1. b = made + 1 /\ pending[k] <= made /\ pending[k] \in BatchIds \cup {None}
            BY <1>a, <1>1, <2>2 DEF IdInv, SharedTyped
        <3> QED BY <1>a, <2>1, <3>1, BatchConstantsOK DEF BatchIds, None
    <2>3. CASE pending[key[t]] # None
        <3>1. b = pending[key[t]] /\ target[b] = key[t]
            BY <1>a, <1>1, <2>3 DEF IdInv
        <3> QED BY <1>a, <1>2, <2>1, <3>1 DEF IdInv
    <2> QED BY <2>2, <2>3
<1>4. pending'[key[t]] = b
    BY <1>a, <1>1 DEF SharedTyped
<1>5. QueuedNow' = [QueuedNow EXCEPT ![key[t]] = Append(QueuedNow[key[t]], op[t])]
    <2>1. QueuedNow[key[t]] = calls[b]
        BY <1>1, <1>2 DEF QueuedNow
    <2>2. QueuedNow'[key[t]] = Append(calls[b], op[t])
        BY <1>1, <1>2, <1>4 DEF QueuedNow
    <2>3. \A k \in Keys \ {key[t]} : QueuedNow'[k] = QueuedNow[k]
        <3> TAKE k \in Keys \ {key[t]}
        <3>1. pending[k] # None => pending[k] \in BatchIds \ {b}
            BY <1>a, <1>3 DEF SharedTyped
        <3> QED BY <1>1, <1>3, <3>1 DEF QueuedNow
    <2>4. /\ QueuedNow = [k \in Keys |-> QueuedNow[k]] /\ QueuedNow' = [k \in Keys |-> QueuedNow'[k]]
        BY DEF QueuedNow
    <2> HIDE DEF QueuedNow
    <2> QED BY <1>1, <2>1, <2>2, <2>3, <2>4
<1>6. TakenNow' = TakenNow
    <2>1. pc[t] = "append" /\ cur' = cur /\ \E l \in {"take", "idle"} : pc' = [pc EXCEPT ![t] = l]
        BY <1>a, AppendFacts
    <2>2. \A a \in Agents : At(a, "commit")' <=> At(a, "commit")
        BY <1>a, <2>1 DEF At, PlaceTyped
    <2>3. ASSUME NEW a \in Agents, At(a, "commit") PROVE Group(a)' = Group(a)
        <3>1. cur[a] \in inflight /\ cur[a] \in BatchIds
            BY <1>a, <2>3, BatchConstantsOK DEF WhereInv, IdInv, Holds, At, BatchIds, SharedTyped
        <3>2. cur[a] \in BatchIds \ {b}
            BY <1>1, <3>1
        <3> QED BY <1>1, <2>1, <3>2 DEF Group
    <2> QED BY <2>2, <2>3, TakenStays
<1>7. GivenUp' = GivenUp
    <2>1. rejected' = rejected /\ rejected \subseteq BatchIds \ {b}
        BY <1>a, <1>1, <1>2 DEF SharedTyped
    <2>2. \A c \in rejected : InBatch(c)' = InBatch(c)
        BY <1>1, <2>1 DEF InBatch
    <2>3. Committed' = Committed
        BY <1>1 DEF Committed
    <2> QED BY <2>1, <2>2, <2>3 DEF GivenUp
<1>8. op[t] \notin Promise!Known
    BY <1>1, CarriedIsUnknown
<1>9. Promise!Accept(key[t], op[t])
    BY <1>1, <1>5, <1>6, <1>7, <1>8 DEF Promise!Accept
<1> QED BY <1>1, <1>9 DEF Promise!Next

\* A claim takes the queue.
LEMMA ClaimTakes ==
    ASSUME PromiseInv, NEW a \in Agents, NEW k \in Keys, ~At(a, "commit"), pending[k] # None,
           Claim(a, pending[k], k), UNCHANGED <<calls, target, made, rejected, log>>
    PROVE  Promise!Next
<1>a. SharedTyped /\ PlaceTyped /\ BaseInv
    BY TypeParts DEF PromiseInv, BaseInv
<1>1. /\ pending[k] \in 1..made /\ target[pending[k]] = k
      /\ pending' = [pending EXCEPT ![k] = None]
      /\ cur' = [cur EXCEPT ![a] = pending[k]] /\ pc' = [pc EXCEPT ![a] = "commit"]
      /\ \A j \in Keys \ {k} : pending'[j] = pending[j]
    BY <1>a, ClaimFacts
<1>2. QueuedNow[k] = calls[pending[k]] /\ QueuedNow[k] # <<>>
    BY <1>1 DEF QueuedNow, PromiseInv, GivenUpInv
<1>3. QueuedNow' = [QueuedNow EXCEPT ![k] = <<>>]
    <2>1. QueuedNow'[k] = <<>>
        BY <1>a, <1>1 DEF QueuedNow, SharedTyped
    <2>2. \A j \in Keys \ {k} : QueuedNow'[j] = QueuedNow[j]
        BY <1>1 DEF QueuedNow
    <2>3. QueuedNow = [j \in Keys |-> QueuedNow[j]] /\ QueuedNow' = [j \in Keys |-> QueuedNow'[j]]
        BY DEF QueuedNow
    <2> HIDE DEF QueuedNow
    <2> QED BY <2>1, <2>2, <2>3
<1>4. TakenNow' = TakenNow \cup {[file |-> k, writes |-> QueuedNow[k]]}
    <2>1. At(a, "commit")' /\ Group(a)' = [file |-> k, writes |-> QueuedNow[k]]
        BY <1>a, <1>1, <1>2 DEF At, Group, PlaceTyped
    <2>2. \A u \in Agents \ {a} : (At(u, "commit")' <=> At(u, "commit")) /\ Group(u)' = Group(u)
        BY <1>a, <1>1 DEF At, Group, PlaceTyped
    <2> HIDE DEF Group, At
    <2> QED BY <2>1, <2>2 DEF TakenNow
<1>5. GivenUp' = GivenUp
    BY DEF GivenUp, InBatch, Committed
<1>6. Promise!Take(k)
    BY <1>2, <1>3, <1>4, <1>5 DEF Promise!Take
<1> QED BY <1>6 DEF Promise!Next

\* The end of a flush: what was taken is in the VFS, or given up; a failure after the commit
\* takes nothing back.
LEMMA FlushKeeps ==
    ASSUME PromiseInv, NEW a \in Agents,
           CommitBatch(a) \/ RejectBatch(a) \/ Publish(a) \/ PublishFails(a)
    PROVE  Promise!Next \/ UNCHANGED <<log, QueuedNow, TakenNow, GivenUp>>
<1>a. SharedTyped /\ PlaceTyped /\ BaseInv /\ WhereInv /\ OnceInv /\ IdInv
    BY TypeParts DEF PromiseInv, BaseInv
<1>b. ret[a] # "commit" /\ UNCHANGED <<pending, calls, target, cur>>
      /\ Holds(a) /\ \E l : l # "commit" /\ pc' = [pc EXCEPT ![a] = l]
    <2>1. ret[a] # "commit"
        BY <1>a DEF IdInv
    <2>2. CASE CommitBatch(a) \/ Publish(a)
        <3>1. pc' = [pc EXCEPT ![a] = "publish"] \/ pc' = [pc EXCEPT ![a] = ret[a]]
            BY <2>2 DEF CommitBatch, Publish, Goto
        <3> QED BY <2>1, <2>2, <3>1 DEF CommitBatch, Publish, queue, mine, Holds, At
    <2>3. CASE RejectBatch(a) \/ PublishFails(a)
        <3>1. pc' = [pc EXCEPT ![a] = ret[a]]
            BY <2>3 DEF RejectBatch, PublishFails, FlushFails, Goto
        <3> QED BY <2>1, <2>3, <3>1 DEF RejectBatch, PublishFails, Holds, At
    <2> QED BY <2>2, <2>3
<1>c. ~At(a, "commit")' /\ \A u \in Agents \ {a} : At(u, "commit")' <=> At(u, "commit")
    BY <1>a, <1>b DEF At, PlaceTyped
<1>d. QueuedNow' = QueuedNow /\ \A u \in Agents : Group(u)' = Group(u)
    BY <1>b DEF QueuedNow, Group
<1>e. cur[a] \in inflight /\ cur[a] \in BatchIds /\ cur[a] \notin rejected
    <2>1. cur[a] \in inflight
        BY <1>a, <1>b DEF WhereInv
    <2> QED BY <1>a, <2>1 DEF SharedTyped, PromiseInv, GivenUpInv
<1>f. \A b \in BatchIds : InBatch(b)' = InBatch(b)
    BY <1>b DEF InBatch
<1>1. CASE CommitBatch(a)
    <2>1. At(a, "commit") /\ rejected' = rejected
        BY <1>1 DEF CommitBatch
    <2>2. Group(a) \in TakenNow /\ TakenNow' = TakenNow \ {Group(a)}
        BY <1>b, <1>c, <2>1, TakenLeaves
    <2>3. log' = [log EXCEPT ![Group(a).file] = @ \o Group(a).writes]
        BY <1>1 DEF CommitBatch, Group
    <2>4. GivenUp' = GivenUp
        <3>1. CASE log' = log
            BY <1>a, <1>f, <2>1, <3>1 DEF GivenUp, Committed, SharedTyped
        <3>2. CASE log' # log
            <4>1. PICK r \in Seq(Ops) :
                    /\ Committed' = Committed \cup Range(r)
                    /\ \A b \in BatchIds \ {cur[a]} : InBatch(b) \cap Range(r) = {}
                BY <1>1, <1>a, <3>2, CommitIsFresh
            <4>2. rejected \subseteq BatchIds \ {cur[a]}
                BY <1>a, <1>e DEF SharedTyped
            <4> QED BY <1>f, <2>1, <4>1, <4>2 DEF GivenUp
        <3> QED BY <3>1, <3>2
    <2>5. Promise!Apply(Group(a))
        BY <1>d, <2>2, <2>3, <2>4 DEF Promise!Apply
    <2> QED BY <2>2, <2>5 DEF Promise!Next
<1>2. CASE RejectBatch(a)
    <2>1. At(a, "commit") /\ rejected' = rejected \cup {cur[a]} /\ log' = log
        BY <1>2 DEF RejectBatch, FlushFails
    <2>2. Group(a) \in TakenNow /\ TakenNow' = TakenNow \ {Group(a)}
        BY <1>b, <1>c, <2>1, TakenLeaves
    <2>3. GivenUp' = GivenUp \cup InBatch(cur[a])
        <3>1. Committed' = Committed /\ InBatch(cur[a]) \cap Committed = {}
            BY <1>a, <1>e, <2>1 DEF Committed, OnceInv
        <3>2. rejected \cup {cur[a]} \subseteq BatchIds
            BY <1>a, <1>e DEF SharedTyped
        <3> HIDE DEF Committed
        <3> QED BY <1>f, <2>1, <3>1, <3>2 DEF GivenUp
    <2>4. InBatch(cur[a]) = Promise!Range(Group(a).writes)
        BY DEF InBatch, Group, Promise!Range, Range
    <2>5. Promise!GiveUp(Group(a))
        BY <1>d, <2>1, <2>2, <2>3, <2>4 DEF Promise!GiveUp
    <2> QED BY <2>2, <2>5 DEF Promise!Next
<1>3. CASE Publish(a) \/ PublishFails(a)
    <2>1. At(a, "publish") /\ log' = log /\ rejected' \in {rejected, rejected \cup {cur[a]}}
        BY <1>3 DEF Publish, PublishFails, FlushFails
    <2>2. TakenNow' = TakenNow
        <3>1. ~At(a, "commit")
            BY <2>1 DEF At
        <3> QED BY <1>c, <1>d, <3>1, TakenStays
    <2>3. GivenUp' = GivenUp
        <3>1. InBatch(cur[a]) \subseteq Committed /\ Committed' = Committed
            <4>1. InBatch(cur[a]) \subseteq Range(log[target[cur[a]]]) /\ target[cur[a]] \in Keys
                BY <1>a, <1>e, <2>1 DEF WhereInv, SharedTyped
            <4> QED BY <2>1, <4>1 DEF Committed
        <3>2. rejected \cup {cur[a]} \subseteq BatchIds
            BY <1>a, <1>e DEF SharedTyped
        <3> QED BY <1>f, <2>1, <3>1, <3>2 DEF GivenUp
    <2> QED BY <1>d, <2>1, <2>2, <2>3
<1> QED BY <1>1, <1>2, <1>3

\* A call that goes to the engine itself bypasses the queue, or is refused.
LEMMA DirectBypasses ==
    ASSUME PromiseInv, NEW t \in Threads, Direct(t)
    PROVE  Promise!Next \/ UNCHANGED <<log, QueuedNow, TakenNow, GivenUp>>
<1>a. SharedTyped /\ PlaceTyped /\ CountTyped /\ BaseInv /\ WhereInv /\ OnceInv /\ t \in Agents
    BY TypeParts, Names DEF PromiseInv, BaseInv
<1>b. /\ pc[t] = "direct" /\ pc' = [pc EXCEPT ![t] = "idle"] /\ key[t] \in Keys
      /\ UNCHANGED <<pending, calls, target, cur, rejected>>
    BY <1>a DEF Direct, At, Goto, queue, mine, PlaceTyped
<1>c. QueuedNow' = QueuedNow /\ \A b \in BatchIds : InBatch(b)' = InBatch(b)
    BY <1>b DEF QueuedNow, InBatch
<1>d. TakenNow' = TakenNow
    <2>1. \A a \in Agents : (At(a, "commit")' <=> At(a, "commit")) /\ Group(a)' = Group(a)
        BY <1>a, <1>b DEF At, Group, PlaceTyped
    <2> QED BY <2>1, TakenStays
<1>1. CASE log' = log
    <2>1. GivenUp' = GivenUp
        BY <1>a, <1>b, <1>c, <1>1 DEF GivenUp, Committed, SharedTyped
    <2> QED BY <1>1, <1>c, <1>d, <2>1
<1>2. CASE log' # log
    <2>1. PICK r \in Seq(Ops) :
              /\ Committed' = Committed \cup Range(r)
              /\ \A b \in BatchIds : InBatch(b) \cap Range(r) = {}
        <3>1. ~CommitBatch(t)
            BY <1>b DEF CommitBatch, At
        <3> QED BY <1>a, <1>2, <3>1, CommitIsFresh
    <2>2. GivenUp' = GivenUp
        BY <1>a, <1>b, <1>c, <2>1 DEF GivenUp, SharedTyped
    <2>3. Carries(t) /\ op[t] \in Ops
        <3>1. Carries(t)
            BY <1>b DEF Carries, Heads, At
        <3>2. op[t] \in 1..issued /\ issued \in 0..MaxIssued
            BY <1>a, <3>1 DEF BaseInv, OpInv, CountTyped
        <3> QED BY <3>1, <3>2, BatchConstantsOK DEF Ops
    <2>4. log' = [log EXCEPT ![key[t]] = Append(log[key[t]], op[t])]
        BY <1>2 DEF Direct
    <2>5. op[t] \notin Promise!Known
        BY <2>3, CarriedIsUnknown
    <2>6. Promise!Bypass(key[t], op[t])
        BY <1>c, <1>d, <2>2, <2>4, <2>5 DEF Promise!Bypass
    <2> QED BY <1>b, <2>3, <2>6 DEF Promise!Next
<1> QED BY <1>1, <1>2

\* Every step is a step of what is promised, or changes nothing of it.
LEMMA StepKeepsPromise ==
    PromiseInv /\ [Next]_vars => [Promise!Next]_<<log, QueuedNow, TakenNow, GivenUp>>
<1> SUFFICES ASSUME PromiseInv, [Next]_vars
             PROVE  Promise!Next \/ UNCHANGED <<log, QueuedNow, TakenNow, GivenUp>>
    OBVIOUS
<1>a. BaseInv /\ WhereInv
    BY DEF PromiseInv
<1>1. CASE \E t \in Threads : AppendCall(t)
    BY <1>1, AppendAccepts
<1>2. CASE \E a \in Agents, k \in Keys :
                 /\ ~At(a, "commit") /\ pending[k] # None /\ Claim(a, pending[k], k)
                 /\ UNCHANGED <<calls, target, made, rejected, log>>
    BY <1>2, ClaimTakes
<1>3. CASE \E a \in Agents : CommitBatch(a) \/ RejectBatch(a) \/ Publish(a) \/ PublishFails(a)
    BY <1>3, FlushKeeps
<1>4. CASE \E t \in Threads : Direct(t)
    BY <1>4, DirectBypasses
<1>5. CASE /\ UNCHANGED <<pending, calls, target, made, inflight, rejected, log, cur>>
           /\ \A a \in Agents : At(a, "commit")' <=> At(a, "commit")
    <2>1. QueuedNow' = QueuedNow /\ GivenUp' = GivenUp
        BY <1>5 DEF QueuedNow, GivenUp, InBatch, Committed
    <2>2. TakenNow' = TakenNow
        BY <1>5, TakenStays DEF Group
    <2> QED BY <1>5, <2>1, <2>2
<1> QED BY <1>a, <1>1, <1>2, <1>3, <1>4, <1>5, FlushParts

\* At the start nothing is accepted.
LEMMA PromiseInit == Init => Promise!Init
<1> SUFFICES ASSUME Init PROVE Promise!Init
    OBVIOUS
<1>1. QueuedNow = [k \in Keys |-> <<>>]
    BY DEF Init, QueuedNow
<1>2. TakenNow = {}
    <2>1. \A a \in Agents : ~At(a, "commit")
        BY DEF Init, At
    <2> QED BY <2>1 DEF TakenNow
<1>3. GivenUp = {}
    BY DEF Init, GivenUp
<1> QED BY <1>1, <1>2, <1>3 DEF Init, Promise!Init

\* Threads and timers that enqueue, flush and fail as they may keep what AcceptedWrites
\* promises the callers: every step accepts one mutation, takes a whole queue, applies or gives
\* up all that was taken, goes round the queue, or is not noticed (enqueue, flush_key).
THEOREM BatchingKeepsThePromise == Spec => KeepsThePromise
BY PromiseInit, PromiseHolds, StepKeepsPromise, PTL DEF Spec, KeepsThePromise, Promise!Spec
=============================================================================
