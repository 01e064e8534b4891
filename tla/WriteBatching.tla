--------------------------- MODULE WriteBatching ---------------------------
(***************************************************************************)
(* The process-local write batches of batching.py, the API calls of api.py   *)
(* that enqueue, flush or bypass them, and the timer threads.               *)
(*                                                                         *)
(* Application threads and timer threads run the same flush_key; everything  *)
(* under batching._lock is one step, and one commit of the transaction       *)
(* engine (which takes the VFS write lock) is one step.  A mutation is a     *)
(* number, in the order the calls are made; its validity is a choice of the  *)
(* commit.  The byte threshold acts like the operation threshold and is not  *)
(* modelled apart.                                                          *)
(***************************************************************************)
EXTENDS Naturals, Sequences, FiniteSets, SequencesExt

CONSTANTS Threads,        \* application threads
          Timers,         \* threading.Timer threads that can run at once
          Keys,           \* (vfs, directory, folder) identities
          MaxOperations,  \* batch_max_operations
          TimerOn,        \* batch_max_wait_ms > 0
          Asks,           \* the calls other than writes that threads make
          MaxIssued,      \* bound: mutations issued
          MaxAsked,       \* bound: other calls made
          MaxFaults       \* bound: rejected commits and failed publications

ASSUME BatchConstantsOK ==
    /\ MaxOperations \in Nat \ {0} /\ TimerOn \in BOOLEAN
    /\ Asks \subseteq {"read", "transact", "recover", "flush", "disable", "enable"}
    /\ MaxIssued \in Nat /\ MaxAsked \in Nat /\ MaxFaults \in Nat
    /\ Threads \cap Timers = {}
    /\ IsFiniteSet(Threads) /\ Threads # {} /\ Keys # {}

Agents   == Threads \cup Timers
Ops      == 1..MaxIssued
BatchIds == 1..MaxIssued          \* a batch is made for a mutation
None     == 0                     \* no batch; any batch id will do

VARIABLES
    enabled,    \* _enabled
    pending,    \* _pending: key -> batch id, or None
    calls,      \* batch id -> the mutations in it, in call order
    target,     \* batch id -> its vfs_key
    made,       \* batches made so far
    armed,      \* batches whose timer is running
    inflight,   \* _inflight
    failures,   \* _stats["batches_failed"]
    log,        \* key -> the mutations committed to that VFS, in commit order
    rejected,   \* batches whose flush reported failure (history)
    \* one per agent
    pc, ask, key, op,
    cur,        \* the batch claimed by _take_batch
    expect,     \* expected_batch_id
    ret,        \* where flush_key returns to
    todo,       \* keys flush_all has still to flush
    before,     \* failures_before of flush_all
    bad,        \* a flush of this call failed
    owed,       \* mutations unresolved when this flush_all began (history)
    \* what the bounds count; author: who issued a mutation (history)
    issued, asked, faults, author

queue == <<enabled, pending, calls, target, made, armed, inflight, failures>>
mine  == <<ask, key, op, cur, expect, ret, todo, before, bad, owed>>
count == <<issued, asked, faults, author>>
vars  == <<queue, log, rejected, pc, mine, count>>

Labels == {"idle", "check", "append", "take", "commit", "publish", "next_key",
           "wait", "flushed", "observe", "direct"}

TypeOK ==
    /\ enabled \in BOOLEAN
    /\ pending \in [Keys -> BatchIds \cup {None}]
    /\ calls \in [BatchIds -> Seq(Ops)]
    /\ target \in [BatchIds -> Keys]
    /\ made \in 0..MaxIssued
    /\ armed \subseteq BatchIds /\ inflight \subseteq BatchIds /\ rejected \subseteq BatchIds
    /\ failures \in Nat
    /\ log \in [Keys -> Seq(Ops)]
    /\ pc \in [Agents -> Labels] /\ ret \in [Agents -> Labels]
    /\ ask \in [Agents -> {"write", "timer", "read", "transact", "recover", "flush", "disable"}]
    /\ key \in [Agents -> Keys]
    /\ op \in [Agents -> Ops \cup {0}]
    /\ cur \in [Agents -> BatchIds \cup {None}]
    /\ expect \in [Agents -> BatchIds \cup {None}]
    /\ todo \in [Agents -> SUBSET Keys]
    /\ before \in [Agents -> Nat]
    /\ bad \in [Agents -> BOOLEAN]
    /\ owed \in [Agents -> SUBSET Ops]
    /\ issued \in 0..MaxIssued /\ asked \in 0..MaxAsked /\ faults \in 0..MaxFaults
    /\ author \in [Ops -> Threads]

Init ==
    /\ enabled = TRUE
    /\ pending = [k \in Keys |-> None]
    /\ calls = [b \in BatchIds |-> <<>>]
    /\ target \in {[b \in BatchIds |-> CHOOSE k \in Keys : TRUE]}
    /\ made = 0 /\ armed = {} /\ inflight = {} /\ failures = 0
    /\ log = [k \in Keys |-> <<>>]
    /\ rejected = {}
    /\ pc = [a \in Agents |-> "idle"] /\ ret = pc
    /\ ask = [a \in Agents |-> IF a \in Timers THEN "timer" ELSE "write"]
    /\ key = [a \in Agents |-> CHOOSE k \in Keys : TRUE]
    /\ op = [a \in Agents |-> 0]
    /\ cur = [a \in Agents |-> None] /\ expect = cur
    /\ todo = [a \in Agents |-> {}]
    /\ before = [a \in Agents |-> 0]
    /\ bad = [a \in Agents |-> FALSE]
    /\ owed = todo
    /\ issued = 0 /\ asked = 0 /\ faults = 0
    /\ author = [o \in Ops |-> CHOOSE t \in Threads : TRUE]

-----------------------------------------------------------------------------
At(a, label)   == pc[a] = label
Goto(a, label) == pc' = [pc EXCEPT ![a] = label]
InBatch(b)     == Range(calls[b])
Committed      == UNION {Range(log[k]) : k \in Keys}
Waiting        == UNION {InBatch(b) : b \in inflight \cup (Range(pending) \ {None})}
\* Faulty variant: off by one.
ReachedLate(n) == n > MaxOperations
Reached(n)     == n >= MaxOperations

(***************************************************************************)
(* API calls.                                                              *)
(***************************************************************************)
Issue(t) == /\ issued < MaxIssued
            /\ issued' = issued + 1
            /\ op' = [op EXCEPT ![t] = issued + 1]
            /\ author' = [author EXCEPT ![issued + 1] = t]

\* A mutation: "if batching.enabled(): return batching.enqueue(...)".
Write(t, k) ==
    /\ At(t, "idle") /\ Issue(t)
    /\ key' = [key EXCEPT ![t] = k]
    /\ ask' = [ask EXCEPT ![t] = "write"]
    /\ Goto(t, IF enabled THEN "check" ELSE "direct")
    /\ UNCHANGED <<queue, log, rejected, cur, expect, ret, todo, before, bad, owed, asked, faults>>

\* Faulty variant: the flush is forgotten.
BarrierLabelNone == "observe"
\* Where a call that must see queued work starts: in flush_key.
BarrierLabel == "take"

\* _flush_pending_for_consistency, then a read or an explicit transaction.
Barrier(t, k, c) ==
    /\ At(t, "idle") /\ c \in Asks \cap {"read", "transact"} /\ asked < MaxAsked
    /\ IF c = "transact" THEN Issue(t) ELSE UNCHANGED <<issued, op, author>>
    /\ asked' = asked + 1
    /\ ask' = [ask EXCEPT ![t] = c]
    /\ key' = [key EXCEPT ![t] = k]
    /\ expect' = [expect EXCEPT ![t] = None]
    /\ ret' = [ret EXCEPT ![t] = IF c = "read" THEN "observe" ELSE "direct"]
    /\ bad' = [bad EXCEPT ![t] = FALSE]
    /\ Goto(t, BarrierLabel)
    /\ UNCHANGED <<queue, log, rejected, cur, todo, before, owed, faults>>

\* recover_vfs, rollback_revision, lockvar, lockdel, stalkvar: no flush at all.
Recover(t, k) ==
    /\ At(t, "idle") /\ "recover" \in Asks /\ asked < MaxAsked /\ Issue(t)
    /\ asked' = asked + 1
    /\ ask' = [ask EXCEPT ![t] = "recover"]
    /\ key' = [key EXCEPT ![t] = k]
    /\ Goto(t, "direct")
    /\ UNCHANGED <<queue, log, rejected, cur, expect, ret, todo, before, bad, owed, faults>>

\* flush_writes, and configure(write_batching=False), start flush_all.
FlushAll(t, c) ==
    /\ At(t, "idle") /\ c \in Asks \cap {"flush", "disable"} /\ asked < MaxAsked
    /\ asked' = asked + 1
    /\ ask' = [ask EXCEPT ![t] = c]
    /\ todo' = [todo EXCEPT ![t] = {k \in Keys : pending[k] # None}]
    /\ before' = [before EXCEPT ![t] = failures]
    /\ bad' = [bad EXCEPT ![t] = FALSE]
    /\ owed' = [owed EXCEPT ![t] = Waiting \ Committed]
    /\ Goto(t, "next_key")
    /\ UNCHANGED <<queue, log, rejected, key, op, cur, expect, ret, issued, faults, author>>

Enable(t) ==
    /\ At(t, "idle") /\ "enable" \in Asks /\ ~enabled /\ asked < MaxAsked
    /\ asked' = asked + 1
    /\ enabled' = TRUE
    /\ UNCHANGED <<pending, calls, target, made, armed, inflight, failures, log, rejected,
                   pc, mine, issued, faults, author>>

(***************************************************************************)
(* enqueue: the flag again (RuntimeError when it was cleared meanwhile), a   *)
(* flush first when the batch is full, then the append under the lock.       *)
(***************************************************************************)
Check(t) ==
    /\ At(t, "check")
    /\ bad' = [bad EXCEPT ![t] = FALSE]
    /\ LET full == pending[key[t]] # None /\ Reached(Len(calls[pending[key[t]]])) IN
          /\ expect' = [expect EXCEPT ![t] = None]
          /\ ret' = [ret EXCEPT ![t] = "append"]
          /\ Goto(t, IF ~enabled THEN "idle" ELSE IF full THEN "take" ELSE "append")
    /\ UNCHANGED <<queue, log, rejected, ask, key, op, cur, todo, before, owed, count>>

\* Faulty variant: no timer for a new batch.
ScheduledNever(b, new) == {}
\* _schedule: a batch gets its timer when it is made.
Scheduled(b, new) == IF new /\ TimerOn THEN {b} ELSE {}

\* Faulty variant: the call comes first.
QueuedFirst(s, o) == <<o>> \o s
Queued(s, o)      == Append(s, o)

AppendCall(t) ==
    /\ At(t, "append")
    /\ LET k == key[t]
           new == pending[k] = None
           b == IF new THEN made + 1 ELSE pending[k]
           flush == TimerOn => Reached(Len(calls[b]) + 1)
       IN /\ pending' = [pending EXCEPT ![k] = b]
          /\ calls' = [calls EXCEPT ![b] = Queued(@, op[t])]
          /\ made' = IF new THEN b ELSE made
          /\ target' = [target EXCEPT ![b] = k]
          /\ armed' = armed \cup Scheduled(b, new)
          /\ expect' = [expect EXCEPT ![t] = b]
          /\ ret' = [ret EXCEPT ![t] = "idle"]
          /\ Goto(t, IF flush THEN "take" ELSE "idle")
    /\ UNCHANGED <<enabled, inflight, failures, log, rejected, ask, key, op, cur, todo,
                   before, bad, owed, count>>

(***************************************************************************)
(* flush_key: claim (_take_batch), run the transaction, publish, report.     *)
(***************************************************************************)
\* Faulty variant: the batch is not registered as in flight.
ClaimUnregistered(a, b, k) ==
    /\ pending' = [pending EXCEPT ![k] = None]
    /\ armed' = armed \ {b}
    /\ cur' = [cur EXCEPT ![a] = b]
    /\ Goto(a, "commit")
    /\ UNCHANGED inflight

\* Faulty variant: the batch stays in _pending while it is committed.
ClaimLeft(a, b, k) ==
    /\ inflight' = inflight \cup {b}
    /\ armed' = armed \ {b}
    /\ cur' = [cur EXCEPT ![a] = b]
    /\ Goto(a, "commit")
    /\ UNCHANGED pending

Claim(a, b, k) ==
    /\ pending' = [pending EXCEPT ![k] = None]
    /\ inflight' = inflight \cup {b}
    /\ armed' = armed \ {b}
    /\ cur' = [cur EXCEPT ![a] = b]
    /\ Goto(a, "commit")

\* Faulty variant: an empty queue is not noticed.
ClaimableAny(b, wanted) == wanted \in {None, b}
Claimable(b, wanted) == b # None /\ wanted \in {None, b}

Take(t) ==
    /\ At(t, "take")
    /\ LET b == pending[key[t]] IN
          IF Claimable(b, expect[t]) THEN Claim(t, b, key[t])
          ELSE Goto(t, ret[t]) /\ UNCHANGED <<pending, inflight, armed, cur>>
    /\ UNCHANGED <<enabled, calls, target, made, failures, log, rejected, ask, key, op,
                   expect, ret, todo, before, bad, owed, count>>

\* A timer that fires late finds another batch, or none, and does nothing.
TimerFires(x, b) ==
    /\ At(x, "idle") /\ b \in armed
    /\ key' = [key EXCEPT ![x] = target[b]]
    /\ IF pending[target[b]] = b THEN Claim(x, b, target[b])
       ELSE armed' = armed \ {b} /\ UNCHANGED <<pending, inflight, cur, pc>>
    /\ UNCHANGED <<enabled, calls, target, made, failures, log, rejected, ask, op,
                   expect, ret, todo, before, bad, owed, count>>

\* The except-branch of flush_key: one more failure, no longer in flight.
FlushFails(a) ==
    /\ faults < MaxFaults
    /\ faults' = faults + 1
    /\ failures' = failures + 1
    /\ inflight' = inflight \ {cur[a]}
    /\ rejected' = rejected \cup {cur[a]}
    /\ bad' = [bad EXCEPT ![a] = TRUE]
    /\ Goto(a, ret[a])

\* Faulty variant: calls are applied one by one until one is refused.
CommitSome(a) ==
    /\ At(a, "commit")
    /\ \E n \in 0..Len(calls[cur[a]]) :
          log' = [log EXCEPT ![target[cur[a]]] = @ \o SubSeq(calls[cur[a]], 1, n)]
    /\ Goto(a, "publish")
    /\ UNCHANGED <<queue, rejected, mine, count>>

\* run_transaction_calls: every call of the batch in one revision, or none.
CommitBatch(a) ==
    /\ At(a, "commit")
    /\ log' = [log EXCEPT ![target[cur[a]]] = @ \o calls[cur[a]]]
    /\ Goto(a, "publish")
    /\ UNCHANGED <<queue, rejected, mine, count>>

RejectBatch(a) ==
    /\ At(a, "commit")
    /\ FlushFails(a)
    /\ UNCHANGED <<enabled, pending, calls, target, made, armed, log, ask, key, op, cur,
                   expect, ret, todo, before, owed, issued, asked, author>>

\* rebuild_integrity_map and rebuild_read_index, then the statistics.
Publish(a) ==
    /\ At(a, "publish")
    /\ inflight' = inflight \ {cur[a]}
    /\ Goto(a, ret[a])
    /\ UNCHANGED <<enabled, pending, calls, target, made, armed, failures, log, rejected,
                   mine, count>>

\* Either of them raises although the batch is durable.
PublishFails(a) ==
    /\ At(a, "publish")
    /\ FlushFails(a)
    /\ UNCHANGED <<enabled, pending, calls, target, made, armed, log, ask, key, op, cur,
                   expect, ret, todo, before, owed, issued, asked, author>>

(***************************************************************************)
(* flush_all: the listed keys one by one, then wait for what others claimed. *)
(***************************************************************************)
NextKey(t) ==
    /\ At(t, "next_key")
    /\ \/ \E k \in todo[t] : /\ todo' = [todo EXCEPT ![t] = @ \ {k}]
                             /\ key' = [key EXCEPT ![t] = k]
                             /\ Goto(t, "take")
       \/ todo[t] = {} /\ Goto(t, "wait") /\ UNCHANGED <<todo, key>>
    /\ expect' = [expect EXCEPT ![t] = None]
    /\ ret' = [ret EXCEPT ![t] = "next_key"]
    /\ UNCHANGED <<queue, log, rejected, ask, op, cur, before, bad, owed, count>>

\* Faulty variant: batches that a timer claimed and lost are not asked after.
WaitInflightOnly(t) ==
    /\ At(t, "wait") /\ inflight = {}
    /\ Goto(t, "flushed")
    /\ UNCHANGED <<queue, log, rejected, mine, count>>

WaitInflight(t) ==
    /\ At(t, "wait") /\ inflight = {}
    /\ bad' = [bad EXCEPT ![t] = @ \/ failures > before[t]]
    /\ Goto(t, "flushed")
    /\ UNCHANGED <<queue, log, rejected, ask, key, op, cur, expect, ret, todo, before, owed, count>>

\* The result is returned; configure clears the flag whatever it says.
FlushReturns(t) ==
    /\ At(t, "flushed")
    /\ enabled' = (enabled /\ ask[t] # "disable")
    /\ owed' = [owed EXCEPT ![t] = {}]
    /\ Goto(t, "idle")
    /\ UNCHANGED <<pending, calls, target, made, armed, inflight, failures, log, rejected,
                   ask, key, op, cur, expect, ret, todo, before, bad, count>>

\* The body of a read; RuntimeError when its flush failed.
Observe(t) ==
    /\ At(t, "observe")
    /\ Goto(t, "idle")
    /\ UNCHANGED <<queue, log, rejected, mine, count>>

\* A mutation or transaction that goes to the engine itself, one commit.
Direct(t) ==
    /\ At(t, "direct")
    /\ IF ask[t] = "transact" /\ bad[t] THEN UNCHANGED log
       ELSE log' = [log EXCEPT ![key[t]] = Append(@, op[t])]
    /\ Goto(t, "idle")
    /\ UNCHANGED <<queue, rejected, mine, count>>

-----------------------------------------------------------------------------
Flush(a)     == CommitBatch(a) \/ RejectBatch(a) \/ Publish(a) \/ PublishFails(a)
Enqueue(t)   == Check(t) \/ AppendCall(t) \/ Take(t)
Finish(t)    == NextKey(t) \/ WaitInflight(t) \/ FlushReturns(t) \/ Observe(t) \/ Direct(t)
Step(t)      == Enqueue(t) \/ Flush(t) \/ Finish(t)
TimerStep(x) == Flush(x) \/ \E b \in BatchIds : TimerFires(x, b)

Call(t) == \/ \E k \in Keys : Write(t, k) \/ Recover(t, k)
           \/ \E k \in Keys, c \in Asks : Barrier(t, k, c)
           \/ \E c \in Asks : FlushAll(t, c)
           \/ Enable(t)

\* No call runs, no timer is armed: the only state in which nothing follows.
Quiescent == /\ \A a \in Agents : At(a, "idle")
             /\ armed = {}
             /\ UNCHANGED vars

Next == \/ \E t \in Threads : Call(t) \/ Step(t)
        \/ \E x \in Timers : TimerStep(x)
        \/ Quiescent

Spec == Init /\ [][Next]_vars

\* Threads that have started a call and timers keep running.
FairSpec == Spec /\ (\A t \in Threads : WF_vars(Step(t)))
                 /\ (\A x \in Timers : WF_vars(TimerStep(x)))

-----------------------------------------------------------------------------
(***************************************************************************)
(* Properties.                                                             *)
(***************************************************************************)
Position(k, o) == CHOOSE i \in DOMAIN log[k] : log[k][i] = o

\* An accepted mutation is never lost and never applied twice: its batch is
\* queued, in flight, reported as failed, or wholly in the VFS; and no call is
\* in a VFS twice, whichever threads and timers flush.
NothingLostOrRepeated ==
    /\ \A b \in 1..made : \/ pending[target[b]] = b
                          \/ b \in inflight
                          \/ b \in rejected
                          \/ InBatch(b) \subseteq Range(log[target[b]])
    /\ \A k \in Keys : Cardinality(Range(log[k])) = Len(log[k])

\* A batch is applied whole, in its call order and with nothing in between, or
\* not at all, although several threads commit.
BatchIsOneTransaction ==
    \A b \in 1..made :
        \/ InBatch(b) \cap Committed = {}
        \/ \E i \in 1..(Len(log[target[b]]) - Len(calls[b]) + 1) :
              SubSeq(log[target[b]], i, i + Len(calls[b]) - 1) = calls[b]

\* A flush_writes that reports success leaves every mutation that was queued or
\* in flight when it began durable, also those a timer had already claimed.
FlushOkMeansDurable ==
    \A t \in Threads : (At(t, "flushed") /\ ~bad[t]) => owed[t] \subseteq Committed

\* Every variable has its type, and although the check before and the threshold
\* after an append are separate critical sections (batching.py:163-186), a batch
\* outgrows batch_max_operations by at most one call per other thread.
BatchBounded ==
    /\ TypeOK
    /\ \A b \in 1..made : Len(calls[b]) < MaxOperations + Cardinality(Threads)

\* When a read observes the VFS, none of the calls its thread made for that VFS
\* is still waiting in _pending for somebody to flush it.
ReadLeavesNothingQueued ==
    \A t \in Threads : (At(t, "observe") /\ pending[key[t]] # None) =>
        \A o \in InBatch(pending[key[t]]) : author[o] # t

(***************************************************************************)
(* Refinement: what callers are promised, of which a publication that fails  *)
(* after the commit takes nothing back.                                      *)
(***************************************************************************)
Group(a)  == [file |-> target[cur[a]], writes |-> calls[cur[a]]]
QueuedNow == [k \in Keys |-> IF pending[k] = None THEN <<>> ELSE calls[pending[k]]]
TakenNow  == {Group(a) : a \in {u \in Agents : At(u, "commit")}}
GivenUp   == (UNION {InBatch(b) : b \in rejected}) \ Committed
Promise   == INSTANCE AcceptedWrites
                WITH Files <- Keys, Writes <- Ops,
                     queued <- QueuedNow, taken <- TakenNow, lost <- GivenUp

\* Every step of threads and timers accepts a mutation, takes a queue, applies or
\* gives up all that was taken, goes round the queue, or changes nothing that a
\* caller is promised (enqueue, _take_batch, _run_batch, flush_key).
KeepsThePromise == Promise!Spec

\* Every queued mutation is eventually committed or its batch reported failed.
QueuedIsResolved ==
    \A b \in BatchIds : (\E k \in Keys : pending[k] = b)
        ~> (b \in rejected \/ (calls[b] # <<>> /\ InBatch(b) \subseteq Committed))

\* Calls of one thread for one VFS keep their order (RELEASE_NOTES_1.5.2.md:19), but for
\* one thing: a call is overtaken while its batch is in flight with another agent, and
\* never within a batch or while it is still queued (batching.py:172-199).
OvertakenOnlyInFlight ==
    \A b \in 1..made : \A i \in InBatch(b) : \A j \in (i + 1)..issued :
        (author[j] = author[i] /\ j \in Range(log[target[b]])) =>
            \/ b \in inflight \cup rejected
            \/ /\ i \in Committed
               /\ j \in InBatch(b) => Position(target[b], i) < Position(target[b], j)
=============================================================================
