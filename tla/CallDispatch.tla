---------------------------- MODULE CallDispatch ----------------------------
(***************************************************************************)
(* map_api_calls and map_vfs_api_calls (api.py:220-311): a list of calls is cut  *)
(* into chunks, run by the workers of a process pool, and run again in the       *)
(* calling process when the pool fails.  The pool is multiprocessing's: workers  *)
(* take chunks in order; a chunk fails when a call of it cannot be sent or an     *)
(* answer cannot be returned; map waits for every chunk and then raises if any     *)
(* failed; a worker that is killed is replaced, but its chunk is not.             *)
(*                                                                         *)
(* A call writes to the VFS it names, or to the one selected where it runs, or    *)
(* selects one; its answer is the VFS it worked on, None when it is a CallFailure. *)
(***************************************************************************)
EXTENDS Selection, Sequences, SequencesExt

CONSTANTS Caller, Workers,
          CallLists,    \* lists of calls [kind, vfs, sends, returns]; an empty one returns at once
          ChunkSize,
          MaxDeaths     \* bound: workers killed

NoAnswer == "none yet"

ASSUME DispatchConstantsOK ==
    /\ Caller \in Users /\ Workers \subseteq Procs \ Users
    /\ NoAnswer \notin VFSs \cup {None}
    /\ ChunkSize \in Nat \ {0} /\ MaxDeaths \in Nat
    /\ CallLists \subseteq Seq([kind : {"write", "select"}, vfs : VFSs \cup {None},
                              sends : BOOLEAN, returns : BOOLEAN])
    /\ \A l \in CallLists :
          l # <<>> /\ \A i \in DOMAIN l : l[i].kind = "select" => l[i].vfs # None

VARIABLES
    calls,      \* the list
    phase,      \* "before", "pool", "here" (the fallback), "done"
    arrived,    \* of each chunk: "waiting", "ok", "failed"
    taken,      \* chunks the workers have taken
    hands,      \* the chunk each worker runs, and the calls of it that it has run
    answers,    \* the list that map returns
    ran,        \* what each call worked on, every time it ran
    deaths,
    home, since \* the caller's selection at the call, and the ones persisted since

dispatchVars == <<calls, phase, arrived, taken, hands, answers, ran, deaths, home, since>>
vars == <<selectionVars, dispatchVars>>

Chunks == 1..((Len(calls) + ChunkSize - 1) \div ChunkSize)
\* The calls of a chunk, by their number in the list.
Members(k) == {i \in DOMAIN calls : (k - 1) * ChunkSize < i /\ i <= k * ChunkSize}

NoHand == [chunk |-> 0, next |-> 0]

Init ==
    /\ SelectionInit
    /\ calls \in CallLists /\ phase = "before"
    /\ arrived = [k \in Chunks |-> "waiting"] /\ taken = {}
    /\ hands = [w \in Workers |-> NoHand]
    /\ answers = [i \in DOMAIN calls |-> NoAnswer]
    /\ ran = [i \in DOMAIN calls |-> <<>>]
    /\ deaths = 0 /\ home = None /\ since = {}

-----------------------------------------------------------------------------
\* Other processes, until the list is done, and the caller before it calls, create and
\* select.
UserStep(p) ==
    /\ phase # "done" /\ (p = Caller => phase = "before")
    /\ Use(p) \/ Crash(p)
    /\ since' = IF phase = "before" THEN {} ELSE since \cup {selectionFile'}
    /\ UNCHANGED <<calls, phase, arrived, taken, hands, answers, ran, deaths, home>>

\* A forked worker starts with the caller's context, a spawned one with none.  The pool
\* may fail to start; a chunk that cannot be sent fails on its own.
Dispatch ==
    /\ phase = "before" /\ making[Caller] = None
    /\ phase' \in {"pool", "here"}
    /\ \E fork \in BOOLEAN :
          chosen' = [p \in Procs |-> IF p \in Workers /\ fork THEN chosen[Caller] ELSE chosen[p]]
    /\ arrived' = [k \in Chunks |-> IF \A i \in Members(k) : calls[i].sends
                                    THEN "waiting" ELSE "failed"]
    /\ home' = Selected(Caller) /\ since' = {selectionFile}
    /\ UNCHANGED <<store, selectionFile, making, uses, calls, taken, hands, answers, ran, deaths>>

Take(w) ==
    /\ phase = "pool" /\ hands[w] = NoHand
    /\ \E k \in Chunks \ taken :
          /\ arrived[k] = "waiting"
          /\ \A l \in 1..(k - 1) : l \in taken \/ arrived[l] = "failed"
          /\ taken' = taken \cup {k}
          /\ hands' = [hands EXCEPT ![w] = [chunk |-> k, next |-> (k - 1) * ChunkSize + 1]]
    /\ UNCHANGED <<selectionVars, calls, phase, arrived, answers, ran, deaths, home, since>>

(***************************************************************************)
(* One call, contained: invoke_api, or invoke_vfs_api inside open_vfs.        *)
(***************************************************************************)
\* Faulty variants: the selection of open_vfs stays; the token itself becomes the
\* selection.
Stays(p, v) == chosen' = [chosen EXCEPT ![p] = IF Readable(v) THEN v ELSE @]
SetsToken(p, v) == chosen' = [chosen EXCEPT ![p] = "token"]
\* temporary_selection is reset, on failure too.
Restored(p, v) == chosen' = chosen

\* What a call works on; an exception becomes a CallFailure.
WorksOn(p, c) == IF c.vfs = None THEN Selected(p)
                 ELSE IF Readable(c.vfs) THEN c.vfs ELSE None

Call(p, i) == LET c == calls[i] IN
    /\ ran' = [ran EXCEPT ![i] = Append(@, WorksOn(p, c))]
    /\ \/ /\ c.kind = "select" /\ Readable(c.vfs) /\ Selects(p, c.vfs)
       \/ /\ c.kind = "select" /\ ~Readable(c.vfs) /\ UNCHANGED <<chosen, selectionFile>>
       \/ /\ c.kind = "write" /\ c.vfs = None
          /\ chosen' = [chosen EXCEPT ![p] = Selected(p)] /\ UNCHANGED selectionFile
       \/ /\ c.kind = "write" /\ c.vfs # None
          /\ Restored(p, c.vfs) /\ UNCHANGED selectionFile
    /\ since' = since \cup {selectionFile'} \cup (IF c.kind = "select" THEN {c.vfs} ELSE {})
    /\ UNCHANGED <<store, making, uses>>

More(w) == hands[w].next \in Members(hands[w].chunk)

RunInWorker(w) ==
    /\ phase = "pool" /\ hands[w] # NoHand /\ More(w)
    /\ Call(w, hands[w].next)
    /\ hands' = [hands EXCEPT ![w].next = @ + 1]
    /\ UNCHANGED <<calls, phase, arrived, taken, answers, deaths, home>>

\* Faulty variant: answers are filed as chunks come in.
ByArrival(k) ==
    LET filled == Cardinality({i \in DOMAIN calls : answers[i] # NoAnswer})
        first  == CHOOSE i \in Members(k) : \A j \in Members(k) : i <= j
    IN [i \in DOMAIN calls |-> IF i > filled /\ i - filled + first - 1 \in Members(k)
                               THEN Last(ran[i - filled + first - 1]) ELSE answers[i]]
\* The answers of a chunk go where its calls were.
Filed(k) == [i \in DOMAIN calls |-> IF i \in Members(k) THEN Last(ran[i]) ELSE answers[i]]

Return(w) == LET k == hands[w].chunk IN
    /\ phase = "pool" /\ hands[w] # NoHand /\ ~More(w)
    /\ \/ /\ \A i \in Members(k) : calls[i].returns
          /\ arrived' = [arrived EXCEPT ![k] = "ok"]
          /\ answers' = Filed(k)
       \/ /\ \E i \in Members(k) : ~calls[i].returns
          /\ arrived' = [arrived EXCEPT ![k] = "failed"]
          /\ UNCHANGED answers
    /\ hands' = [hands EXCEPT ![w] = NoHand]
    /\ UNCHANGED <<selectionVars, calls, phase, taken, ran, deaths, home, since>>

\* A worker is killed; the one that replaces it, started by a thread of the pool, has
\* no selection.
Die(w) ==
    /\ phase = "pool" /\ deaths < MaxDeaths
    /\ deaths' = deaths + 1
    /\ hands' = [hands EXCEPT ![w] = NoHand]
    /\ chosen' = [chosen EXCEPT ![w] = None]
    /\ UNCHANGED <<store, selectionFile, making, uses, calls, phase, arrived, taken, answers, ran,
                   home, since>>

\* Faulty variant: an answer that is false counts as a failure of the pool.
FailedAnswers == \/ \E k \in Chunks : arrived[k] = "failed"
                 \/ \E i \in DOMAIN calls : answers[i] = None
PoolFailed == \E k \in Chunks : arrived[k] = "failed"

\* map returns or raises, and the pool is terminated.
Collect ==
    /\ phase = "pool" /\ \A k \in Chunks : arrived[k] # "waiting"
    /\ phase' = IF PoolFailed THEN "here" ELSE "done"
    /\ answers' = IF PoolFailed THEN [i \in DOMAIN calls |-> NoAnswer] ELSE answers
    /\ chosen' = [p \in Procs |-> IF p \in Workers THEN None ELSE chosen[p]]
    /\ UNCHANGED <<store, selectionFile, making, uses, calls, arrived, taken, hands, ran, deaths,
                   home, since>>

\* Faulty variant: a call that fails ends the loop.
HaltsAtFailure(i) == \A j \in 1..(i - 1) : answers[j] \notin {NoAnswer, None}
Reached(i) == \A j \in 1..(i - 1) : answers[j] # NoAnswer

\* The fallback: every call, in order, in the calling process.
RunHere ==
    /\ phase = "here"
    /\ \E i \in DOMAIN calls :
          /\ answers[i] = NoAnswer /\ Reached(i)
          /\ Call(Caller, i)
          /\ answers' = [answers EXCEPT ![i] = Last(ran'[i])]
          /\ phase' = IF i = Len(calls) THEN "done" ELSE "here"
    /\ UNCHANGED <<calls, arrived, taken, hands, deaths, home>>

PoolStep == Collect \/ RunHere \/ \E w \in Workers : Take(w) \/ RunInWorker(w) \/ Return(w)

Next == \/ \E p \in Users : UserStep(p)
        \/ Dispatch \/ PoolStep
        \/ \E w \in Workers : Die(w)

\* Workers and the caller go on with what they do; nobody has to call, or to select.
Spec == Init /\ [][Next]_vars /\ WF_vars(PoolStep)

-----------------------------------------------------------------------------
(***************************************************************************)
(* Properties.                                                             *)
(***************************************************************************)
TypeOK ==
    /\ SelectionTypeOK
    /\ calls \in CallLists /\ phase \in {"before", "pool", "here", "done"}
    /\ arrived \in [Chunks -> {"waiting", "ok", "failed"}] /\ taken \subseteq Chunks
    /\ \A w \in Workers : hands[w].chunk \in Chunks \cup {0}
    /\ answers \in [DOMAIN calls -> VFSs \cup {None, NoAnswer}]
    /\ \A i \in DOMAIN calls : ran[i] \in Seq(VFSs \cup {None})
    /\ deaths \in 0..MaxDeaths

\* "return exactly one result per submitted call" (RELEASE_NOTES_1_4_2.md:12): the
\* answer at its place is that of the last time the call ran, whatever order chunks came
\* back in and whether the pool failed.
OneAnswerPerCall ==
    phase = "done" => \A i \in DOMAIN calls : ran[i] # <<>> /\ answers[i] = Last(ran[i])

\* A call runs once, however it ends; it runs twice only when the pool failed under the
\* list (api.py:261-265).
RunsTwiceOnlyAfterFailure ==
    \A i \in DOMAIN calls :
        Len(ran[i]) <= 1 \/ (Len(ran[i]) = 2 /\ \E k \in Chunks : arrived[k] = "failed")

\* Every variable has its type, and the list is answered as these two say, whatever
\* fails, dies or arrives out of order.
ListAnswered == TypeOK /\ OneAnswerPerCall /\ RunsTwiceOnlyAfterFailure

\* An explicit call works on its own VFS or none.  Another one works on the caller's
\* selection, unless something else was persisted, or selected by the list, meanwhile:
\* no selection of an earlier call in the same worker leaks into it
\* (config.py:44-62, api.py:267-273).
WorksWhereItShould ==
    \A i \in DOMAIN calls : \A n \in DOMAIN ran[i] :
        IF calls[i].vfs = None THEN ran[i][n] \in {home} \cup since
                               ELSE ran[i][n] \in {calls[i].vfs, None}

\* map returns unless a worker was killed with a chunk in its hands: a call that fails,
\* and a pool that fails in any other way, do not halt the controller (api.py:257-265).
ChunkLost == \E k \in taken : arrived[k] = "waiting" /\ \A w \in Workers : hands[w].chunk # k
Returns == (phase = "pool" \/ phase = "here") ~> (phase = "done" \/ ChunkLost)
=============================================================================
