------------------------------ MODULE SpanPlan ------------------------------
(***************************************************************************)
(* How a new file is put together from the old one: plan_from_replacements    *)
(* and MutationPlan (transaction.py), and the assembly of serialize_vfs         *)
(* (parser.py), which decides whether an optimization has anything to do.      *)
(*                                                                         *)
(* A file is a sequence of bytes, any values.  A replacement puts data where    *)
(* the bytes start..end-1 were; offsets count from 0.                          *)
(***************************************************************************)
EXTENDS Integers, Sequences, SequencesExt

\* sorted(replacements, key=start): stable, as Python's sort is.
Ordered(replacements) ==
    LET order == CHOOSE p \in [DOMAIN replacements -> DOMAIN replacements] :
            \A i, j \in DOMAIN p : i < j =>
               \/ replacements[p[i]].start < replacements[p[j]].start
               \/ replacements[p[i]].start = replacements[p[j]].start /\ p[i] < p[j]
    IN [i \in DOMAIN replacements |-> replacements[order[i]]]

\* Where the bytes resume behind the first i replacements.
Cursor(ordered, i) == IF i = 0 THEN 0 ELSE ordered[i].end

\* Faulty variant: overlaps are not looked for.
ValidAnyOverlap(size, ordered) ==
    \A i \in DOMAIN ordered : ordered[i].end <= size /\ ordered[i].start <= ordered[i].end
Valid(size, ordered) ==
    \A i \in DOMAIN ordered :
        /\ Cursor(ordered, i - 1) <= ordered[i].start
        /\ ordered[i].start <= ordered[i].end /\ ordered[i].end <= size

\* A span of the source, or data; neither is kept when it is empty.
Span(from, to) == IF from < to THEN <<[from |-> from, to |-> to, data |-> <<>>]>> ELSE <<>>
Data(d)        == IF d # <<>> THEN <<[from |-> 0, to |-> 0, data |-> d]>> ELSE <<>>

TailSpan(size, ordered) == Span(Cursor(ordered, Len(ordered)), size)

\* plan_from_replacements of replacements that are accepted.
Plan(size, replacements) ==
    LET ordered == Ordered(replacements)
        step(i) == Span(Cursor(ordered, i - 1), ordered[i].start) \o Data(ordered[i].data)
    IN FlattenSeq([i \in DOMAIN ordered |-> step(i)]) \o TailSpan(size, ordered)

Refused(size, replacements) == ~Valid(size, Ordered(replacements))

\* MutationPlan.__post_init__: the spans are inside the source, in order.
WellFormed(size, plan) ==
    LET spans == {i \in DOMAIN plan : plan[i].from < plan[i].to}
    IN \A i \in spans : /\ plan[i].to <= size
                        /\ \A j \in spans : j < i => plan[j].to <= plan[i].from

\* What atomic_replace_plan writes, and destination_size says it will.
Written(source, plan) ==
    FlattenSeq([k \in DOMAIN plan |->
        SubSeq(source, plan[k].from + 1, plan[k].to) \o plan[k].data])
DestinationSize(plan) ==
    LET size[k \in 0..Len(plan)] ==
          IF k = 0 THEN 0
          ELSE size[k - 1] + (plan[k].to - plan[k].from) + Len(plan[k].data)
    IN size[Len(plan)]

\* serialize_vfs: one buffer, filled in physical order.
Assembled(source, replacements) ==
    LET ordered == Ordered(replacements)
        step(i) == SubSeq(source, Cursor(ordered, i - 1) + 1, ordered[i].start)
                      \o ordered[i].data
    IN FlattenSeq([i \in DOMAIN ordered |-> step(i)])
          \o SubSeq(source, Cursor(ordered, Len(ordered)) + 1, Len(source))

-----------------------------------------------------------------------------
(***************************************************************************)
(* Properties, of every input.                                             *)
(***************************************************************************)
\* Byte by byte: in front of byte i what is put there, and byte i unless a
\* replacement covers it.
Edited(source, replacements) ==
    LET data(i) == FlattenSeq([k \in DOMAIN replacements |->
                       IF replacements[k].start = i THEN replacements[k].data ELSE <<>>])
        kept(i) == i < Len(source) /\ \A k \in DOMAIN replacements :
                      ~(replacements[k].start <= i /\ i < replacements[k].end)
    IN FlattenSeq([i \in 1..(Len(source) + 1) |->
          data(i - 1) \o (IF kept(i - 1) THEN <<source[i]>> ELSE <<>>)])

\* Replacements whose bytes are apart are accepted; a plan writes the edited file, of
\* the size announced, in one pass over the source; the assembly in memory gives the
\* same bytes, so that an optimization rewrites a file exactly when that changes it
\* (transaction.py:51-104, parser.py:216-234, maintenance.py:50-56).
Apart(r, s) == r.end <= s.start \/ s.end <= r.start
Separate(size, replacements) ==
    /\ \A i \in DOMAIN replacements : replacements[i].start < replacements[i].end
                                      /\ replacements[i].end <= size
    /\ \A i, j \in DOMAIN replacements : i # j => Apart(replacements[i], replacements[j])

PlanEdits(source, replacements) ==
    /\ Separate(Len(source), replacements) => ~Refused(Len(source), replacements)
    /\ ~Refused(Len(source), replacements) =>
        LET plan == Plan(Len(source), replacements) IN
        /\ Written(source, plan) = Edited(source, replacements)
        /\ DestinationSize(plan) = Len(Edited(source, replacements))
        /\ WellFormed(Len(source), plan)
        /\ Assembled(source, replacements) = Written(source, plan)
=============================================================================
