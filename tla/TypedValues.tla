---------------------------- MODULE TypedValues ----------------------------
(***************************************************************************)
(* The node tree a typed value is stored as (typed_values.py): _encode_node   *)
(* and _decode_node, with the limits both count against.                      *)
(*                                                                         *)
(* A value is [t, x, v]: its type, its content when it is a scalar, and its     *)
(* items in iteration order; a dict's items are "pair"s of key and value.       *)
(* Sets and dicts iterate in an order that means nothing.  A node is the same,  *)
(* with its items in the order of their canonical bytes.                       *)
(***************************************************************************)
EXTENDS Naturals, Sequences, SequencesExt, TLC

CONSTANTS MaxDepth, MaxNodes        \* MAX_DEPTH, MAX_NODES

Scalars    == {"none", "int", "str"}
Ordered_   == {"list", "tuple", "complex", "pair"}
Unordered  == {"set", "frozenset", "dict"}
Code == [none |-> 1, int |-> 2, str |-> 3, list |-> 4, tuple |-> 5, complex |-> 6,
         pair |-> 7, set |-> 8, frozenset |-> 9, dict |-> 10]

RefusedValue == [t |-> "refused", x |-> 0, v |-> <<>>]

\* The canonical JSON of a node, as numbers.
RECURSIVE Bytes(_)
Bytes(node) == <<Code[node.t], node.x>> \o FlattenSeq([i \in DOMAIN node.v |-> Bytes(node.v[i])])
                  \o <<0>>

Before(m, n) ==
    LET k == Bytes(m)  l == Bytes(n)
    IN \E i \in 1..Len(l) : /\ i > Len(k) \/ k[i] < l[i]
                            /\ \A j \in 1..(i - 1) : j <= Len(k) /\ k[j] = l[j]

\* A pair is no node of its own: it adds neither depth nor count.
Counts(value) == IF value.t = "pair" THEN 0 ELSE 1

RECURSIVE Nodes(_)
Nodes(value) ==
    Counts(value) + FoldLeft(LAMBDA sum, item : sum + Nodes(item), 0, value.v)

RECURSIVE Deepest(_, _)
Deepest(value, depth) ==
    LET below == depth + Counts(value)
    IN FoldLeft(LAMBDA most, item : LET n == Deepest(item, below) IN IF n > most THEN n ELSE most,
                depth, value.v)

WithinLimits(value) == Deepest(value, 0) <= MaxDepth /\ Nodes(value) <= MaxNodes

\* Faulty variant: the items of sets and dicts are stored as they come.
AsIterated(value, items) == items
\* Dict entries by key, set items by themselves.
InOrder(value, items) ==
    IF value.t \notin Unordered THEN items
    ELSE SortSeq(items, LAMBDA m, n : IF value.t = "dict" THEN Before(m.v[1], n.v[1])
                                      ELSE Before(m, n))

RECURSIVE EncodedNode(_)
EncodedNode(value) ==
    [value EXCEPT !.v = InOrder(value, [i \in DOMAIN value.v |-> EncodedNode(value.v[i])])]

EncodeNode(value) == IF WithinLimits(value) THEN EncodedNode(value) ELSE RefusedValue

\* Keys that are equal when decoded are refused.
RECURSIVE KeysDiffer(_)
KeysDiffer(node) ==
    /\ node.t = "dict" =>
          \A i, j \in DOMAIN node.v : node.v[i].v[1] = node.v[j].v[1] => i = j
    /\ \A i \in DOMAIN node.v : KeysDiffer(node.v[i])

\* Faulty variant: reading allows one level less than writing.
WithinLess(node) == Deepest(node, 0) < MaxDepth /\ Nodes(node) <= MaxNodes
\* The limits are checked again when a node is read.
Readable(node) == WithinLimits(node)
DecodeNode(node) == IF Readable(node) /\ KeysDiffer(node) THEN node ELSE RefusedValue

\* Equal values: the order of sets and dicts does not count.
RECURSIVE Same(_, _)
Same(v, w) ==
    /\ v.t = w.t /\ v.x = w.x /\ Len(v.v) = Len(w.v)
    /\ IF v.t \in Unordered
       THEN \A i \in DOMAIN v.v : \E j \in DOMAIN w.v : Same(v.v[i], w.v[j])
       ELSE \A i \in DOMAIN v.v : Same(v.v[i], w.v[i])

\* The same value, iterated the other way round.
RECURSIVE Turned(_)
Turned(value) ==
    LET items == [i \in DOMAIN value.v |-> Turned(value.v[i])]
    IN [value EXCEPT !.v = IF value.t \in Unordered THEN Reverse(items) ELSE items]

-----------------------------------------------------------------------------
(***************************************************************************)
(* Properties, of every input.                                             *)
(***************************************************************************)
\* What can be written can be read, and is the same value: the limits of the two
\* sides agree, and no dict that was written is taken for one with a key twice
\* (typed_values.py:32-70, 93-133).
TypedRoundTrip(value) ==
    EncodeNode(value) # RefusedValue => Same(DecodeNode(EncodeNode(value)), value)

\* Equal values have equal bytes, in whatever order their sets and dicts iterate, so
\* that stalkvar and changevar see whether a value differs (typed_values.py:55-67).
TypedCanonical(value) == EncodeNode(Turned(value)) = EncodeNode(value)
=============================================================================
