--------------------------- MODULE MCAlgorithms ----------------------------
(* Small inputs of the algorithms, and of the typed values, for TLC. *)
EXTENDS Algorithms, TypedValues

CONSTANTS a, b, c, d, e

MCHashOf == (a :> 1) @@ (b :> 1) @@ (c :> 2) @@ (d :> 3) @@ (e :> 1)
MCSource == <<"p", "q", "r">>
MCInsertions == {<<>>, <<"s", "t">>}

\* Values of up to three levels.
Leaves == [t : {"int", "str"}, x : {1, 2}, v : {<<>>}]
Of(types, items, n) == [t : types, x : {0}, v : UpTo(items, n)]
Distinct(vs) == {w \in vs : w.t \in Unordered =>
                    \A i, j \in DOMAIN w.v : i # j =>
                        IF w.t = "dict" THEN w.v[i].v[1] # w.v[j].v[1] ELSE w.v[i] # w.v[j]}
Pairs(ks, vs) == [t : {"pair"}, x : {0}, v : {<<k, w>> : k \in ks, w \in vs}]
Flat   == Distinct(Of({"list", "set", "frozenset"}, Leaves, 2)
                   \cup Of({"dict"}, Pairs(Leaves, Leaves), 2))
Nested == Of({"tuple"}, Flat, 1) \cup Distinct(Of({"frozenset"}, {w \in Flat : w.t = "frozenset"}, 2))
          \cup Of({"dict"}, Pairs(Leaves, Flat), 1)
          \cup Of({"list"}, Of({"tuple"}, Flat, 1), 1)

MCInit == RunInit \/ (Idle /\ input \in [kind : {"typed"}, value : Leaves \cup Flat \cup Nested])
MCSpec == MCInit /\ [][RunNext]_<<vars, input>>

\* Every typed value within the limits survives, and has one encoding (see
\* TypedRoundTrip and TypedCanonical).
TypedValuesRoundTrip ==
    input.kind = "typed" => TypedRoundTrip(input.value) /\ TypedCanonical(input.value)
=============================================================================
