----------------------------- MODULE MCPrepared -----------------------------
(***************************************************************************)
(* Instance of Prepared for TLC: a chain of two custom nodes, which the    *)
(* compiler maps in order, with the second node split into two groups, or  *)
(* in the other order; and a graph whose custom nodes carry raw targets.   *)
(* Other behaviours consist of one case of Algorithms, the exhaustive      *)
(* tests of the operators that preparation is built from.                  *)
(***************************************************************************)
EXTENDS Prepared, Algorithms

F(dtype, shape) == [shape |-> shape, dtype |-> dtype]
V1(i, n) == [v |-> 1, inv |-> i, rng |-> i, inputs |-> 1, count |-> n, span |-> 2 * n, flags |-> {"fp16"}]
T(role, k, d, n, seen) ==
  [role |-> role, index |-> k, dtype |-> d, count |-> n, span |-> n * (IF d = "f16" THEN 2 ELSE 4), seen |-> seen]
V2(i, flags, tensors) == [v |-> 2, inv |-> i, rng |-> i, flags |-> flags, tensors |-> tensors]

Chain(id, dtype, embedded) ==
  [id |-> id, embedded |-> embedded, inputs |-> [x |-> 1], outputs |-> [y |-> 3],
   g |-> << [op |-> "Parameter", in |-> <<>>, specs |-> <<F(dtype, <<2>>)>>],
            [op |-> "Custom", in |-> <<<<1, 0>>>>, specs |-> <<F(dtype, <<2>>)>>],
            [op |-> "Custom", in |-> <<<<2, 0>>>>, specs |-> <<F(dtype, <<2>>)>>] >>]

\* The exact relations run from the input through the groups of the first
\* node and those of the second to the output.
Layout(groups, mixed, truth) ==
  [groups |-> groups, mixed |-> mixed, truth |-> truth, complete |-> [i \in 0..2 |-> {"direct_output"}],
   names |-> (<<"graph_input", 0>> :> "x") @@ (<<"graph_output", 0>> :> "y"),
   rel |-> {<<<<"graph_input", 0>>, Act(i)>> : i \in truth[1]}
           \cup {<<Act(i), Act(j)>> : i \in truth[1], j \in truth[2]}
           \cup {<<Act(j), <<"graph_output", 0>>>> : j \in truth[2]}]

InOrder == Layout(<<<<V1(0, 2)>>, <<V1(1, 2)>>>>, FALSE, <<{0}, {1}>>)
SplitNode == Layout(<<<<V1(0, 2)>>, <<V1(1, 1)>>, <<V1(2, 1)>>>>, FALSE, <<{0}, {1, 2}>>)
InOut == <<T("input", 0, "f16", 2, 7), T("output", 0, "f16", 2, 15)>>
Reversed == Layout(<<<<V2(0, 0, InOut)>>, <<V2(1, 1, InOut)>>>>, TRUE, <<{1}, {0}>>)

MCGraphs == {Chain("a", "f16", {}), Chain("b", "f32", {<<<<V1(0, 2)>>, <<V1(1, 2)>>>>})}
MCLayouts(gr) == IF gr.embedded = {} THEN {InOrder, SplitNode, Reversed} ELSE {InOrder}
MCFlags(gr) == IF gr.embedded = {} THEN {{}} ELSE {{}, {"fast"}}
MCOffers == {<<0>>, <<1>>, <<1, 2>>}
MCDefinitions == <<"scale", "shift">>

-----------------------------------------------------------------------------
Shapes123 == UNION {[1..n -> 1..3] : n \in 0..3}
ShapeCases == {[kind |-> "shape", data |-> F("f16", s)] : s \in {s \in Shapes123 : Len(s) < 3 \/ Elements(s) <= 6}}
SliceCases == [kind : {"slice"}, size : 1..4, start : -5..5, stop : -5..5, step : 1..3]
PairCases == {[kind |-> "pair", left |-> l, right |-> r] : l, r \in {s \in Shapes123 : Len(s) = 2 \/ Elements(s) <= 4}}

\* A chain of up to three nodes, custom or native, and up to four groups.
Node(op, in, n) == [op |-> op, in |-> in, specs |-> <<F("f16", <<n>>)>>]
ChainOf(ops, n) == <<Node("Parameter", <<>>, n)>> \o [k \in DOMAIN ops |-> Node(ops[k], <<<<k, 0>>>>, n)]
GroupsOf(counts) == [i \in DOMAIN counts |-> <<V1(i, counts[i])>>]
AutomaticCases ==
  {[kind |-> "automatic", g |-> ChainOf(ops, 2), groups |-> GroupsOf(counts)] :
     ops \in Tuples({"Custom", "Relu"}, 1..3), counts \in Tuples({1, 2}, 1..4)}

\* Two or three custom nodes, chained or side by side, and three groups.
Side == <<Node("Parameter", <<>>, 2), Node("Custom", <<<<1, 0>>>>, 2), Node("Custom", <<<<1, 0>>>>, 2)>>
Ends == {<<"graph_input", 0>>, <<"graph_output", 0>>, <<"graph_output", 1>>}
Relations ==
  LET acts == {<<Act(i), Act(j)>> : i, j \in 0..2}
  IN {r \cup {<<<<"graph_input", 0>>, Act(0)>>} \cup o :
        r \in {r \in SUBSET acts : \A p \in r : p[1][2] < p[2][2]},
        o \in {{<<Act(k), <<"graph_output", IF k = 2 THEN 0 ELSE 1>>>> : k \in ks} : ks \in SUBSET (0..2)}}
TopologyCases ==
  {[kind |-> "topology", g |-> g, groups |-> GroupsOf(<<2, 2, 2>>), rel |-> rel, most |-> most,
    names |-> [e \in Ends |-> IF e[1] = "graph_input" THEN "x" ELSE IF e[2] = 0 THEN "y" ELSE second],
    inputs |-> [n \in {"x"} |-> 1], outputs |-> [n \in {"y", "z"} |-> IF n = "y" THEN Len(g) ELSE 2]] :
     g \in {ChainOf(<<"Custom", "Custom">>, 2), Side, ChainOf(<<"Custom", "Custom", "Custom">>, 2)},
     rel \in Relations, most \in 1..2, second \in {"y", "z"}}

ProjectionCases ==
  {[kind |-> "projection",
    targets |-> [i \in DOMAIN outs |-> V2(i, f, ins \o <<T("output", 0, d, outs[i], 15)>>)],
    inputs |-> Tuples({F(e, <<n>>) : e \in {"f16", "f32"}, n \in 1..2}, 1..2),
    outputs |-> {F(e, <<n>>) : e \in {"f16", "f32"}, n \in 1..2}] :
     outs \in Tuples(1..2, 1..2), d \in {"f16", "f32", "i32"}, f \in 0..1,
     ins \in {<<T("input", 0, e, n, 7)>> : e \in {"f16", "f32"}, n \in 1..2}
             \cup {<<T("input", 0, e, n, 7), T("input", 1, x, m, 7)>> :
                     e, x \in {"f16", "f32"}, n, m \in 1..2}}

\* Groups are selected without being named exactly when there is one way to
\* select them, and the reviewed ones implement their nodes
\* (_automatic_group_indices, review_native_topology_mapping).
SelectionSound == SelectionUnique /\ TopologyTrue

MCCases == ShapeCases \cup SliceCases \cup PairCases \cup AutomaticCases \cup TopologyCases \cup ProjectionCases

Init == PInit /\ CInit
Next == PNext /\ Is("none") /\ UNCHANGED case
Spec == Init /\ [][Next]_<<pvars, case>>
=============================================================================
