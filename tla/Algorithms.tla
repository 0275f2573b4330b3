----------------------------- MODULE Algorithms -----------------------------
(***************************************************************************)
(* The pure algorithms of the Python packages against reference            *)
(* definitions.  `case` is one input of one algorithm, or none; no step    *)
(* changes it, so a run is an exhaustive test over the inputs in Cases.    *)
(***************************************************************************)
EXTENDS Mapping

CONSTANT Cases           \* records with a field `kind`
VARIABLE case

NoCase == [kind |-> "none"]

Is(kind) == case.kind = kind

\* Constant operands of an operator.
Vector(v) == [op |-> "Const", shape |-> <<Len(v)>>, dtype |-> "i64", value |-> v]
Scalar(v) == [op |-> "Const", shape |-> <<>>, dtype |-> "i64", value |-> v]

Tuples(S, lengths) == UNION {[1..n -> S] : n \in lengths}

\* Operators that only move elements around lose none, and their inverses
\* give the data back: Concat undoes Split and VariadicSplit, Squeeze undoes
\* Unsqueeze, Slice undoes Pad, and Transpose and Reshape undo themselves
\* (graph.py:154).
InverseOperations ==
  Is("shape") =>
    LET data == case.data
        rank == Len(data.shape)
        Back(parts, axis) == Concat(parts, axis) = {<<data>>}
    IN /\ \A a \in -rank..(rank - 1) :
            /\ \A n \in 1..3 : \A parts \in Split(data, Scalar(a), n) : Back(parts, a)
            /\ \A v \in Tuples({-1, 1, 2}, 1..3) : \A parts \in VariadicSplit(data, Scalar(a), Vector(v)) :
                 Back(parts, a)
       /\ \A v \in Tuples(-(rank + 2)..(rank + 1), 1..2) : \A out \in Unsqueeze(data, Vector(v)) :
            Squeeze(out[1], Vector(v)) = Require(rank > 0, <<data>>)
       /\ \A v \in Tuples(0..(rank - 1), {rank}) : \A out \in Transpose(data, Vector(v)) :
            LET inverse == [i \in 1..rank |-> (CHOOSE k \in 1..rank : v[k] = i - 1) - 1]
            IN Transpose(out[1], Vector(inverse)) = {<<data>>}
       /\ \A v \in Tuples(-1..3, 0..3) : \A out \in Reshape(data, Vector(v), TRUE) :
            Elements(out[1].shape) = Elements(data.shape)
            /\ Reshape(out[1], Vector(data.shape), FALSE) = {<<data>>}
       /\ \A b, e \in Tuples(0..1, {rank}) : rank > 0 =>
            \A out \in Pad(data, Vector(b), Vector(e), [op |-> "Const", shape |-> <<>>, dtype |-> data.dtype],
                           "constant") :
              Slice(out[1], Vector(b), Vector([i \in 1..rank |-> b[i] + data.shape[i]]),
                    Vector([i \in 1..rank |-> 1]), Vector([i \in 1..rank |-> i - 1])) = {<<data>>}

\* A dimension that Slice infers is the number of elements that Python's
\* slicing selects, an empty selection is refused, Broadcast follows the
\* alignment of trailing dimensions, and a transposed product is the product
\* of the transposed operands in the other order (graph.py:312).
SelectionsExact ==
  /\ Is("slice") =>
       LET From(i) == IF i < 0 THEN i + case.size ELSE i
           selected == {i \in 0..(case.size - 1) :
                          /\ From(case.start) <= i /\ i < From(case.stop)
                          /\ (i - Max({From(case.start), 0})) % case.step = 0}
       IN Slice([shape |-> <<case.size>>, dtype |-> "f16"], Vector(<<case.start>>), Vector(<<case.stop>>),
                Vector(<<case.step>>), Vector(<<-1>>))
            = Require(selected # {}, <<[shape |-> <<Cardinality(selected)>>, dtype |-> "f16"]>>)
  /\ Is("pair") =>
       LET l == case.left
           r == case.right
           rank == Max({Len(l), Len(r)})
           Padded(s) == [k \in 1..(rank - Len(s)) |-> 1] \o s
           Product(a, b, ta, tb) == MatMul([shape |-> a, dtype |-> "f16"], [shape |-> b, dtype |-> "f16"], ta, tb)
       IN /\ Broadcast(l, r) =
               {s \in {[k \in 1..rank |-> Max({Padded(l)[k], Padded(r)[k]})]} :
                  \A k \in 1..rank : {Padded(l)[k], Padded(r)[k]} \subseteq {1, s[k]}}
          /\ \A ta, tb \in BOOLEAN :
               {Reverse(p[1].shape) : p \in Product(l, r, ta, tb)} = {p[1].shape : p \in Product(r, l, ~tb, ~ta)}

\* The specs that a graph infers for its operators are those of the tensors
\* that the operators compute.
ShapesExact == InverseOperations /\ SelectionsExact

-----------------------------------------------------------------------------
\* Every way to cut the groups into one block per computational node.
Compositions(nodes, groups) ==
  {cut \in [1..(Len(nodes) + 1) -> 0..Len(groups)] :
     /\ cut[1] = 0 /\ cut[Len(nodes) + 1] = Len(groups)
     /\ \A k \in DOMAIN nodes : cut[k] < cut[k + 1]}

\* prepare() selects groups automatically exactly when one composition of the
\* carrier's groups fits the graph, and then it selects that one
\* (__init__.py:1563).
AutomaticIsTheOnlyFit ==
  Is("automatic") =>
    LET g == case.g
        groups == case.groups
        nodes == Computational(g)
        Fits(cut) == \A k \in DOMAIN nodes : MayTake(g, nodes[k], groups, cut[k], cut[k + 1] - cut[k])
        Block(cut, k) == [i \in 1..(cut[k + 1] - cut[k]) |-> cut[k] + i - 1]
        customs == SelectSeq([k \in DOMAIN nodes |-> k], LAMBDA k : g[nodes[k]].op = "Custom")
        fits == {cut \in Compositions(nodes, groups) : Fits(cut)}
    IN AutomaticGroupIndices(g, groups) =
         Stable({[i \in DOMAIN customs |-> Block(cut, customs[i])] : cut \in fits})

\* The topology proposal lists exactly the injective assignments of viable
\* groups under which a custom node that depends on another gets a group
\* reachable from the other's, up to its limit; it says so when it stops
\* there, and a unique assignment is offered only if no other exists
\* (__init__.py:1767).
TopologyComplete ==
  Is("topology") =>
    LET g == case.g
        customs == SelectSeq(Computational(g), LAMBDA n : g[n].op = "Custom")
        Path(a, b) == \E s \in Tuples(0..(Len(case.groups) - 1), 1..Len(case.groups)) :
                        /\ s[Len(s)] = b
                        /\ <<Act(a), Act(s[1])>> \in case.rel
                        /\ \A i \in 2..Len(s) : <<Act(s[i - 1]), Act(s[i])>> \in case.rel
        all == {a \in [DOMAIN customs -> 0..(Len(case.groups) - 1)] :
                  /\ Distinct(a)
                  /\ \A k \in DOMAIN customs :
                       a[k] \in Viable(g, customs[k], case.groups, case.rel, case.names, case.inputs, case.outputs)
                  /\ \A j, k \in DOMAIN customs : customs[j] \in Ancestors(g, customs[k]) => Path(a[j], a[k])}
        p == Propose(g, case.groups, case.rel, case.names, case.inputs, case.outputs, case.most)
    IN /\ Distinct(p.found) /\ Range(p.found) \subseteq all
       /\ Len(p.found) = Min({Cardinality(all), case.most})
       /\ p.truncated <=> Cardinality(all) > case.most
       /\ UniqueAssignment(p) = Stable(all)

\* Groups are selected without being named exactly when there is one way to
\* select them, by order as well as by topology.
SelectionUnique == AutomaticIsTheOnlyFit /\ TopologyComplete

\* What version 2 records are projected to version 1 describes the same
\* tensors: every property of the group and every comparison with a custom
\* node comes out the same (__init__.py:1858).
ProjectionExact ==
  Is("projection") =>
    \A legacy \in LegacyTargets(case.targets) :
      /\ GroupInputDtypes(legacy) = GroupInputDtypes(case.targets)
      /\ GroupOutputDtype(legacy) = GroupOutputDtype(case.targets)
      /\ GroupScalarInputs(legacy) = GroupScalarInputs(case.targets)
      /\ GroupInputCounts(legacy) = GroupInputCounts(case.targets)
      /\ GroupOutputCount(legacy) = GroupOutputCount(case.targets)
      /\ \A in \in case.inputs, out \in case.outputs, cover \in BOOLEAN :
           TargetsMatch(in, <<out>>, legacy, cover) = TargetsMatch(in, <<out>>, case.targets, cover)

CInit == case \in Cases \cup {NoCase}
=============================================================================
