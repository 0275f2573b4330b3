----------------------------- MODULE GraphBuild -----------------------------
(***************************************************************************)
(* Building a symbolic graph (graph.py, tensor.py, kernel.py) and          *)
(* serialising it to IR (ir.py).  Nodes are numbered in the order of their *)
(* creation; a tensor is a pair <<node, output index>>.  A call that       *)
(* raises changes nothing, so the conditions of the code are guards.       *)
(***************************************************************************)
EXTENDS Shapes

CONSTANTS MaxNodes,     \* bound on the nodes of a graph
          MaxOutputs,   \* bound on the outputs of a graph
          InputSpecs,   \* specs given to input() and constant()
          Carriers      \* operator names given to custom() as carrier

ASSUME BuildAssumption ==
  /\ MaxNodes \in Nat \ {0} /\ MaxOutputs \in Nat \ {0}
  /\ None \notin Carriers
  /\ \A spec \in InputSpecs : spec.shape \in Seq(Nat)

VARIABLES nodes,        \* every Node made so far
          graph,        \* the Graph, or None
          ir,           \* the SerializedIR of the graph, or None
          probe         \* a second one, with carrier overrides, or None

bvars == <<nodes, graph, ir, probe>>

NoMeta == [outputs |-> {}, shape |-> {}, dtype |-> {}]

BInit == nodes = <<>> /\ graph = None /\ ir = None /\ probe = None

Tensors == {t \in (DOMAIN nodes) \X (0..1) : t[2] < Len(nodes[t[1]].specs)}

SpecOf(t) == nodes[t[1]].specs[t[2] + 1]
Symbolic(t) == [op |-> nodes[t[1]].op, value |-> <<>>] @@ SpecOf(t)

\* Node.__post_init__ makes the output tensors: their number is Len(specs).
AddNode(op, in, specs, carrier) ==
  /\ Len(nodes) < MaxNodes /\ graph = None
  /\ nodes' = Append(nodes, [op |-> op, in |-> in, specs |-> specs, carrier |-> carrier])
  /\ UNCHANGED <<graph, ir, probe>>

Input(spec) == AddNode("Parameter", <<>>, <<spec>>, None)

Constant(spec) == AddNode("Const", <<>>, <<spec>>, None)

Op(op, in, meta, attrs) ==
  \E specs \in OutputSpecs(op, [i \in DOMAIN in |-> Symbolic(in[i])], meta, attrs) :
    AddNode(op, in, specs, None)

\* t + u, t * u: the sugar asks for equal specs before it calls op().
Binary(op, t, u) ==
  /\ SpecOf(t) = SpecOf(u)
  /\ Op(op, <<t, u>>, [NoMeta EXCEPT !.shape = {SpecOf(t).shape}, !.dtype = {SpecOf(t).dtype}], <<>>)

\* custom(): the output spec is taken from the carrier when it is omitted.
CustomMeta(in, carrier) ==
  LET shapes == IF carrier \in SameSpecBinary /\ Len(in) = 2
                THEN Broadcast(SpecOf(in[1]).shape, SpecOf(in[2]).shape)
                ELSE {SpecOf(in[1]).shape}
  IN [NoMeta EXCEPT !.shape = shapes, !.dtype = {SpecOf(in[1]).dtype}]

Custom(in, carrier, source, kernel) ==
  /\ ~(source /\ kernel)                     \* source or kernel, not both
  /\ in # <<>>
  /\ \E specs \in OutputSpecs("Custom", [i \in DOMAIN in |-> Symbolic(in[i])],
                              CustomMeta(in, carrier), <<>>) :
       AddNode("Custom", in, specs, carrier)

\* _topological_nodes: depth first, inputs in order, a node after its inputs.
\* Nodes are made after their inputs, so the walk meets no active node again.
\* Visits(ns)[n][ordered] is what visit() of node n makes of the list.
VisitEach(visit, ordered, ts) == FoldLeft(LAMBDA o, t : visit[t[1]][o], ordered, ts)

Visits(ns) ==
  LET visit[n \in DOMAIN ns] ==
        [ordered \in Seq(DOMAIN ns) |->
           IF n \in Range(ordered) THEN ordered ELSE Append(VisitEach(visit, ordered, ns[n].in), n)]
  IN visit

TopologicalNodes(ns, outputs) == VisitEach(Visits(ns), <<>>, outputs)

\* Graph.__init__.
MakeGraph(inputs, outputs) ==
  LET order == TopologicalNodes(nodes, outputs)
      reached == Range(outputs) \cup UNION {Range(nodes[n].in) : n \in Range(order)}
  IN /\ graph = None
     /\ inputs # <<>> /\ outputs # <<>>
     /\ \A i \in DOMAIN inputs : nodes[inputs[i][1]].op = "Parameter"
     /\ Distinct(inputs)
     /\ Range(inputs) \subseteq reached                     \* all connected
     /\ \A n \in Range(order) : nodes[n].op = "Parameter" => <<n, 0>> \in Range(inputs)
     /\ graph' = [inputs |-> inputs, outputs |-> outputs]
     /\ UNCHANGED <<nodes, ir, probe>>

\* The bytes of a constant, in units of two bytes.
Bytes(spec) == Elements(spec.shape) * (IF spec.dtype = "f32" THEN 2 ELSE 1)

LayerType(node, override) == IF node.op = "Custom" THEN override ELSE node.op

Offset_start(order, k) == FoldLeft(LAMBDA sum, n : 0, 0, SubSeq(order, 1, k - 1))

\* Weights are appended to one buffer, in the order of the layers.
Weight(n) == IF nodes[n].op = "Const" THEN Bytes(nodes[n].specs[1]) ELSE 0

Offset(order, k) == FoldLeft(LAMBDA sum, n : sum + Weight(n), 0, SubSeq(order, 1, k - 1))

Layer(order, k, carriers) ==
  LET node == nodes[order[k]]
  IN [type |-> LayerType(node, carriers[order[k]]),
      data |-> IF node.op = "Const" THEN <<Offset(order, k), Bytes(node.specs[1])>> ELSE <<>>,
      \* DisablePrecisionConversion, for custom nodes with an f32 output
      exact |-> node.op = "Custom" /\ \E s \in Range(node.specs) : s.dtype = "f32",
      in |-> [i \in DOMAIN node.in |-> SpecOf(node.in[i])],
      out |-> [p \in Len(node.in)..(Len(node.in) + Len(node.specs) - 1) |->
                 node.specs[p - Len(node.in) + 1]]]

FromPort(t) == Len(nodes[t[1]].in) + t[2]

\* An edge is <<from layer, from port, to layer, to port>>; ids count from 0.
IdOf(order, n) == CHOOSE k \in DOMAIN order : order[k] = n
EdgeOf(order, t, to, port) == <<IdOf(order, t[1]) - 1, FromPort(t), to, port>>

Edges(order) ==
  {EdgeOf(order, graph.outputs[o], Len(order) + o - 1, 0) : o \in DOMAIN graph.outputs}
  \cup UNION {{EdgeOf(order, nodes[order[k]].in[i], k - 1, i - 1) : i \in DOMAIN nodes[order[k]].in} :
              k \in DOMAIN order}

\* serialize_ir: layers in topological order, then one Result per output.
Serialized(carriers) ==
  LET order == TopologicalNodes(nodes, graph.outputs)
  IN [layers |-> [k \in DOMAIN order |-> Layer(order, k, carriers)],
      results |-> [o \in DOMAIN graph.outputs |-> SpecOf(graph.outputs[o])],
      edges |-> Edges(order),
      weights |-> Offset(order, Len(order) + 1),
      customs |-> SelectSeq(order, LAMBDA n : nodes[n].op = "Custom")]

OwnCarriers == [n \in DOMAIN nodes |-> nodes[n].carrier]

SerializeIr ==
  /\ graph # None /\ ir = None
  /\ ir' = Serialized(OwnCarriers)
  /\ UNCHANGED <<nodes, graph, probe>>

\* _carrier_overrides: keys must be custom nodes of the graph.
SerializeProbe(node, carrier) ==
  /\ ir # None /\ probe = None
  /\ node \in Range(ir.customs)
  /\ probe' = Serialized([OwnCarriers EXCEPT ![node] = carrier])
  /\ UNCHANGED <<nodes, graph, ir>>

TensorSeqs(n) == UNION {[1..k -> Tensors] : k \in 1..n}

BNext ==
  \/ \E spec \in InputSpecs : Input(spec) \/ Constant(spec)
  \/ \E t \in Tensors : \/ Op("Relu", <<t>>, NoMeta, <<>>)
                        \/ Op("TopK", <<t>>, [NoMeta EXCEPT !.outputs = {<<SpecOf(t), SpecOf(t)>>}], <<>>)
  \/ \E t, u \in Tensors : Binary("Add", t, u)
  \/ \E in \in TensorSeqs(2), carrier \in Carriers : Custom(in, carrier, TRUE, FALSE)
  \/ \E inputs \in TensorSeqs(2), outputs \in TensorSeqs(MaxOutputs) : MakeGraph(inputs, outputs)
  \/ SerializeIr
  \/ \E n \in DOMAIN nodes, carrier \in Carriers : SerializeProbe(n, carrier)

BSpec == BInit /\ [][BNext]_bvars

-----------------------------------------------------------------------------
\* The nodes that some nodes are computed from, and these nodes themselves.
Closed(ns) == \A n \in ns : {t[1] : t \in Range(nodes[n].in)} \subseteq ns
Above(ns) == {n \in DOMAIN nodes : \A more \in SUBSET DOMAIN nodes : ns \subseteq more /\ Closed(more) => n \in more}

\* Graph.nodes lists every node that an output depends on, exactly once, and
\* each after the nodes that it reads (graph.py:539).
TopologicalOnce ==
  graph # None =>
    LET order == TopologicalNodes(nodes, graph.outputs)
    IN /\ Distinct(order)
       /\ Range(order) = Above({t[1] : t \in Range(graph.outputs)})
       /\ \A i, j \in DOMAIN order : order[j] \in {t[1] : t \in Range(nodes[order[i]].in)} => j < i

\* An IR is a graph: every input port of a layer or result is fed by exactly
\* one edge, that edge comes from an output port of an earlier layer and
\* carries the spec that the port declares; the constants tile the weights.
IsIr(x) ==
  LET count == Len(x.layers)
      Ports == {<<count + o - 1, 0>> : o \in DOMAIN x.results}
               \cup UNION {{<<l - 1, p - 1>> : p \in DOMAIN x.layers[l].in} : l \in DOMAIN x.layers}
      Declared(port) == IF port[1] < count THEN x.layers[port[1] + 1].in[port[2] + 1]
                        ELSE x.results[port[1] - count + 1]
      Regions == {x.layers[l].data : l \in DOMAIN x.layers} \ {<<>>}
  IN /\ \A port \in Ports : Quantify(x.edges, LAMBDA e : <<e[3], e[4]>> = port) = 1
     /\ \A e \in x.edges :
          /\ <<e[3], e[4]>> \in Ports
          /\ e[1] < count /\ e[1] < e[3]
          /\ e[2] \in DOMAIN x.layers[e[1] + 1].out
          /\ x.layers[e[1] + 1].out[e[2]] = Declared(<<e[3], e[4]>>)
     /\ \A b \in 0..(x.weights - 1) : Quantify(Regions, LAMBDA r : b \in r[1]..(r[1] + r[2] - 1)) = 1
     /\ \A r \in Regions : r[1] + r[2] <= x.weights

\* What serialize_ir writes of a graph is an IR, and its layers are Graph.nodes
\* (ir.py:84).
IrWellFormed == TopologicalOnce /\ (ir # None => IsIr(ir))
=============================================================================
