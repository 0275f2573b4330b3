------------------------------- MODULE Forest -------------------------------
(***************************************************************************)
(* The XGBoost application (contrib/xgboost/xgboost_npu): the packed form  *)
(* of a forest and of a batch of samples, the three ACT kernels that walk  *)
(* it, and the runtime objects that load models and run batches.           *)
(*                                                                         *)
(* Words are natural numbers, except that a feature may be NaN and that    *)
(* a margin is the sequence of the numbers added up in it: addition of     *)
(* floats is not associative, so equal sequences are what makes two        *)
(* results equal to the bit.  Leaves with the value Huge overflow when two *)
(* of them are added.                                                      *)
(***************************************************************************)
EXTENDS Maybe, Integers, Sequences, FiniteSets, SequencesExt, FiniteSetsExt

CONSTANTS Chunk,         \* RUNTIME_CHUNK_ELEMENTS
          Replicas,      \* RUNTIME_REPLICAS
          FeatureBits,   \* _FEATURE_BITS
          ChildBits,     \* _CHILD_BITS
          MaxTrees,      \* 64 in the code
          NaN,
          Huge,          \* a leaf value that overflows when added twice
          Models,        \* ensembles that the client loads
          Batches        \* batches that the client runs

HeaderWords == 4
OutputWords == 3
ModelHeader == 5
Magic == 7
MaxTotalNodes == (Chunk - ModelHeader) \div 2
LeafFeature == 2^FeatureBits - 1
MaxFeatures == LeafFeature
MaxTreeNodes == 2^ChildBits

ASSUME ForestAssumption ==
  /\ Chunk \in Nat /\ Replicas \in Nat \ {0} /\ FeatureBits \in Nat /\ ChildBits \in Nat
  /\ MaxTotalNodes > 0 /\ Huge \in Nat \ {0}

VARIABLES object,        \* the runtime object: [class, kind, open, stages, output], or None
          ensemble,      \* its attribute `ensemble`
          loaded,        \* the model whose loading completed last
          prediction     \* what the last run() did: None, "raised", or a record

fvars == <<object, ensemble, loaded, prediction>>

-----------------------------------------------------------------------------
(* The model: a tree is a sequence of nodes [left, right, feature, value,  *)
(* default], numbered from 0, where left = -1 marks a leaf.                *)

NodeCount(e) == FoldSeq(LAMBDA t, n : Len(t) + n, 0, e.trees)
Leaf(t, n) == t[n + 1].left = -1

\* Tree.validate: every node but the root has one parent, and a walk from
\* the root sees every node once.
Parents(t, n) == {<<p, side>> \in (0..(Len(t) - 1)) \X {"left", "right"} :
                    ~Leaf(t, p) /\ n = (IF side = "left" THEN t[p + 1].left ELSE t[p + 1].right)}
RECURSIVE Walk(_, _, _)
Walk(t, seen, steps) ==
  IF steps = 0 THEN seen
  ELSE Walk(t, seen \cup UNION {{t[n + 1].left, t[n + 1].right} : n \in {n \in seen : ~Leaf(t, n)}}, steps - 1)
ValidTree(t, featureCount) ==
  LET nodes == 0..(Len(t) - 1)
  IN /\ \A n \in nodes :
          /\ Leaf(t, n) <=> t[n + 1].right = -1
          /\ ~Leaf(t, n) => /\ t[n + 1].feature \in 0..(featureCount - 1)
                            /\ {t[n + 1].left, t[n + 1].right} \subseteq nodes
                            /\ t[n + 1].left # t[n + 1].right
     /\ Parents(t, 0) = {} /\ \A n \in nodes \ {0} : Cardinality(Parents(t, n)) = 1
     /\ Walk(t, {0}, Len(t)) = nodes

\* load_ensemble
ValidEnsemble(e) == e.trees # <<>> /\ e.features > 0 /\ \A t \in Range(e.trees) : ValidTree(t, e.features)

\* Which child a value selects; the test is false for a NaN.
Child(value, threshold, left, right, default) ==
  IF value = NaN THEN IF default THEN left ELSE right
  ELSE IF value < threshold THEN left ELSE right

\* Tree.predict_one
RECURSIVE PredictOne(_, _, _)
PredictOne(t, row, n) ==
  LET node == t[n + 1]
  IN IF Leaf(t, n) THEN node.value
     ELSE PredictOne(t, row, Child(row[node.feature + 1], node.value, node.left, node.right, node.default))

\* Ensemble.predict_margin, one row
PredictMargin(e, row) == <<e.base>> \o [k \in DOMAIN e.trees |-> PredictOne(e.trees[k], row, 0)]

Finite(margin) == Cardinality({k \in DOMAIN margin : margin[k] = Huge}) < 2

-----------------------------------------------------------------------------
(* Packing *)

\* A word of metadata; the upper bits are those of a normal float.
LeftShift == 2^FeatureBits
RightShift == LeftShift * 2^ChildBits
DefaultShift == RightShift * 2^ChildBits
SizeShift == DefaultShift * 2
BaseBits == SizeShift * 2^ChildBits

Metadata(t, n) ==
  LET node == t[n + 1]
  IN BaseBits + (IF n = 0 THEN (Len(t) - 1) * SizeShift ELSE 0)
       + (IF Leaf(t, n) THEN LeafFeature
          ELSE node.feature + node.left * LeftShift + node.right * RightShift
                 + (IF node.default THEN DefaultShift ELSE 0))

\* The nodes of all trees, one after the other, each with its number.
Nodes(e) == FlattenSeq([k \in DOMAIN e.trees |-> [n \in DOMAIN e.trees[k] |-> <<e.trees[k], n - 1>>]])

Zeros == [i \in 0..(Chunk - 1) |-> 0]
\* A chunk with the words of s from position `at` on.
Written(chunk, at, s) == [i \in DOMAIN chunk |-> IF i - at + 1 \in DOMAIN s THEN s[i - at + 1] ELSE chunk[i]]

\* pack_runtime_model.  All replicas get the same chunk.
PackModel(e) ==
  LET nodes == Nodes(e)
      header == <<Magic, Len(e.trees), NodeCount(e), e.features, e.base>>
      words == FlattenSeq([k \in DOMAIN nodes |->
                 <<Metadata(nodes[k][1], nodes[k][2]), nodes[k][1][nodes[k][2] + 1].value>>])
  IN Require(/\ e.features \in 1..MaxFeatures
             /\ Len(e.trees) \in 1..MaxTrees
             /\ NodeCount(e) <= MaxTotalNodes
             /\ \A t \in Range(e.trees) : Len(t) <= MaxTreeNodes,
             Written(Zeros, 0, header \o words))

\* partition_runtime_ensemble: the last boundary that leaves two small parts.
Prefix(e, k) == NodeCount([e EXCEPT !.trees = SubSeq(@, 1, k)])
Boundaries(e) ==
  {k \in 1..(Len(e.trees) - 1) : Prefix(e, k) <= MaxTotalNodes /\ NodeCount(e) - Prefix(e, k) <= MaxTotalNodes}
Partition(e) ==
  IF Len(e.trees) \notin 2..MaxTrees \/ NodeCount(e) <= MaxTotalNodes \/ Boundaries(e) = {} THEN {}
  ELSE LET k == Max(Boundaries(e))
       IN {<<[e EXCEPT !.trees = SubSeq(@, 1, k)], [e EXCEPT !.trees = SubSeq(@, k + 1, Len(@)), !.base = 0]>>}

\* Samples per invocation, for one kernel and for two in a chain.
InvocationCapacity(f) == (Chunk - HeaderWords) \div Max({f, OutputWords})
PartitionedCapacity(f) == (Chunk - HeaderWords) \div Max({f + 1, OutputWords})

\* _shard_sizes
ShardSizes(samples, capacity) ==
  LET active == Min({Replicas, Max({1, samples})})
      sizes == [r \in 1..active |-> samples \div active + (IF r - 1 < samples % active THEN 1 ELSE 0)]
  IN Require(/\ capacity > 0 /\ samples <= Replicas * capacity
             /\ \A r \in 1..active : sizes[r] <= capacity, sizes)

\* The rows of each shard.
RowStart(sizes, r) == FoldSeq(LAMBDA a, b : a + b, 0, SubSeq(sizes, 1, r - 1))
Shard(rows, sizes, r) == SubSeq(rows, RowStart(sizes, r) + 1, RowStart(sizes, r) + sizes[r])

\* _pack_runtime_feature_shards and _pack_chained_runtime_features: idle
\* replicas repeat the first shard.  tails[r] is what follows the features.
PackShards(rows, f, capacity, header, tails) ==
  UNION {LET words == [r \in DOMAIN sizes |->
                         <<sizes[r], f>> \o header \o FlattenSeq(Shard(rows, sizes, r)) \o tails[r]]
         IN Require(\A r \in DOMAIN sizes : Len(words[r]) <= Chunk,
                    [r \in 1..Replicas |-> Written(Zeros, 0, words[IF r \in DOMAIN sizes THEN r ELSE 1])]) :
         sizes \in ShardSizes(Len(rows), capacity)}

NoTails == [r \in 1..Replicas |-> <<>>]
ValidRows(rows, f) == \A i \in DOMAIN rows : Len(rows[i]) = f

PackFeatures(rows, f, capacity) == IF ValidRows(rows, f) THEN PackShards(rows, f, capacity, <<0, 0>>, NoTails) ELSE {}
PackConnected(rows, f, total) ==
  IF ValidRows(rows, f) /\ total \in 2..MaxTrees
  THEN PackShards(rows, f, PartitionedCapacity(f), <<total, 0>>, NoTails) ELSE {}

-----------------------------------------------------------------------------
(* The kernels, as functions from two chunks to the output chunk.          *)

ExactUint(word, maximum) == word \in 0..maximum

Bits(word, shift, size) == (word \div shift) % size
Feature(word) == Bits(word, 1, LeftShift)
TreeNodes(word) == Bits(word, SizeShift, 2^ChildBits) + 1
Word(model, node) == model[ModelHeader + 2 * node]
SplitOrLeaf(model, node) == model[ModelHeader + 2 * node + 1]
IsMetadata(word) == word \div BaseBits = 1

\* Where each tree of the packed forest starts, and where the last one ends.
RECURSIVE Roots(_, _, _)
Roots(model, root, trees) ==
  IF trees = 0 \/ root >= model[2] THEN <<root>>
  ELSE <<root>> \o Roots(model, root + TreeNodes(Word(model, root)), trees - 1)

\* xgb_validate_model
ValidModel(model, f) ==
  LET roots == Roots(model, 0, model[1])
  IN /\ Len(roots) = model[1] + 1 /\ roots[Len(roots)] = model[2]
     /\ \A k \in 1..model[1] : \A node \in roots[k]..(roots[k + 1] - 1) :
          LET word == Word(model, node)
              size == roots[k + 1] - roots[k]
          IN /\ IsMetadata(word)
             /\ Feature(word) = LeafFeature
                  \/ /\ Feature(word) < f
                     /\ Bits(word, LeftShift, 2^ChildBits) < size
                     /\ Bits(word, RightShift, 2^ChildBits) < size

\* One tree of xgb_margin: a leaf, unless it takes more than MaxTreeNodes steps.
RECURSIVE Descend(_, _, _, _, _)
Descend(row, model, root, node, steps) ==
  LET word == Word(model, root + node)
      value == SplitOrLeaf(model, root + node)
  IN CASE steps = 0 -> {}
       [] steps > 0 /\ Feature(word) = LeafFeature -> {value}
       [] OTHER -> Descend(row, model, root,
                           Child(row[Feature(word) + 1], value, Bits(word, LeftShift, 2^ChildBits),
                                 Bits(word, RightShift, 2^ChildBits), Bits(word, DefaultShift, 2) = 1),
                           steps - 1)

\* xgb_margin and xgb_chained_margin, which differ in where they start.
Margin(start, row, model) ==
  LET roots == Roots(model, 0, model[1])
      leaves == [k \in 1..model[1] |-> Descend(row, model, roots[k], 0, MaxTreeNodes)]
  IN Require(\A k \in DOMAIN leaves : leaves[k] # {},
             start \o [k \in DOMAIN leaves |-> CHOOSE v \in leaves[k] : TRUE])

Rows(features) ==
  [i \in 1..features[0] |-> [k \in 1..features[1] |-> features[HeaderWords + (i - 1) * features[1] + k - 1]]]

\* xgb_write_failure
Failure == Written(Zeros, 3, <<-1>>)

\* The checks of all kernels; `words` is the room that one sample takes.
Accepts(features, model, words) ==
  /\ ExactUint(features[0], Chunk - HeaderWords) /\ ExactUint(features[1], MaxFeatures) /\ features[1] > 0
  /\ features[0] <= (Chunk - HeaderWords) \div words
  /\ model[0] = Magic
  /\ ExactUint(model[1], MaxTrees) /\ model[1] > 0
  /\ ExactUint(model[2], MaxTotalNodes) /\ model[2] > 0
  /\ model[3] = features[1]
  /\ ValidModel(model, features[1])

Sigmoid(margin) == <<"sigmoid", margin>>
Class(margin) == <<"class", margin>>
Record(margin) == <<margin, Sigmoid(margin), Class(margin)>>
SampleWords(margins) == {Record(m) : m \in margins}

\* The output chunk: a header, copied words and the words of each sample, up
\* to one whose margin cannot be computed, which marks the header as failed.
Output(header, copied, records) ==
  LET failed == {i \in DOMAIN records : records[i] = {}}
      done == IF failed = {} THEN records ELSE SubSeq(records, 1, Min(failed) - 1)
      chunk == Written(Zeros, 0, header \o copied
                         \o FlattenSeq([i \in DOMAIN done |-> CHOOSE words \in done[i] : TRUE]))
  IN IF failed = {} THEN chunk ELSE [chunk EXCEPT ![3] = -1]

\* RUNTIME_KERNEL_SOURCE
Kernel(features, model) ==
  IF ~Accepts(features, model, Max({features[1], OutputWords})) THEN Failure
  ELSE LET rows == Rows(features)
       IN Output(<<features[0], features[1], OutputWords, model[1]>>, <<>>,
                 [i \in DOMAIN rows |-> SampleWords(Margin(<<model[4]>>, rows[i], model))])

\* RUNTIME_CONNECTED_FIRST_KERNEL_SOURCE: the output is the chain's input, so
\* there must be room for the features and a margin, and trees left to walk.
FirstAccepts(features, model) ==
  /\ Accepts(features, model, features[1] + 1)
  /\ ExactUint(features[2], MaxTrees) /\ model[1] < features[2]

FirstMargin(row, model) == Margin(<<model[4]>>, row, model)

FirstKernel(features, model) ==
  IF ~FirstAccepts(features, model) THEN Failure
  ELSE LET rows == Rows(features)
       IN Output(<<features[0], features[1], model[1], features[2]>>, FlattenSeq(rows),
                 [i \in DOMAIN rows |-> {<<m>> : m \in FirstMargin(rows[i], model)}])

\* RUNTIME_CHAIN_KERNEL_SOURCE: goes on from the partial margins, of which the
\* base score is a part.
ChainAccepts(features, model) ==
  /\ Accepts(features, model, Max({features[1] + 1, OutputWords}))
  /\ ExactUint(features[2], MaxTrees) /\ features[2] > 0
  /\ ExactUint(features[3], MaxTrees) /\ features[2] + model[1] = features[3]
  /\ model[4] = 0

ChainMargin(partial, row, model) == IF Finite(partial) THEN Margin(partial, row, model) ELSE {}

\* The margin starts from the base of the second forest.
ChainKernel_any_base(features, model) ==
  IF ~ChainAccepts(features, model) THEN Failure
  ELSE LET rows == Rows(features)
       IN Output(<<features[0], features[1], OutputWords, features[3]>>, <<>>,
                 [i \in DOMAIN rows |-> SampleWords(Margin(<<model[4]>>, rows[i], model))])

ChainKernel(features, model) ==
  IF ~ChainAccepts(features, model) THEN Failure
  ELSE LET rows == Rows(features)
           partial(i) == features[HeaderWords + features[0] * features[1] + i - 1]
       IN Output(<<features[0], features[1], OutputWords, features[3]>>, <<>>,
                 [i \in DOMAIN rows |-> SampleWords(ChainMargin(partial(i), rows[i], model))])

\* The kernel that generate_kernel_source makes for one forest.  It leaves
\* its output alone when it refuses its input.
GeneratedKernel(e, features, output) ==
  IF ~(/\ features[0] \in 0..((Chunk - HeaderWords) \div e.features) /\ features[1] = e.features
       /\ HeaderWords + features[0] * OutputWords <= Chunk) THEN output
  ELSE LET rows == Rows(features)
       IN Output(<<features[0], e.features, OutputWords, Len(e.trees)>>, <<>>,
                 [i \in DOMAIN rows |-> {Record(PredictMargin(e, rows[i]))}])

-----------------------------------------------------------------------------
(* Unpacking *)

HeaderOf(chunk) == <<chunk[0], chunk[1], chunk[2], chunk[3]>>
RecordsOf(chunk, size) ==
  [i \in 1..size |-> [w \in 1..OutputWords |-> chunk[HeaderWords + (i - 1) * OutputWords + w - 1]]]

\* Active replicas have the expected header and idle ones repeat the first.
Checked(chunks, samples, f, trees, capacity) ==
  {sizes \in ShardSizes(samples, capacity) :
     /\ \A r \in DOMAIN sizes : HeaderOf(chunks[r]) = <<sizes[r], f, OutputWords, trees>>
     /\ \A r \in (1..Replicas) \ DOMAIN sizes : chunks[r] = chunks[1]
     /\ \A r \in DOMAIN sizes : \A i \in 1..sizes[r] : Finite(RecordsOf(chunks[r], sizes[r])[i][1])}

\* unpack_runtime_predictions
Unpack(chunks, samples, f, trees, capacity) ==
  {FlattenSeq([r \in DOMAIN sizes |-> RecordsOf(chunks[r], sizes[r])]) :
     sizes \in Checked(chunks, samples, f, trees, capacity)}

\* _pack_chained_runtime_features, after validate_runtime_partial
PackChained(rows, partial, f, first, total) ==
  UNION {PackShards(rows, f, PartitionedCapacity(f), <<first, total>>,
                    [r \in DOMAIN sizes |-> LET records == RecordsOf(partial[r], sizes[r])
                                            IN [i \in DOMAIN records |-> records[i][1]]]) :
         sizes \in IF first \in 1..(total - 1) THEN Checked(partial, Len(rows), f, first, PartitionedCapacity(f))
                   ELSE {}}

Each(chunks, K(_)) == [r \in 1..Replicas |-> K(chunks[r])]

\* _execute: the kernel runs on every replica.
Execute(chunks, kernel, forest) ==
  Each(chunks, LAMBDA c : CASE kernel = "single" -> Kernel(c, forest)
                            [] kernel = "first"  -> FirstKernel(c, forest)
                            [] kernel = "chain"  -> ChainKernel(c, forest))

\* RuntimeNpuXGBoost.run
RunSingle(o, rows, f) ==
  UNION {Unpack(Execute(chunks, "single", o.stages[1].forest), Len(rows), f, Len(o.stages[1].part.trees),
                InvocationCapacity(f)) :
         chunks \in IF o.stages[1].mode = "normal" THEN PackFeatures(rows, f, InvocationCapacity(f)) ELSE {}}

\* _run_partial and _run_chained of the two stages
RunPartial(stage, rows, chunks) ==
  LET out == Execute(chunks, "single", stage.forest)
      f == stage.part.features
  IN Require(/\ stage.mode = "partial"
             /\ Checked(out, Len(rows), f, Len(stage.part.trees), PartitionedCapacity(f)) # {}, out)

RunChained(stage, rows, chunks, total) ==
  IF stage.mode # "chained" THEN {}
  ELSE Unpack(Execute(chunks, "chain", stage.forest), Len(rows), stage.part.features, total,
              PartitionedCapacity(stage.part.features))

Total(o) == Len(o.stages[1].part.trees) + Len(o.stages[2].part.trees)

\* ConnectedRuntimeNpuXGBoost.run: the second kernel reads what the first wrote.
RunConnected(o, rows, f) ==
  UNION {Unpack(Execute(Execute(chunks, "first", o.stages[1].forest), "chain", o.stages[2].forest),
                Len(rows), f, Total(o), PartitionedCapacity(f)) : chunks \in PackConnected(rows, f, Total(o))}

\* PartitionedRuntimeNpuXGBoost.run: the host carries the margins over.
RunPartitioned(o, rows, f) ==
  UNION {UNION {UNION {RunChained(o.stages[2], rows, chained, Total(o)) :
                       chained \in PackChained(rows, partial, f, Len(o.stages[1].part.trees), Total(o))} :
                partial \in RunPartial(o.stages[1], rows, chunks)} :
         chunks \in PackFeatures(rows, f, PartitionedCapacity(f))}

\* XGBoostRuntime.run: larger batches are cut at the capacity.
BatchCapacity(o, f) ==
  Replicas * (IF o.kind = "single" THEN InvocationCapacity(f) ELSE PartitionedCapacity(f))

RECURSIVE RunBatch(_, _, _)
RunBatch(o, rows, f) ==
  LET now == Min({BatchCapacity(o, f), Len(rows)})
      head == SubSeq(rows, 1, now)
  IN IF rows = <<>> THEN {<<>>}
     ELSE {p[1] \o p[2] : p \in (IF o.kind = "single" THEN RunSingle(o, head, f) ELSE RunConnected(o, head, f))
                                 \X RunBatch(o, SubSeq(rows, now + 1, Len(rows)), f)}

-----------------------------------------------------------------------------
(* The objects.  auto is XGBoostRuntime, generated is NpuXGBoost.          *)

Kind(e) == IF NodeCount(e) <= MaxTotalNodes THEN {"single"} ELSE {"connected" : p \in Partition(e)}

\* _runtime_carrier_contract: group k is made of its own invocations.
RuntimeCarrier(n) ==
  [k \in 1..n |-> [count |-> Chunk, invocations |-> [r \in 1..Replicas |-> (k - 1) * Replicas + r - 1]]]

\* _initialize: the part of a model that a kernel walks, packed and uploaded.
Stage(mode, part, carrier) ==
  {[mode |-> mode, part |-> part, forest |-> c] : c \in IF carrier = RuntimeCarrier(1) THEN PackModel(part) ELSE {}}

PartialStage(part, carrier) == Stage("partial", part, carrier)
ChainedStage(part, carrier) == Stage("chained", part, carrier)

Backend(class, kind, stages) ==
  [class |-> class, kind |-> kind, open |-> TRUE, stages |-> stages, output |-> [r \in 1..Replicas |-> Zeros]]

\* The constructors of RuntimeNpuXGBoost, ConnectedRuntimeNpuXGBoost, which has
\* both forests in one program, and PartitionedRuntimeNpuXGBoost.
Single1(class, e, carrier) == {Backend(class, "single", <<s>>) : s \in Stage("normal", e, carrier)}

Connected(class, e, carrier) ==
  UNION {{Backend(class, "connected", <<[mode |-> "connected", part |-> p[1], forest |-> a],
                                        [mode |-> "connected", part |-> p[2], forest |-> b]>>) :
            a \in PackModel(p[1]), b \in PackModel(p[2])} :
         p \in IF carrier = RuntimeCarrier(2) THEN Partition(e) ELSE {}}

Partitioned(class, e, carrier) ==
  UNION {{Backend(class, "partitioned", <<a, b>>) : a \in PartialStage(p[1], carrier), b \in ChainedStage(p[2], carrier)} :
         p \in Partition(e)}

\* generate_kernel_source and NpuXGBoost: both halves of its transport are the
\* same chunk.
Generated(e) ==
  Require(e.features <= Chunk - HeaderWords /\ Len(e.trees) <= MaxTrees,
          Backend("generated", "generated", <<[mode |-> "generated", part |-> e, forest |-> Zeros]>>))

\* XGBoostRuntime._create_backend, or the class that the client chose.
Objects(class, e, carrier) ==
  CASE class = "auto"        -> UNION {IF k = "single" THEN Single1(class, e, carrier) ELSE Connected(class, e, carrier)
                                       : k \in Kind(e)}
    [] class = "partitioned" -> Partitioned(class, e, carrier)
    [] class = "generated"   -> IF carrier = RuntimeCarrier(1) THEN Generated(e) ELSE {}

FInit == object = None /\ ensemble = None /\ loaded = None /\ prediction = None

\* The constructors; `carrier` is what the compiler made of the graph.
Create(class, e, carrier) ==
  /\ object = None
  /\ ValidEnsemble(e)
  /\ \E o \in Objects(class, e, carrier) : object' = o
  /\ ensemble' = e /\ loaded' = e /\ prediction' = None

\* _upload_model: the forests of an open backend are replaced.
Uploaded(o, e) ==
  UNION {{[o EXCEPT !.stages = [k \in DOMAIN @ |-> [@[k] EXCEPT !.part = parts[k], !.forest = f[k]]]] :
            f \in IF {} \in {PackModel(parts[k]) : k \in DOMAIN parts} THEN {}
                  ELSE {[k \in DOMAIN parts |-> CHOOSE c \in PackModel(parts[k]) : TRUE]}} :
         parts \in IF o.kind = "single" THEN {<<e>>} ELSE Partition(e)}

\* load_model() packs the whole model before it uploads a part of it, and
\* makes a new backend before it lets the old one go.
Loads(e, carrier) ==
  CASE ~ValidEnsemble(e) -> {}
    [] ValidEnsemble(e) /\ (object.class = "partitioned" \/ object.kind \in Kind(e)) ->
         IF object.open THEN Uploaded(object, e) ELSE {}
    [] OTHER -> Objects(object.class, e, carrier)

LoadModel(e, carrier) ==
  /\ object # None /\ object.class # "generated"
  /\ prediction' = None
  /\ IF Loads(e, carrier) = {} THEN UNCHANGED <<object, ensemble, loaded>>
     ELSE /\ \E o \in Loads(e, carrier) : object' = o
          /\ ensemble' = e /\ loaded' = e

\* NpuXGBoost.run through the shared output.
GeneratedChunks(rows, f) ==
  IF ValidRows(rows, f) /\ Len(rows) <= (Chunk - HeaderWords) \div f
  THEN {[r \in 1..Replicas |-> Written(Zeros, 0, <<Len(rows), f, 0, 0>> \o FlattenSeq(rows))]} ELSE {}

UnpackGenerated(output, rows, f) ==
  Require(/\ \A r \in 1..Replicas : output[r] = output[1]
          /\ SubSeq(HeaderOf(output[1]), 1, 3) = <<Len(rows), f, OutputWords>>,
          RecordsOf(output[1], Len(rows)))

Outputs(rows) ==
  LET e == ensemble
  IN {Each(c, LAMBDA x : GeneratedKernel(e, x, object.output[1])) : c \in GeneratedChunks(rows, e.features)}

Predictions(rows) ==
  CASE ~object.open                   -> {}
    [] object.class = "auto"          -> IF ValidRows(rows, ensemble.features)
                                         THEN RunBatch(object, rows, ensemble.features) ELSE {}
    [] object.class = "partitioned"   -> RunPartitioned(object, rows, ensemble.features)
    [] OTHER                          -> UNION {UnpackGenerated(o, rows, ensemble.features) : o \in Outputs(rows)}

Run(rows) ==
  /\ object # None
  /\ prediction' = [rows |-> rows, records |-> Predictions(rows)]
  /\ object' = IF object.class = "generated" /\ object.open /\ Outputs(rows) # {}
               THEN [object EXCEPT !.output = CHOOSE o \in Outputs(rows) : TRUE] ELSE object
  /\ UNCHANGED <<ensemble, loaded>>

Close ==
  /\ object # None /\ object' = [object EXCEPT !.open = FALSE]
  /\ prediction' = None
  /\ UNCHANGED <<ensemble, loaded>>

FNext ==
  \/ \E e \in Models, n \in 1..2 :
       \/ LoadModel(e, RuntimeCarrier(n))
       \/ \E class \in {"auto", "partitioned", "generated"} : Create(class, e, RuntimeCarrier(n))
  \/ \E rows \in Batches : Run(rows)
  \/ Close

-----------------------------------------------------------------------------
\* What run() returns is, for every sample in order, the result of the same
\* additions in the same order as Ensemble.predict_margin makes for the model
\* loaded last, however the forest and the batch are cut up for the device and
\* whatever loads failed before (xgboost_npu/runtime.py:854).
MarginsExact ==
  prediction # None => \A records \in prediction.records :
    records = [i \in DOMAIN prediction.rows |-> Record(PredictMargin(loaded, prediction.rows[i]))]

\* A batch of the right width is refused only when a margin overflows, the
\* object is closed or the batch exceeds the capacity of a backend that does
\* not cut it up: what the host packs, the kernels accept
\* (xgboost_npu/runtime.py:698).
RefusedOnlyForCause ==
  prediction # None /\ prediction.records = {} /\ object.open /\ ValidRows(prediction.rows, loaded.features) =>
    \/ \E i \in DOMAIN prediction.rows : ~Finite(PredictMargin(loaded, prediction.rows[i]))
    \/ object.class = "partitioned" /\ Len(prediction.rows) > Replicas * PartitionedCapacity(loaded.features)
    \/ object.class = "generated" /\ Len(prediction.rows) > InvocationCapacity(loaded.features)

\* The device computes what the reference computes, and refuses nothing that
\* it could compute.
PredictionsExact == MarginsExact /\ RefusedOnlyForCause
=============================================================================
