------------------------------- MODULE Mapping -------------------------------
(***************************************************************************)
(* Mapping custom nodes to the ACT groups of a compiled carrier            *)
(* (python/npunlock/__init__.py): tensor contracts, the automatic          *)
(* selection, and the proposal from native reachability.                   *)
(*                                                                         *)
(* `g` is a sequence of nodes in topological order, [op, in, specs], where *)
(* `in` holds pairs <<node, output index>>.  A target of version 1 is      *)
(*   [v |-> 1, inv, rng, inputs, count, span, flags], flags a set of names; *)
(* one of version 2 is                                                     *)
(*   [v |-> 2, inv, rng, flags, tensors], tensors a sequence of             *)
(*   [role, index, dtype, count, span, seen].                              *)
(* A group is a sequence of targets; groups are numbered from 0.  A value  *)
(* that is None in the code is the empty set here.                         *)
(***************************************************************************)
EXTENDS Shapes

InSpecs(g, n) == [i \in DOMAIN g[n].in |-> g[g[n].in[i][1]].specs[g[n].in[i][2] + 1]]

Tensors(t, role) ==
  LET order == Ascending({i \in DOMAIN t.tensors : t.tensors[i].role = role})
  IN [k \in DOMAIN order |-> t.tensors[order[k]]]
Inputs(t) == Tensors(t, "input")
Output(t) == Tensors(t, "output")[1]
Version(targets, v) == \A i \in DOMAIN targets : targets[i].v = v
Stable(values) == IF Cardinality(values) = 1 THEN values ELSE {}
Each(targets, Value(_)) == {Value(targets[i]) : i \in DOMAIN targets}

\* _legacy_target_dtype: exactly one of the two precision bits.
LegacyDtype(t) ==
  CASE "fp16" \in t.flags /\ "fp32" \notin t.flags -> "f16"
    [] "fp32" \in t.flags /\ "fp16" \notin t.flags -> "f32"
    [] OTHER -> "none"

LegacyScalars(t) == IF "scalar" \in t.flags THEN <<1>> ELSE <<>>

ScalarInputs(t) ==
  LET in == Inputs(t)
      order == Ascending({i \in DOMAIN in : in[i].count = 1 /\ Output(t).count > 1})
  IN [k \in DOMAIN order |-> in[order[k]].index]

InputDtypes(t) == [i \in DOMAIN Inputs(t) |-> Inputs(t)[i].dtype]
InputCounts(t) == [i \in DOMAIN Inputs(t) |-> Inputs(t)[i].count]
InputNumber(t) == t.inputs
LegacyCounts(t) ==
  IF t.inputs = 2 /\ "scalar" \in t.flags THEN <<t.count, 1>> ELSE [i \in 1..t.inputs |-> t.count]

-----------------------------------------------------------------------------
(* The properties of ActGroup: a value only if all targets agree on it.    *)

GroupInputDtypes(targets) ==
  IF targets # <<>> /\ Version(targets, 2) THEN Stable(Each(targets, InputDtypes))
  ELSE UNION {{[i \in 1..n |-> d] : n \in Stable(Each(targets, InputNumber))} :
              d \in Stable(Each(targets, LegacyDtype)) \ {"none"}}

GroupOutputDtype(targets) ==
  IF targets # <<>> /\ Version(targets, 2) THEN Stable(Each(targets, LAMBDA t : Output(t).dtype))
  ELSE Stable(Each(targets, LegacyDtype)) \ {"none"}

GroupScalarInputs(targets) ==
  IF targets = <<>> THEN {}
  ELSE IF Version(targets, 2) THEN Stable(Each(targets, ScalarInputs))
  ELSE IF Cardinality(Each(targets, LAMBDA t : t.flags)) = 1
       THEN {LegacyScalars(targets[1])} ELSE {<<>>}

GroupInputCounts(targets) ==
  IF Version(targets, 2) THEN Stable(Each(targets, InputCounts))
  ELSE IF \E i \in DOMAIN targets : targets[i].inputs \notin 1..8 THEN {}
  ELSE Stable(Each(targets, LegacyCounts))

GroupOutputCount(targets) ==
  Stable(Each(targets, LAMBDA t : IF t.v = 2 THEN Output(t).count ELSE t.count))

Sum(counts) == FoldLeft(LAMBDA a, b : a + b, 0, counts)
Counts(targets) == [i \in DOMAIN targets |-> IF targets[i].v = 2 THEN Output(targets[i]).count
                                              ELSE targets[i].count]

GroupInputCount(targets) ==
  Stable(Each(targets, LAMBDA t : IF t.v = 2 THEN Len(Inputs(t)) ELSE t.inputs))

\* find_groups and find_group: a filter is a set, empty when it is not given.
FindGroups(groups, f) ==
  {k \in 0..(Len(groups) - 1) :
     LET targets == groups[k + 1] IN
     /\ f.input_count # {} => GroupInputCount(targets) = f.input_count
     /\ f.element_count # {} => {Sum(Counts(targets))} = f.element_count
     /\ f.input_dtypes # {} => GroupInputDtypes(targets) = f.input_dtypes
     /\ f.output_dtype # {} => GroupOutputDtype(targets) = f.output_dtype
     /\ f.scalars # {} => GroupScalarInputs(targets) = f.scalars}

FindGroup(groups, f) == Stable(FindGroups(groups, f))

\* ActGroupContract.mismatch is None.
GroupKeepsContract(contract, targets) ==
  /\ GroupInputDtypes(targets) = {contract.input_dtypes}
  /\ GroupOutputDtype(targets) = {contract.output_dtype}
  /\ GroupInputCounts(targets) = {contract.input_counts}
  /\ GroupOutputCount(targets) = {contract.output_count}
  /\ Len(targets) = contract.target_count
  /\ contract.invocations # {} => contract.invocations = {[i \in DOMAIN targets |-> targets[i].inv]}
  /\ contract.ranges # {} => contract.ranges = {[i \in DOMAIN targets |-> targets[i].rng]}

-----------------------------------------------------------------------------
\* Input positions at which the descriptor of a custom node is scalar.
CustomScalarInputIndices(in, out) ==
  LET All(is, s) == \A i \in is : in[i].shape = s
      Positions(is) == [k \in 1..Cardinality(is) |-> Ascending(is)[k] - 1]
      Layout(row, scalar, first) == /\ out.shape = row /\ All(1..(first - 1), row)
                                    /\ All(first..5, scalar)
  IN IF Len(in) = 5
     THEN IF Layout(<<1, 32>>, <<1, 1>>, 2) \/ Layout(<<4, 8>>, <<4, 1>>, 2) THEN <<1, 2, 3, 4>>
          ELSE IF Layout(<<1, 32>>, <<1, 1>>, 3) \/ Layout(<<4, 8>>, <<4, 1>>, 3) THEN <<2, 3, 4>>
          ELSE <<>>
     ELSE Positions({i \in DOMAIN in : /\ Len(in) = 2 /\ Elements(out.shape) > 1
                                       /\ \/ Elements(in[i].shape) = 1
                                          \/ out.shape = <<4, 8>> /\ in[i].shape = <<4, 1>>})

\* The dtypes, the number of inputs and the scalar inputs agree.
ContractMatch(in, outs, targets) ==
  LET dtypes == [i \in DOMAIN in |-> in[i].dtype]
      scalars == CustomScalarInputIndices(in, outs[1])
  IN \/ /\ Version(targets, 1)
        /\ \A i \in DOMAIN targets : targets[i].inputs = Len(in)
        /\ \E d \in Stable(Each(targets, LegacyDtype)) \ {"none"} :
             \A x \in Range(dtypes) \cup {outs[1].dtype} : x = d
        /\ \A i \in DOMAIN targets : LegacyScalars(targets[i]) = scalars
     \/ /\ Version(targets, 2)
        /\ \A i \in DOMAIN targets : /\ InputDtypes(targets[i]) = dtypes
                                     /\ Output(targets[i]).dtype = outs[1].dtype
                                     /\ ScalarInputs(targets[i]) = scalars

\* _custom_targets_mismatch is None: the group computes what the node declares.
TargetsMatch(in, outs, targets, cover) ==
  /\ Len(outs) = 1 /\ targets # <<>>
  /\ ContractMatch(in, outs, targets)
  /\ cover => Sum(Counts(targets)) = Elements(outs[1].shape)

Consecutive(values) == \A i \in DOMAIN values : values[i] = values[1] + i - 1

\* _combined_custom_targets: one operation that the compiler partitioned.
CombinedCustomTargets(in, outs, groups) ==
  LET targets == FlattenSeq(groups)
      size == IF outs[1].dtype = "f16" THEN 2 ELSE 4
  IN Require(/\ Len(groups) >= 2 /\ Len(outs) = 1 /\ outs[1].dtype \in {"f16", "f32"}
             /\ targets # <<>>
             /\ \A i \in DOMAIN targets :
                  /\ targets[i].inputs = Len(in)
                  /\ targets[i].span = targets[i].count * size
                  /\ targets[i].flags = targets[1].flags
             /\ Consecutive([i \in DOMAIN targets |-> targets[i].inv])
             /\ Consecutive([i \in DOMAIN targets |-> targets[i].rng])
             /\ TargetsMatch(in, outs, targets, TRUE),
             targets)

\* _combined_hybrid_per_row_targets_v2: the one layout of four rows.
CombinedHybrid(in, outs, groups) ==
  LET targets == FlattenSeq(groups)
      Tensor(role, k, n, seen) ==
        [role |-> role, index |-> k, dtype |-> "f16", count |-> n, span |-> 2 * n, seen |-> seen]
      expected == <<Tensor("input", 0, 4, 7), Tensor("input", 1, 4, 7), Tensor("input", 2, 1, 7),
                    Tensor("input", 3, 1, 7), Tensor("input", 4, 1, 7), Tensor("output", 0, 4, 15)>>
  IN Require(/\ Len(groups) = 4 /\ \A i \in 1..4 : Len(groups[i]) = 4
             /\ outs = <<[shape |-> <<4, 8>>, dtype |-> "f16"]>>
             /\ [i \in DOMAIN in |-> in[i].shape] = <<<<4, 8>>, <<4, 8>>, <<4, 1>>, <<4, 1>>, <<4, 1>>>>
             /\ \A i \in DOMAIN in : in[i].dtype = "f16"
             /\ \A i \in DOMAIN targets : targets[i].flags = 0 /\ targets[i].tensors = expected
             /\ Consecutive([i \in DOMAIN targets |-> targets[i].inv]),
             targets)

\* The targets that a node gets from the groups of a block, if it may have them.
Selected(in, outs, groups) ==
  IF Len(groups) = 1
  THEN Require(TargetsMatch(in, outs, groups[1], FALSE), groups[1])
  ELSE IF \A i \in DOMAIN groups : Version(groups[i], 1) THEN CombinedCustomTargets(in, outs, groups)
  ELSE IF \A i \in DOMAIN groups : Version(groups[i], 2) THEN CombinedHybrid(in, outs, groups)
  ELSE {}

Computational(g) == SelectSeq([n \in DOMAIN g |-> n], LAMBDA n : g[n].op \notin {"Parameter", "Const"})

\* What a node may take of the groups from index `at`: one group, or several
\* for a custom node.  A native node takes any group that is not empty.
MayTake(g, n, groups, at, take) ==
  LET block == SubSeq(groups, at + 1, at + take)
  IN IF g[n].op = "Custom" THEN Selected(InSpecs(g, n), g[n].specs, block) # {}
     ELSE take = 1 /\ block[1] # <<>>

\* The search of _automatic_group_indices: how the groups from index `at` on can
\* be given to the nodes from the k-th on, in the order in which they are tried.
\* It stops after two solutions.
Search(g, nodes, groups) ==
  LET visit[k \in 1..(Len(nodes) + 1), at \in 0..Len(groups)] ==
        LET limit == Len(groups) - at - (Len(nodes) - k)
            custom == g[nodes[k]].op = "Custom"
            Choice(take) == IF custom THEN << [i \in 1..take |-> at + i - 1] >> ELSE <<>>
            Step(found, take) ==
              IF Len(found) > 1 \/ ~MayTake(g, nodes[k], groups, at, take) THEN found
              ELSE LET rest == visit[k + 1, at + take]
                   IN found \o [i \in DOMAIN rest |-> Choice(take) \o rest[i]]
        IN CASE k > Len(nodes) -> IF at = Len(groups) THEN << <<>> >> ELSE <<>>
             [] k <= Len(nodes) /\ limit < 1 -> <<>>
             [] OTHER -> FoldLeft(Step, <<>>, [take \in 1..(IF custom THEN limit ELSE 1) |-> take])
  IN visit[1, 0]

\* The first solution is taken although there is another one.
AutomaticGroupIndices_first(g, groups) ==
  LET found == Search(g, Computational(g), groups)
  IN Require(found # <<>>, found[1])

\* The group indices of each custom node, in order, or nothing.
AutomaticGroupIndices(g, groups) ==
  LET nodes == Computational(g)
      customs == SelectSeq(nodes, LAMBDA n : g[n].op = "Custom")
      position(n) == CHOOSE k \in DOMAIN nodes : nodes[k] = n
      found == Search(g, nodes, groups)
  IN IF Len(groups) = Len(nodes)
     THEN Require(\A n \in Range(customs) :
                    TargetsMatch(InSpecs(g, n), g[n].specs, groups[position(n)], FALSE),
                  [i \in DOMAIN customs |-> <<position(customs[i]) - 1>>])
     ELSE Require(Len(found) = 1, found[1])

-----------------------------------------------------------------------------
(* _propose_native_topology_mapping.  `rel` is the set of exact relations  *)
(* between endpoints <<kind, index>>; `names` maps a graph input or output *)
(* endpoint to its native name.                                            *)

\* The endpoints that a path of relations leads to: each round follows one more
\* relation, and no path needs more than all of them.
ReachableFrom(rel, start) ==
  LET Followed(set) == {r[2] : r \in {r \in rel : r[1] \in set}}
      Round(set, i) == set \cup Followed(set)
  IN FoldLeft(Round, Followed({start}), [i \in 1..Cardinality(rel) |-> i])

Ancestors(g, n) ==
  LET above[m \in DOMAIN g] == UNION {{t[1]} \cup above[t[1]] : t \in Range(g[m].in)}
  IN above[n]

Act(k) == <<"act_group", k>>
Endpoints(rel, kind) == {e \in UNION {{r[1], r[2]} : r \in rel} : e[1] = kind}
Unambiguous(names) == {e \in DOMAIN names : \A f \in DOMAIN names \ {e} :
                                              <<f[1], names[f]>> # <<e[1], names[e]>>}
Observed(names, endpoints, known) ==
  {names[e] : e \in endpoints \cap Unambiguous(names)} \cap known

\* `inputs` and `outputs` map the unique names of the graph to their nodes.
Viable(g, n, groups, rel, names, inputs, outputs) ==
  LET above == Ancestors(g, n)
      symbolicIn == {x \in DOMAIN inputs : inputs[x] \in above}
      symbolicOut == {x \in DOMAIN outputs : outputs[x] = n \/ n \in Ancestors(g, outputs[x])}
  IN {k \in 0..(Len(groups) - 1) :
        LET reached == ReachableFrom(rel, Act(k)) \cap Endpoints(rel, "graph_output")
            fed == {e \in Endpoints(rel, "graph_input") : Act(k) \in ReachableFrom(rel, e)}
        IN /\ TargetsMatch(InSpecs(g, n), g[n].specs, groups[k + 1], FALSE)
           /\ reached # {}
           /\ Observed(names, reached, DOMAIN outputs) \subseteq symbolicOut
           /\ Observed(names, fed, DOMAIN inputs) \subseteq symbolicIn}

\* What a node's group computes reaches the group of a node that depends on it.
Compatible(rel, prior, group) == Act(group) \in ReachableFrom(rel, Act(prior))

\* The assignments of one group to each custom node, in the order in which the
\* depth-first visit meets them: by the first node's group, then the second's...
Assign(g, customs, viable, rel) ==
  LET Fits(selected, k, group) ==
        /\ group \notin Range(selected)
        /\ \A p \in DOMAIN selected :
             customs[p] \in Ancestors(g, customs[k]) => Compatible(rel, selected[p], group)
      Extended(selected, k) ==
        LET next == SetToSortSeq({group \in viable[k] : Fits(selected, k, group)}, <)
        IN [i \in DOMAIN next |-> Append(selected, next[i])]
      Visit(all, k) == FlattenSeq([i \in DOMAIN all |-> Extended(all[i], k)])
  IN FoldLeft(Visit, << <<>> >>, [k \in DOMAIN customs |-> k])

\* The visit gives up when `most` assignments were found and there is another.
Propose(g, groups, rel, names, inputs, outputs, most) ==
  LET customs == SelectSeq(Computational(g), LAMBDA n : g[n].op = "Custom")
      viable == [i \in DOMAIN customs |-> Viable(g, customs[i], groups, rel, names, inputs, outputs)]
      all == IF customs = <<>> \/ Endpoints(rel, "graph_output") = {} THEN <<>>
             ELSE Assign(g, customs, viable, rel)
  IN [found |-> SubSeq(all, 1, Min({Len(all), most})), truncated |-> Len(all) > most]

\* NativeTopologyProposal.unique_group_indices.
UniqueAssignment(p) == Require(Len(p.found) = 1 /\ ~p.truncated, p.found[1])

-----------------------------------------------------------------------------
LegacyTarget_no_scalar(t) ==
  {[v |-> 1, inv |-> t.inv, rng |-> t.rng, inputs |-> Len(Inputs(t)), count |-> Output(t).count,
    span |-> Output(t).span, flags |-> {IF Output(t).dtype = "f16" THEN "fp16" ELSE "fp32"}]}

\* _legacy_targets_from_v2: the records that version 1 can express exactly.
LegacyTarget(t) ==
  LET in == Inputs(t)
      out == Tensors(t, "output")
      size == IF out[1].dtype = "f16" THEN 2 ELSE 4
      scalar == Len(in) = 2 /\ in[2].count = 1 /\ out[1].count > 1
  IN IF /\ t.flags = 0 /\ Len(in) \in {1, 2} /\ Len(out) = 1
        /\ \A i \in DOMAIN in : in[i].index = i - 1 /\ in[i].seen = 7
        /\ out[1].index = 0 /\ out[1].seen = 15
     THEN Require(/\ out[1].dtype \in {"f16", "f32"}
                  /\ \A i \in DOMAIN in : in[i].dtype = out[1].dtype
                  /\ out[1].span = out[1].count * size
                  /\ in[1].count = out[1].count /\ in[1].span = out[1].span
                  /\ scalar => in[2].span = size
                  /\ Len(in) = 2 /\ ~scalar => in[2].count = out[1].count /\ in[2].span = out[1].span,
                  [v |-> 1, inv |-> t.inv, rng |-> t.rng, inputs |-> Len(in),
                   count |-> out[1].count, span |-> out[1].span,
                   flags |-> {IF out[1].dtype = "f16" THEN "fp16" ELSE "fp32"}
                             \cup (IF scalar THEN {"scalar"} ELSE {})])
     ELSE {}

LegacyTargets(targets) ==
  IF \A i \in DOMAIN targets : LegacyTarget(targets[i]) # {}
  THEN {[i \in DOMAIN targets |-> CHOOSE t \in LegacyTarget(targets[i]) : TRUE]}
  ELSE {}
=============================================================================
