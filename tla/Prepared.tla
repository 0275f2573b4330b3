------------------------------ MODULE Prepared ------------------------------
(***************************************************************************)
(* prepare, probe, review, plan, build, and the two kinds of bundles of    *)
(* python/npunlock/__init__.py, with contracts.py.  One client works on    *)
(* one prepared graph at a time and holds one more object (evidence, a     *)
(* review, a program, a bundle...); meanwhile the driver may be updated,   *)
(* the kernel source edited and a bundle damaged.                          *)
(*                                                                         *)
(* A graph is [id, g, embedded, inputs, outputs] (g, inputs and outputs as *)
(* in Mapping); its k-th custom node has the number k.  A blob that the    *)
(* driver compiled is [graph, flags, over, driver, layout], where `over`   *)
(* holds the carrier override of a probe and the layout is the compiler's  *)
(* choice: [groups, mixed, truth, complete, rel, names], `truth` naming    *)
(* the groups that implement each custom node, `complete` the coverage     *)
(* kinds of each group, and rel and names as in Mapping.  Equal bytes have *)
(* equal digests and the other way round.                                  *)
(***************************************************************************)
EXTENDS Mapping

CONSTANTS Graphs,        \* graphs the client works with
          Layouts(_),    \* what the compiler may make of a graph
          Flags(_),      \* build flags that the client passes for a graph: sets of options
          Drivers,       \* versions of the driver with its compiler, an interval
          Validated,     \* the drivers whose compiler positional discovery was validated for
          MaxProposals,  \* maximum_assignments of a proposal
          Carriers,      \* substitute carriers that the client probes
          Offers,        \* explicit bindings that the client tries
          Definitions,   \* compiler definitions of each custom node's kernel
          MaxEdits       \* bound on edits of a kernel source

\* What discovery requires of two targets of one group (tensor_contracts_v2_equal).
SameContract(t, u) ==
  \/ t.v = 2 /\ u.v = 2 /\ t.tensors = u.tensors /\ t.flags = u.flags
  \/ t.v = 1 /\ u.v = 1 /\ \A f \in {"inputs", "count", "span", "flags"} : t[f] = u[f]

\* Discovery lists the invocations once each, in groups of equal contracts
\* (npunlock_discover_graph_targets and its version 2).
Discovered(groups) ==
  LET targets == UNION {Range(group) : group \in Range(groups)}
  IN /\ groups \in Seq(Seq(targets) \ {<<>>})
     /\ \A t \in targets : IF t.v = 2 THEN t.tensors \in Seq(Range(t.tensors))
                           ELSE t.inputs \in 1..8 /\ LegacyDtype(t) # "none"
     /\ \A i \in DOMAIN groups : \A u, v \in DOMAIN groups[i] : SameContract(groups[i][u], groups[i][v])
     /\ \A i, j \in DOMAIN groups : \A u \in DOMAIN groups[i], v \in DOMAIN groups[j] :
          groups[i][u].inv = groups[j][v].inv => i = j /\ u = v

ASSUME PreparedAssumption ==
  /\ Drivers \subseteq Nat /\ Validated \subseteq Drivers /\ MaxEdits \in Nat /\ MaxProposals \in Nat
  /\ IsFiniteSet(Carriers) /\ Cardinality(Carriers) \in 2..8      \* _validate_probe_carriers
  /\ \A gr \in Graphs : /\ Layouts(gr) # {} /\ None # gr
                        /\ \A l \in Layouts(gr) : Discovered(l.groups)
                        /\ IsFiniteSet(DOMAIN gr.g)
                        /\ \A e \in gr.embedded : e \in Seq(Range(e))

VARIABLES driver,        \* the installed driver and compiler
          source,        \* content of the kernels' source file
          prepared,      \* the PreparedGraph, or None
          plan,          \* the BuildPlan, or None
          held           \* what else the client holds, a record with a kind

pvars == <<driver, source, prepared, plan, held>>

Nothing == [kind |-> "nothing"]
Holds(kind) == held.kind = kind

\* The custom nodes in the order of the graph.
Customs(gr) == Ascending({n \in DOMAIN gr.g : gr.g[n].op = "Custom"})
Nodes(gr) == DOMAIN Customs(gr)
Kinds == {"direct_output", "act_consumer"}      \* and three more of the kind

PInit ==
  /\ driver \in {d \in Drivers : \A e \in Drivers : d <= e}
  /\ source = 0
  /\ prepared = None /\ plan = None /\ held = Nothing

\* The driver compiles an IR (external).
Blob(gr, flags, over, layout) ==
  [graph |-> gr, flags |-> flags, over |-> over, driver |-> driver, layout |-> layout]

\* Comparison of two carriers (external): accepted when one group differs.
Changed(base, candidate) ==
  IF candidate.layout = base.layout /\ candidate.over # <<>>
  THEN base.layout.truth[candidate.over[1]] ELSE {}

\* _discover_prepared_contract: no automatic selection for raw explicit
\* targets or mixed precision.
Groups(p) == IF p.graph.embedded # {} \/ Nodes(p.graph) = {} THEN <<>> ELSE p.blob.layout.groups
Automatic(p) ==
  IF p.graph.embedded # {} \/ p.blob.layout.mixed THEN {}
  ELSE AutomaticGroupIndices(p.graph.g, Groups(p))

NewPrepared(gr, flags, blob, saved, reviews) ==
  [graph |-> gr, flags |-> flags, blob |-> blob, saved |-> saved, reviews |-> reviews]

NoReviews(gr) == [k \in Nodes(gr) |-> None]

\* _embedded_target_groups: all custom nodes have raw targets, or none.
EmbeddedTargetGroups(gr) ==
  \A e \in gr.embedded : /\ Len(e) = Len(Customs(gr))
                         /\ \A k \in DOMAIN e : e[k] # <<>> /\ (Version(e[k], 1) \/ Version(e[k], 2))

\* _effective_build_flags: an f32 result of a custom node needs accuracy.
NeedsAccuracy(gr) == \E n \in Range(Customs(gr)) : \E i \in DOMAIN gr.g[n].specs : gr.g[n].specs[i].dtype = "f32"
EffectiveBuildFlags(gr, flags) ==
  CASE ~NeedsAccuracy(gr) -> {flags}
    [] NeedsAccuracy(gr) /\ flags = {} -> {{"accuracy"}}
    [] OTHER -> Require("accuracy" \in flags, flags)

\* _require_validated_positional_compiler
ValidatedPositionalCompiler(gr, version) == Nodes(gr) = {} \/ gr.embedded # {} \/ version \in Validated

\* What prepare() and load_prepared() ask of a graph.
Preparable(gr) ==
  /\ EmbeddedTargetGroups(gr)
  /\ gr.embedded = {} => \A n \in Range(Customs(gr)) : Len(gr.g[n].specs) = 1

\* prepare()
PreparedFor(gr, flags, layout) ==
  {NewPrepared(gr, f, Blob(gr, f, <<>>, layout), {}, NoReviews(gr)) :
     f \in IF Preparable(gr) /\ ValidatedPositionalCompiler(gr, driver) THEN EffectiveBuildFlags(gr, flags) ELSE {}}

Prepare(gr, flags, layout) ==
  /\ held.kind \in {"nothing", "evidence", "review", "proposal"}   \* bound
  /\ \E p \in PreparedFor(gr, flags, layout) : prepared' = p
  /\ plan' = None
  /\ UNCHANGED <<driver, source, held>>

\* probe_carrier(): refused under another driver than the baseline's.
Probe(p, k, carrier, layout) ==
  [node |-> k, carrier |-> carrier, base |-> p.blob, cand |-> Blob(p.graph, p.flags, <<k, carrier>>, layout)]

Accepted(probe) == \E i \in Changed(probe.base, probe.cand) : Changed(probe.base, probe.cand) = {i}
GroupOf(probe) == CHOOSE i \in Changed(probe.base, probe.cand) : TRUE

\* probe_candidates(): the carriers that fail to compile are left out.
ProbeCandidates(k, failed, layouts) ==
  /\ prepared # None /\ prepared.graph.embedded = {}
  /\ driver = prepared.blob.driver
  /\ k \in Nodes(prepared.graph)
  /\ Holds("nothing") /\ plan = None                                                 \* bound
  /\ held' = [kind |-> "evidence", node |-> k,
              probes |-> {Probe(prepared, k, c, layouts[c]) : c \in Carriers \ failed}]
  /\ UNCHANGED <<driver, source, prepared, plan>>

\* CarrierMappingEvidence.group_index, for the status "consistent".
Consistent(probes) ==
  LET accepted == {q \in probes : Accepted(q)}
      indices == {GroupOf(q) : q \in accepted}
  IN IF Cardinality(accepted) >= 2 THEN Stable(indices) ELSE {}

\* The evidence of another baseline is accepted.
Review_any_baseline(p, k, probes, kind) ==
  UNION {Require(/\ \A q \in probes : q.node = k /\ q.base.graph = p.graph
                 /\ i < Len(Groups(p)),
                 [node |-> k, group |-> i, kind |-> kind, base |-> p.blob, probes |-> probes]) :
         i \in Consistent(probes)}

\* review_binding(): evidence for this output and this very blob, and a
\* coverage kind that is complete for the group.
Review(p, k, probes, kind) ==
  UNION {Require(/\ \A q \in probes : q.node = k /\ q.base.graph = p.graph /\ q.base = p.blob
                 /\ i < Len(Groups(p))
                 /\ kind \in p.blob.layout.complete[i],
                 [node |-> k, group |-> i, kind |-> kind, base |-> p.blob, probes |-> probes]) :
         i \in Consistent(probes)}

ReviewBinding(k, kind) ==
  /\ prepared # None /\ Holds("evidence")
  /\ \E r \in Review(prepared, k, held.probes, kind) : held' = [kind |-> "review", review |-> r]
  /\ UNCHANGED <<driver, source, prepared, plan>>

\* propose_native_topology_mapping(), with what it was computed from.
Proposal(p) ==
  [of |-> p.graph.id, rel |-> p.blob.layout.rel, names |-> p.blob.layout.names,
   contract |-> [k \in Nodes(p.graph) |->
                   LET n == Customs(p.graph)[k]
                   IN {i \in DOMAIN Groups(p) : TargetsMatch(InSpecs(p.graph.g, n), p.graph.g[n].specs, Groups(p)[i], FALSE)}],
   found |-> Propose(p.graph.g, Groups(p), p.blob.layout.rel, p.blob.layout.names,
                     p.graph.inputs, p.graph.outputs, MaxProposals)]

ProposeTopology ==
  /\ prepared # None /\ Holds("nothing") /\ plan = None                              \* bound
  /\ held' = [kind |-> "proposal", proposal |-> Proposal(prepared)]
  /\ UNCHANGED <<driver, source, prepared, plan>>

\* review_native_topology_mapping(): a proposal that is current and unique, and
\* for every custom node a coverage kind that is complete for its group.
ReviewTopology(kinds) ==
  /\ prepared # None /\ Holds("proposal")
  /\ held.proposal = Proposal(prepared)
  /\ DOMAIN kinds = Nodes(prepared.graph)
  /\ \E a \in UniqueAssignment(held.proposal.found) :
       /\ \A k \in DOMAIN a : kinds[k] \in prepared.blob.layout.complete[a[k]]
       /\ held' = [kind |-> "topology", indices |-> a, kinds |-> kinds, base |-> prepared.blob]
  /\ UNCHANGED <<driver, source, prepared, plan>>

\* _normalize_binding(): distinct indices in range, or a review that holds now.
Normalized1(p, k, value) ==
  IF "probes" \in DOMAIN value
  THEN {<<r.group>> : r \in {r \in Review(p, k, value.probes, value.kind) : r = value}}
  ELSE Require(/\ value.indices # <<>> /\ Distinct(value.indices)
               /\ value.indices \in Seq(0..(Len(Groups(p)) - 1)),
               value.indices)

\* The targets of one node: one group, projected to version 1 if it can be,
\* or a validated combination; a saved index out of range raises.
TargetsOf(p, k, indices) ==
  LET n == Customs(p.graph)[k]
      groups == [i \in DOMAIN indices |-> Groups(p)[indices[i] + 1]]
      chosen == IF indices \in Seq(0..(Len(Groups(p)) - 1))
                THEN Selected(InSpecs(p.graph.g, n), p.graph.g[n].specs, groups) ELSE {}
  IN UNION {IF Len(groups) = 1 /\ Version(t, 2) THEN OrElse(LegacyTargets(t), t) ELSE {t} : t \in chosen}

\* What was saved is ignored.
Indices_automatic(p, bindings, k) ==
  IF k \in DOMAIN bindings THEN Normalized1(p, k, bindings[k]) ELSE {a[k] : a \in Automatic(p)}

\* _resolve_bindings(): `bindings` maps some custom nodes to explicit values;
\* the others take what was saved, or else the automatic selection.
Indices(p, bindings, k) ==
  IF k \in DOMAIN bindings THEN Normalized1(p, k, bindings[k])
  ELSE {s[k] : s \in IF p.saved # {} THEN p.saved ELSE Automatic(p)}

ReviewOf(p, bindings, k) ==
  IF k \in DOMAIN bindings
  THEN IF "probes" \in DOMAIN bindings[k] THEN bindings[k] ELSE None
  ELSE p.reviews[k]

NoGroupTwice_per_node(indices) == \A k \in DOMAIN indices : Distinct(indices[k])

NoGroupTwice(indices) ==
  /\ NoGroupTwice_per_node(indices)
  /\ \A j, k \in DOMAIN indices : j # k => Range(indices[j]) \cap Range(indices[k]) = {}

Resolve(p, bindings) ==
  LET nodes == Nodes(p.graph)
  IN IF p.graph.embedded # {}
     THEN {[indices |-> [k \in nodes |-> <<>>], targets |-> e, reviews |-> NoReviews(p.graph)] :
             e \in {e \in p.graph.embedded : DOMAIN bindings = {}}}
     ELSE UNION {{[indices |-> chosen, targets |-> targets, reviews |-> [k \in nodes |-> ReviewOf(p, bindings, k)]] :
                    targets \in AllOf([k \in nodes |-> TargetsOf(p, k, chosen[k])])} :
                 chosen \in {c \in AllOf([k \in nodes |-> Indices(p, bindings, k)]) : NoGroupTwice(c)}}

\* A snapshot of the source with its definitions, and what compile_kernel()
\* made of the first source.
KernelSpec(k) == [text |-> source, defs |-> Definitions[k], compiled |-> FALSE]
CompiledKernel(k) == [text |-> 0, defs |-> Definitions[k], compiled |-> TRUE]

\* plan(): resolves the bindings and reads the source of every kernel, unless
\* the client supplies a compiled one for the node.
PlanOf(p, bindings, compiled) ==
  {[prep |-> p, indices |-> r.indices, targets |-> r.targets, reviews |-> r.reviews,
    kernels |-> [k \in Nodes(p.graph) |-> IF k \in compiled THEN CompiledKernel(k) ELSE KernelSpec(k)]] :
     r \in Resolve(p, bindings)}

Plan(bindings, compiled) ==
  /\ prepared # None /\ (Holds("nothing") \/ Holds("review"))
  /\ compiled \subseteq Nodes(prepared.graph)
  /\ \E pl \in PlanOf(prepared, bindings, compiled) : plan' = pl
  /\ UNCHANGED <<driver, source, prepared, held>>

\* BuildPlan.build(): compile and patch one custom node after another; any
\* failure raises and leaves no program.
Building(pl) ==
  [kind |-> "build", plan |-> pl, elf |-> None, reports |-> <<>>, cache |-> <<>>,
   blob |-> [native |-> pl.prep.blob, patches |-> <<>>]]

StartBuild ==
  /\ plan # None /\ Holds("nothing")
  /\ held' = Building(plan)
  /\ UNCHANGED <<driver, source, prepared, plan>>

\* PreparedGraph.build() plans and builds at once.
BuildPrepared ==
  /\ prepared # None /\ plan = None /\ Holds("nothing")
  /\ \E pl \in PlanOf(prepared, <<>>, {}) : held' = Building(pl)
  /\ UNCHANGED <<driver, source, prepared, plan>>

\* compile() prepares, plans and builds.
CompileGraph(gr, flags, layout) ==
  /\ prepared = None /\ Holds("nothing")                             \* bound
  /\ \E p \in PreparedFor(gr, flags, layout) : \E pl \in PlanOf(p, <<>>, {}) : held' = Building(pl)
  /\ UNCHANGED <<driver, source, prepared, plan>>

Step == Len(held.blob.patches) + 1
CacheKey_source(kernel) == kernel.text

CacheKey(kernel) == kernel

\* A compiled kernel is taken as it is; a source is compiled once per key.
CompileKernel ==
  /\ Holds("build") /\ held.elf = None /\ Step <= Len(held.plan.indices)
  /\ LET kernel == held.plan.kernels[Step]
         hits == {i \in DOMAIN held.cache : CacheKey(held.cache[i]) = CacheKey(kernel)}
     IN held' = [held EXCEPT
          !.elf = IF hits # {} /\ ~kernel.compiled THEN held.cache[CHOOSE i \in hits : TRUE] ELSE kernel,
          !.cache = IF hits # {} \/ kernel.compiled THEN @ ELSE Append(@, kernel)]
  /\ UNCHANGED <<driver, source, prepared, plan>>

PatchKernel ==
  /\ Holds("build") /\ held.elf # None
  /\ LET patched == [held.blob EXCEPT !.patches = Append(@, <<held.plan.targets[Step], held.elf>>)]
     IN held' = [held EXCEPT !.blob = patched, !.elf = None,
                  !.reports = Append(@, [in |-> held.blob, out |-> patched, elf |-> held.elf,
                                         count |-> Len(held.plan.targets[Step])])]
  /\ UNCHANGED <<driver, source, prepared, plan>>

\* A failed build, and a client that lets go of what it holds.
Release ==
  /\ ~Holds("nothing")
  /\ held' = Nothing
  /\ UNCHANGED <<driver, source, prepared, plan>>

FinishBuild ==
  /\ Holds("build") /\ held.elf = None /\ Step > Len(held.plan.indices)
  /\ held' = [kind |-> "program", blob |-> held.blob, reports |-> held.reports, plan |-> held.plan]
  /\ UNCHANGED <<driver, source, prepared, plan>>

\* The targets in a reviewed binding for serialised IR: version 2 only.
BindingTargets(targets) ==
  /\ targets # <<>> /\ Version(targets, 2)
  /\ Distinct([i \in DOMAIN targets |-> <<targets[i].inv, targets[i].rng>>])

\* A reviewed binding for IR that the caller serialised: the targets of one
\* custom node of this very blob.
ReviewIr(k) ==
  /\ plan # None /\ k \in DOMAIN plan.targets /\ BindingTargets(plan.targets[k]) /\ Holds("nothing")
  /\ held' = [kind |-> "binding", prep |-> plan.prep, targets |-> plan.targets[k]]
  /\ UNCHANGED <<driver, source, prepared, plan>>

\* prepare_ir() compiles the same IR again and refuses another driver or other
\* bytes; PreparedIr.build() patches it with one kernel.
CarrierReviewed(blob, reviewed) == blob.driver = reviewed.driver /\ blob = reviewed

BuildIr(layout, k) ==
  /\ Holds("binding")
  /\ LET reviewed == held.prep.blob
         native == Blob(reviewed.graph, reviewed.flags, reviewed.over, layout)
         kernel == KernelSpec(k)
         base == [native |-> native, patches |-> <<>>]
         patched == [native |-> native, patches |-> <<<<held.targets, kernel>>>>]
     IN /\ CarrierReviewed(native, reviewed)
        /\ held' = [kind |-> "program", blob |-> patched,
                    plan |-> [prep |-> held.prep, targets |-> <<held.targets>>, kernels |-> <<kernel>>],
                    reports |-> <<[in |-> base, out |-> patched, elf |-> kernel, count |-> Len(held.targets)]>>]
  /\ UNCHANGED <<driver, source, prepared, plan>>

-----------------------------------------------------------------------------
(* Bundles: `members` is what the archive holds, the other fields are the  *)
(* manifest.  The identity of a member is its content.                     *)

\* _target_json and _groups_json
TargetJson(t) ==
  IF t.v = 2 THEN [version |-> 2, invocation_index |-> t.inv, range_index |-> t.rng, target_flags |-> t.flags,
                   tensors |-> t.tensors]
  ELSE [version |-> 1, invocation_index |-> t.inv, range_index |-> t.rng, input_count |-> t.inputs,
        element_count |-> t.count, span_bytes |-> t.span, contract_flags |-> t.flags]
GroupsJson(groups) == [i \in DOMAIN groups |-> [k \in DOMAIN groups[i] |-> TargetJson(groups[i][k])]]

Probes(r) == IF r = None THEN {} ELSE r.probes

\* The names of the members: the carrier, and one per probed candidate.
CarrierName == <<0, "carrier">>
Name(q) == <<q.node, q.carrier>>

\* PreparedGraph.export(): the plan must be of this prepared graph.
Export(withPlan) ==
  LET gr == prepared.graph
      saved == withPlan /\ gr.embedded = {}
      reviews == IF saved THEN plan.reviews ELSE NoReviews(gr)
      probes == UNION {Probes(reviews[k]) : k \in Nodes(gr)}
      blobs == [n \in {Name(q) : q \in probes} |-> (CHOOSE q \in probes : Name(q) = n).cand]
  IN /\ prepared # None /\ Holds("nothing")
     /\ source = 0                                              \* bound: a bundle holds no kernel
     /\ withPlan => plan # None /\ plan.prep = prepared
     /\ held' =
          [kind |-> "bundle", graph |-> gr, flags |-> prepared.flags, carrier |-> prepared.blob,
           driver |-> prepared.blob.driver, device |-> "npu3720", groups |-> GroupsJson(Groups(prepared)),
           bindings |-> IF saved THEN {[indices |-> plan.indices, reviews |-> reviews]} ELSE {},
           candidates |-> blobs,
           members |-> [n \in DOMAIN blobs \cup {CarrierName} |-> IF n = CarrierName THEN prepared.blob ELSE blobs[n]],
           whole |-> TRUE, edited |-> FALSE]
     /\ UNCHANGED <<driver, source, prepared, plan>>

\* A member is lost, added or replaced by another blob of the same archive.
Damaged(members) ==
  LET lost == {[m \in DOMAIN members \ {x} |-> members[m]] : x \in DOMAIN members}
      added == {[m \in DOMAIN members \cup {<<0, "extra">>} |-> IF m \in DOMAIN members THEN members[m] ELSE None]}
      Replaced(x) == {[members EXCEPT ![x] = y] : y \in Range(members) \cup {None}}
  IN UNION {lost, added, UNION {Replaced(x) : x \in DOMAIN members}}

DamageBundle ==
  /\ Holds("bundle") /\ held.whole /\ ~held.edited /\ held.driver = driver             \* bound
  /\ \E m \in Damaged(held.members) :
       m # held.members /\ held' = [held EXCEPT !.members = m, !.whole = FALSE]
  /\ UNCHANGED <<driver, source, prepared, plan>>

\* Someone edits the manifest, of which there is no digest.
EditedBindings(s) ==
  LET reviewed == {k \in DOMAIN s.reviews : s.reviews[k] # None}
  IN (UNION {{[s EXCEPT !.indices[k] = i] : i \in Offers \cup {<<>>, <<0, 0>>}} : k \in DOMAIN s.indices})
     \cup (UNION {{[s EXCEPT !.reviews[k].kind = c] : c \in Kinds \cup {"other"}} : k \in reviewed})
     \cup (UNION {{[s EXCEPT !.reviews[k].probes = @ \ {q}] : q \in s.reviews[k].probes} : k \in reviewed})

EditManifest ==
  /\ Holds("bundle") /\ held.whole /\ ~held.edited /\ held.driver = driver             \* bound
  /\ held' \in {[b EXCEPT !.edited = TRUE] :
                  b \in {[held EXCEPT !.device = "other"], [held EXCEPT !.flags = {"fast"}], [held EXCEPT !.groups = <<>>]}
                       \cup {[held EXCEPT !.bindings = {s}] : s \in UNION {EditedBindings(s) : s \in held.bindings}}}
  /\ UNCHANGED <<driver, source, prepared, plan>>

\* The checks on the archive: every declared member is there with the content
\* that the manifest records, and there is no other.
MembersIntact(b) ==
  /\ DOMAIN b.members = {CarrierName} \cup DOMAIN b.candidates
  /\ b.members[CarrierName] = b.carrier
  /\ \A q \in DOMAIN b.candidates : b.members[q] = b.candidates[q]

\* _prepared_bindings: one entry per custom node, with distinct indices; a
\* review is of one group and has two to eight probes.
PreparedBindings(b, gr) ==
  \A s \in b.bindings :
    /\ DOMAIN s.indices = Nodes(gr)
    /\ \A k \in Nodes(gr) :
         /\ s.indices[k] # <<>> /\ Distinct(s.indices[k])
         /\ s.reviews[k] # None => /\ Len(s.indices[k]) = 1
                                  /\ s.reviews[k].kind \in Kinds
                                  /\ Cardinality(s.reviews[k].probes) \in 2..8

\* _prepared_identity: the IR of the caller's graph is the one saved.
PreparedIdentity(b, gr) == b.graph.id = gr.id

\* _prepared_provenance: only the NPU that is supported.
PreparedProvenance(b) == b.device = "npu3720"

SameIdentity_no_provenance(b, gr) ==
  /\ PreparedIdentity(b, gr)
  /\ b.flags \in EffectiveBuildFlags(gr, b.flags)
  /\ PreparedProvenance(b)

\* The caller's IR, the flags, the installed driver and the rediscovery.
SameIdentity(b, gr) ==
  /\ PreparedIdentity(b, gr)
  /\ b.flags \in EffectiveBuildFlags(gr, b.flags)
  /\ PreparedProvenance(b) /\ ValidatedPositionalCompiler(gr, b.driver)
  /\ b.driver = driver
  /\ b.groups = GroupsJson(Groups(NewPrepared(gr, b.flags, b.members[CarrierName], {}, NoReviews(gr))))

\* A saved review is made again from the saved candidates.
Restored(p, k, r, members) ==
  Review(p, k, {[node |-> k, carrier |-> q.carrier, base |-> p.blob, cand |-> members[Name(q)]] : q \in r.probes},
         r.kind)

\* load_prepared(): {} when it raises.
LoadPrepared(b, gr) ==
  IF ~(Preparable(gr) /\ MembersIntact(b) /\ PreparedBindings(b, gr) /\ SameIdentity(b, gr)) THEN {}
  ELSE IF b.bindings = {}
  THEN {NewPrepared(gr, b.flags, b.members[CarrierName], {}, NoReviews(gr))}
  ELSE LET saved == CHOOSE s \in b.bindings : TRUE
           bare == NewPrepared(gr, b.flags, b.members[CarrierName], {saved.indices}, NoReviews(gr))
           Again(k) == {r \in Restored(bare, k, saved.reviews[k], b.members) :
                          saved.indices[k] = <<r.group>>}
           full == [bare EXCEPT !.reviews = [k \in Nodes(gr) |->
                      IF saved.reviews[k] = None THEN None ELSE CHOOSE r \in Again(k) : TRUE]]
       IN IF \A k \in Nodes(gr) : saved.reviews[k] # None => Again(k) # {}
          THEN Require(Resolve(full, <<>>) # {}, full) ELSE {}

Load(gr) ==
  /\ Holds("bundle")
  /\ \E p \in LoadPrepared(held, gr) : prepared' = p
  /\ plan' = None
  /\ UNCHANGED <<driver, source, held>>

\* Program.export() and load(): the graph and one member per patch report.
ExportProgram ==
  /\ Holds("program")
  /\ held' = [kind |-> "artifact", blob |-> held.blob, reports |-> held.reports,
              members |-> [m \in 0..Len(held.reports) |-> IF m = 0 THEN held.blob ELSE held.reports[m]],
              whole |-> TRUE]
  /\ UNCHANGED <<driver, source, prepared, plan>>

DamageArtifact ==
  /\ Holds("artifact") /\ held.whole
  /\ \E x \in DOMAIN held.members, lost \in BOOLEAN :
       LET members == [m \in DOMAIN held.members \ (IF lost THEN {x} ELSE {}) |->
                         IF m = x THEN None ELSE held.members[m]]
       IN members # held.members /\ held' = [held EXCEPT !.whole = FALSE, !.members = members]
  /\ UNCHANGED <<driver, source, prepared, plan>>

LoadArtifact(a) ==
  Require(/\ DOMAIN a.members = 0..Len(a.reports)
          /\ a.members[0] = a.blob
          /\ \A i \in DOMAIN a.reports : a.members[i] = a.reports[i],
          [blob |-> a.members[0], reports |-> [i \in DOMAIN a.reports |-> a.members[i]]])

\* A new driver, or an edit below, is only seen by what is done next with the
\* objects named; of a bundle, one thing changes at a time.
DriverUpdate ==
  /\ driver + 1 \in Drivers
  /\ held.kind \in {"nothing", "evidence", "review", "proposal", "bundle", "binding"}   \* bound
  /\ Holds("bundle") => held.whole /\ ~held.edited /\ held.driver = driver            \* bound
  /\ driver' = driver + 1
  /\ UNCHANGED <<source, prepared, plan, held>>

EditSource ==
  /\ source < MaxEdits
  /\ held.kind \in {"nothing", "build"}                                              \* bound
  /\ source' = source + 1
  /\ UNCHANGED <<driver, prepared, plan, held>>

\* The values a client may pass for a node: explicit groups or its review.
Values(k) ==
  {[indices |-> c] : c \in Offers}
  \cup (IF Holds("review") THEN {r \in {held.review} : r.node = k} ELSE {})

Bindings ==
  {<<>>} \cup (IF prepared = None THEN {}
               ELSE (UNION {[{k} -> Values(k)] : k \in Nodes(prepared.graph)})
                    \cup (Values(1) \X Values(2)))

PNext ==
  \/ \E gr \in Graphs : \/ \E l \in Layouts(gr), f \in Flags(gr) : Prepare(gr, f, l) \/ CompileGraph(gr, f, l)
                        \/ Load(gr)
  \/ /\ prepared # None
     /\ \/ \E k \in Nodes(prepared.graph), failed \in SUBSET Carriers,
             ls \in [Carriers -> Layouts(prepared.graph)] : ProbeCandidates(k, failed, ls)
        \/ \E k \in Nodes(prepared.graph), kind \in Kinds : ReviewBinding(k, kind)
        \/ \E kinds \in [Nodes(prepared.graph) -> Kinds] : ReviewTopology(kinds)
        \/ Export(TRUE) \/ Export(FALSE)
  \/ \E b \in Bindings : Plan(b, {})
  \/ Plan(<<>>, {1})
  \/ ProposeTopology \/ BuildPrepared \/ EditManifest
  \/ StartBuild \/ CompileKernel \/ PatchKernel \/ FinishBuild \/ Release
  \/ DamageBundle \/ ExportProgram \/ DamageArtifact \/ DriverUpdate \/ EditSource
  \/ plan # None /\ \E k \in DOMAIN plan.targets : ReviewIr(k)
  \/ Holds("binding") /\ \E l \in Layouts(held.prep.blob.graph), k \in DOMAIN Definitions : BuildIr(l, k)

PSpec == PInit /\ [][PNext]_pvars

-----------------------------------------------------------------------------
\* ActGroupContract and CarrierContract, as a client writes them down.
ContractOf(targets) ==
  [input_dtypes |-> CHOOSE x \in GroupInputDtypes(targets) : TRUE,
   output_dtype |-> CHOOSE x \in GroupOutputDtype(targets) : TRUE,
   input_counts |-> CHOOSE x \in GroupInputCounts(targets) : TRUE,
   output_count |-> CHOOSE x \in GroupOutputCount(targets) : TRUE,
   target_count |-> Len(targets),
   invocations |-> {[i \in DOMAIN targets |-> targets[i].inv]}, ranges |-> {}]

\* CarrierContract.validate does not raise.
CarrierKeeps(contracts, p) ==
  /\ Len(Groups(p)) = Len(contracts)
  /\ \A i \in DOMAIN contracts : GroupKeepsContract(contracts[i], Groups(p)[i])

\* ProgramContract.validate does not raise: the reports form a chain of hashes
\* that ends in the program's graph.
ProgramKeeps(counts, prog) ==
  /\ Len(prog.reports) = Len(counts)
  /\ \A i \in DOMAIN prog.reports : prog.reports[i].count = counts[i]
  /\ \A i \in 2..Len(prog.reports) : prog.reports[i - 1].out = prog.reports[i].in
  /\ prog.reports # <<>> => Last(prog.reports).out = prog.blob

Invocations(targets) == {<<targets[i].inv, targets[i].rng>> : i \in DOMAIN targets}
InvocationsOf(groups) == UNION {Invocations(t) : t \in Range(groups)}

\* No way of planning lets two custom nodes patch the same invocation, what
\* each node patches computes its declared output, all of it if the compiler
\* partitioned it, and a program, however it was planned and built, patches no
\* invocation twice and only those that its carrier has (_resolve_bindings).
PlanSound ==
  /\ plan # None /\ plan.prep.graph.embedded = {} =>
       LET gr == plan.prep.graph
       IN \A k \in Nodes(gr) :
            /\ \A j \in Nodes(gr) \ {k} : Invocations(plan.targets[j]) \cap Invocations(plan.targets[k]) = {}
            /\ Invocations(plan.targets[k]) \subseteq InvocationsOf(Groups(plan.prep))
            /\ LET n == Customs(gr)[k]
               IN TargetsMatch(InSpecs(gr.g, n), gr.g[n].specs, plan.targets[k],
                               Len(plan.indices[k]) > 1 /\ Version(plan.targets[k], 1))
  /\ Holds("program") /\ held.plan.prep.graph.embedded = {} =>
       LET patched(k) == Invocations(held.blob.patches[k][1])
       IN \A k \in DOMAIN held.blob.patches :
            /\ \A j \in DOMAIN held.blob.patches \ {k} : patched(j) \cap patched(k) = {}
            /\ patched(k) \subseteq InvocationsOf(held.blob.native.layout.groups)

\* A reviewed binding selects the group that implements the node in the
\* carrier it is planned for, although carriers are recompiled, drivers
\* updated and evidence kept, edited or restored from a bundle meanwhile
\* (review_binding, load_prepared).
BindingsTrue ==
  plan # None => \A k \in DOMAIN plan.reviews :
    plan.reviews[k] # None => /\ plan.prep.blob.layout.truth[k] = {plan.reviews[k].group}
                              /\ plan.indices[k] = <<plan.reviews[k].group>>
                              /\ plan.reviews[k].kind \in plan.prep.blob.layout.complete[plan.reviews[k].group]

\* A reviewed topology proposal selects the group that implements each node in
\* the carrier it was reviewed for (review_native_topology_mapping).
TopologyTrue ==
  Holds("topology") => \A k \in DOMAIN held.indices :
    /\ held.base.layout.truth[k] = {held.indices[k]}
    /\ held.kinds[k] \in held.base.layout.complete[held.indices[k]]

\* Whatever way a prepared graph is obtained, its carrier is the unchanged IR
\* of the caller's graph compiled by the driver installed at that moment, which
\* was validated if groups are selected by position, and with the accuracy
\* that an f32 kernel needs (prepare, load_prepared).
CarrierIsCurrent ==
  [][prepared' # prepared => /\ prepared'.blob.graph.id = prepared'.graph.id
                             /\ prepared'.blob.over = <<>>
                             /\ prepared'.blob.driver = driver
                             /\ Groups(prepared') # <<>> => driver \in Validated
                             /\ NeedsAccuracy(prepared'.graph) => "accuracy" \in prepared'.blob.flags]_pvars

\* An undamaged bundle loads for its graph under its driver, keeps the
\* carrier's contract and plans what was exported; a damaged one is refused.
RoundTrip ==
  /\ Holds("bundle") =>
       LET groups == Groups(NewPrepared(held.graph, held.flags, held.carrier, {}, NoReviews(held.graph)))
           contracts == [i \in DOMAIN groups |-> ContractOf(groups[i])]
       IN \A loaded \in {LoadPrepared(held, held.graph)} :
            IF ~held.whole THEN loaded = {}
            ELSE held.driver = driver /\ ~held.edited =>
                   /\ loaded # {}
                   /\ \A p \in loaded :
                        /\ p.blob = held.carrier /\ CarrierKeeps(contracts, p)
                        /\ \A s \in held.bindings, r \in Resolve(p, <<>>) :
                             r.indices = s.indices /\ r.reviews = s.reviews
  /\ Holds("artifact") =>
       LoadArtifact(held) = IF held.whole THEN {[blob |-> held.blob, reports |-> held.reports]} ELSE {}

\* A program is its carrier with exactly the planned patches, in order, each
\* with the kernel as it was when the plan read it, and its reports chain.
ProgramAsPlanned ==
  Holds("program") =>
    /\ held.blob.patches = [k \in DOMAIN held.plan.targets |->
                                 <<held.plan.targets[k], held.plan.kernels[k]>>]
    /\ ProgramKeeps([k \in DOMAIN held.plan.targets |-> Len(held.plan.targets[k])], held)
=============================================================================
