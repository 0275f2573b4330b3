------------------------------ MODULE NativeApi ------------------------------
(***************************************************************************)
(* The methods of NativeLibraries (python/npunlock/_native.py): each one   *)
(* checks its arguments, calls the native library, converts what the       *)
(* result record points to into Python values and releases the record in   *)
(* a finally clause.  inspect_group_coverage does so three times and       *)
(* merges the answers.  Bytes are [id, size]; a native array is a sequence *)
(* of records; the library may return anything (external).                 *)
(***************************************************************************)
EXTENDS Maybe, Functions

CONSTANTS Methods,       \* the methods that the client calls
          Requests(_),   \* the arguments that the client passes to a method
          MaxWord,       \* the largest unsigned 32-bit number, scaled down
          Records(_, _)  \* what the k-th native call of a method may return

MethodNames == {"discover", "discover_v2", "completeness", "coverage", "relations", "symbols", "compile_ir", "query",
                "compile_shave", "patch", "compare", "infer", "infer_copied", "infer_shared"}

\* PatchTensorContract on the client's side and in the native library.
RoleNames == <<"input", "output">>
PrecisionNames == <<"f16", "f32", "i32", "i8", "i16", "u8", "u16", "u32">>
ClientTensor == [role : Range(RoleNames), index : Nat, dtype : Range(PrecisionNames), count : Nat, span : Nat]
NativeTensor == [role : Nat, index : Nat, dtype : Nat, count : Nat, span : Nat]
OfTensors(t, kind) == t = [tensors |-> t.tensors] /\ t.tensors \in Seq(kind)

\* The entry of a discovery record.
IsTarget(t) == t \in [group : Nat, target : {t.target}]

\* What the types of the arguments and of the native records say: a target is
\* of the first version or a list of tensor contracts, a name is bytes, and an
\* array has as many entries as its count says.
ASSUME NativeAssumption ==
  /\ None \notin Methods /\ Methods \subseteq MethodNames /\ MaxWord \in Nat
  /\ \A m \in Methods : \A a \in Requests(m) :
       /\ m = "patch" => /\ a.targets \in Seq(Range(a.targets))
                         /\ \A t \in Range(a.targets) : "tensors" \in DOMAIN t => OfTensors(t, ClientTensor)
       /\ m \in {"infer", "infer_copied", "infer_shared"} =>
            \A i \in DOMAIN a.inputs :
              a.inputs[i].name = None \/ a.inputs[i].name \in [id : {a.inputs[i].name.id}, size : Nat]
  /\ \A m \in Methods : \A k \in 1..3 : \A r \in Records(m, k) :
       /\ m \in {"discover", "discover_v2"} =>
            /\ r.count \in Nat /\ r.targets \in Seq(Range(r.targets))
            /\ \A t \in Range(r.targets) :
                 /\ IsTarget(t)
                 /\ m = "discover_v2" => OfTensors(t.target, NativeTensor)
       /\ m = "coverage" => r \in Seq([short : BOOLEAN, index : Nat, inv : Nat, state : {r[i].state : i \in DOMAIN r}])
       /\ m = "compare" => r.indices \in Seq(Nat) /\ r.count \in 0..Len(r.indices)

VARIABLES request,  \* the arguments of the call and what the native call gets, if any: [args, sent]
          call,     \* the method that is called, or None; it is in progress while there is no answer
          results,  \* the native result records of the call: [status, records, owned]
          groups,   \* Python values made so far
          outcome,  \* the exception or value about to leave the try block
          answer,   \* what the method returned
          releases  \* how often each result record was released

avars == <<request, call, results, groups, outcome, answer, releases>>

\* What leaves a block: nothing yet, an exception, or a value.
Nothing == [kind |-> "nothing"]
Raised == [kind |-> "raised"]
Value(v) == [kind |-> "value", value |-> v]

NoRequest == [args |-> None, sent |-> {}]

AInit ==
  /\ request = NoRequest /\ call = None /\ results = <<>> /\ groups = <<>>
  /\ outcome = Nothing /\ answer = Nothing /\ releases = <<>>

NativeCalls(m) == IF m = "coverage" THEN 3 ELSE 1

-----------------------------------------------------------------------------
(* The values.  A conversion yields one value, or nothing when it raises.  *)

\* PatchTarget and PatchTensorContract: indices fit u32, sizes are positive.
ValidTarget(t) ==
  /\ t.inv \in 0..MaxWord /\ t.rng \in 0..MaxWord
  /\ t.inputs > 0 /\ t.count > 0 /\ t.span > 0

ValidTensor(x) == x.role \in {"input", "output"} /\ x.index >= 0 /\ x.count > 0 /\ x.span > 0

\* PatchTargetV2: two to nine tensors.
ValidTargetV2(t) == Len(t.tensors) \in 2..9 /\ \A i \in DOMAIN t.tensors : ValidTensor(t.tensors[i])

\* The targets that belong to group k are listed without their group.
Grouped_merged(count, targets) == [k \in 1..count |-> [i \in DOMAIN targets |-> targets[i].target]]

Grouped(count, targets) ==
  [k \in 1..count |-> LET own == Picked(targets, {i \in DOMAIN targets : targets[i].group = k - 1})
                      IN [i \in DOMAIN own |-> own[i].target]]

\* discover_patch_targets: indices in range, no empty group.
Discovered(r) ==
  LET all == Grouped(r.count, r.targets)
  IN IF /\ \A i \in DOMAIN r.targets : r.targets[i].group < r.count /\ ValidTarget(r.targets[i].target)
        /\ \A k \in DOMAIN all : all[k] # <<>>
     THEN {all} ELSE {}

\* discover_patch_targets_v2: known roles and precisions only, by name.
TargetV2(t) ==
  [tensors |-> [k \in DOMAIN t.tensors |->
     [t.tensors[k] EXCEPT !.role = RoleNames[@], !.dtype = PrecisionNames[@]]]]

DiscoveredV2(r) ==
  IF \A i \in DOMAIN r.targets :
       LET t == r.targets[i]
       IN /\ t.group < r.count
          /\ \A k \in DOMAIN t.target.tensors : /\ t.target.tensors[k].role \in DOMAIN RoleNames
                                                /\ t.target.tensors[k].dtype \in DOMAIN PrecisionNames
          /\ ValidTargetV2(TargetV2(t.target))
  THEN LET named == [i \in DOMAIN r.targets |-> [r.targets[i] EXCEPT !.target = TargetV2(@)]]
           all == Grouped(r.count, named)
       IN Require(<<>> \notin Range(all), all)
  ELSE {}

States == {"not_observed", "incomplete", "complete"}

\* inspect_group_completeness: record i is about group i.
Completeness(records) ==
  IF \A i \in DOMAIN records : /\ ~records[i].short /\ records[i].index = i - 1
                               /\ records[i].state \in States
  THEN {records} ELSE {}

\* inspect_group_coverage: the first answer makes the groups; the others must
\* be about the same groups with the same number of invocations.
Coverage(k, made, records) ==
  IF /\ \A i \in DOMAIN records : /\ ~records[i].short /\ records[i].index = i - 1
                                  /\ records[i].state \in States
     /\ k > 1 => /\ Len(records) = Len(made)
                 /\ \A i \in DOMAIN records : records[i].inv = made[i].inv
  THEN {[i \in DOMAIN records |->
           [index |-> i - 1, inv |-> records[i].inv,
            states |-> (IF k = 1 THEN <<>> ELSE made[i].states) \o <<records[i].state>>]]}
  ELSE {}

\* ActGroupCoverage.observed_kinds and complete_kinds, as positions.
ObservedKinds(c) == {k \in DOMAIN c.states : c.states[k] # "not_observed"}
CompleteKinds(c) == {k \in DOMAIN c.states : c.states[k] = "complete"}

EndpointKinds == {"act_group", "dpu_invariant", "graph_output", "graph_input"}

\* inspect_exact_relations: known kinds and endpoints, and evidence for each.
Relations(records) ==
  IF \A i \in DOMAIN records :
       /\ ~records[i].short /\ records[i].evidence > 0
       /\ records[i].from \in EndpointKinds /\ records[i].to \in EndpointKinds
  THEN {records} ELSE {}

\* inspect_graph_io_symbols: named, sized and with an index that is not 0.
Symbols(records) ==
  IF \A i \in DOMAIN records : /\ records[i].kind \in {"input", "output"}
                               /\ records[i].index # 0 /\ records[i].size # 0 /\ records[i].name # ""
  THEN {records} ELSE {}

\* _buffer_bytes: a null pointer or an empty buffer is empty bytes.
NoBytes == [id |-> None, size |-> 0]
BufferBytes(v) == IF v.pointer # None /\ v.size > 0 THEN [id |-> v.pointer, size |-> v.size] ELSE NoBytes

\* compile_ir, query_ir_provenance, compile_shave and patch_graph.
IrCompileResult(r) == {[blob |-> BufferBytes(r.blob), selected |-> r.selected]}
QueryResult(r) == {[blob |-> NoBytes, selected |-> r.selected]}
ShaveElf(r) == {BufferBytes(r.elf)}
PatchResult(r) == {[blob |-> BufferBytes(r.blob), report |-> BufferBytes(r.report)]}

\* compare_graphs, and GraphComparison.accepted
GraphComparison(r) ==
  {[flags |-> r.flags, changed |-> SubSeq(r.indices, 1, r.count), stable |-> r.stable, unique |-> r.unique]}
AcceptedComparison(c) == c.stable /\ c.unique /\ Len(c.changed) = 1

\* _GRAPHINFER_DTYPES; any other number becomes a name of its own.
GraphinferDtypes ==
  [p \in 1..7 \cup {10, 17} |->
     CASE p = 1 -> "f32" [] p = 2 -> "f16" [] p = 3 -> "u16" [] p = 4 -> "u8" [] p = 5 -> "i32"
       [] p = 6 -> "i16" [] p = 7 -> "i8" [] p = 10 -> "u32" [] p = 17 -> "i64"]
DtypeName(precision) ==
  IF precision \in DOMAIN GraphinferDtypes THEN <<GraphinferDtypes[precision]>> ELSE <<"precision", precision>>

\* InferenceResult: the names are decoded strictly.
InferenceOutputs(r) ==
  Require(\A i \in 1..r.count : r.outputs[i].utf8,
          [i \in 1..r.count |-> LET o == r.outputs[i]
                                IN [index |-> o.index, name |-> BufferBytes(o.name), shape |-> SubSeq(o.dims, 1, o.rank),
                                    dtype |-> DtypeName(o.precision), data |-> BufferBytes(o.data)]])

Converted(m, k, made, r) ==
  CASE m = "discover"     -> Discovered(r)
    [] m = "discover_v2"  -> DiscoveredV2(r)
    [] m = "completeness" -> Completeness(r)
    [] m = "coverage"     -> Coverage(k, made, r)
    [] m = "relations"    -> Relations(r)
    [] m = "symbols"      -> Symbols(r)
    [] m = "compile_ir"   -> IrCompileResult(r)
    [] m = "query"        -> QueryResult(r)
    [] m = "compile_shave" -> ShaveElf(r)
    [] m = "patch"        -> PatchResult(r)
    [] m = "compare"      -> GraphComparison(r)
    [] m \in {"infer", "infer_copied"} -> InferenceOutputs(r)
    [] m = "infer_shared" -> {None}

-----------------------------------------------------------------------------
(* The arguments of the native calls; nothing when the method raises first. *)

\* _owned_view: empty bytes are passed as a null pointer.
View(b) == [pointer |-> IF b.size = 0 THEN None ELSE b.id, size |-> b.size]
Optional(b) == View(IF b = None THEN NoBytes ELSE b)
Views(s) == [k \in DOMAIN s |-> View(s[k])]

\* compile_ir: the native library chooses the driver and the device.
CompileIr(a) ==
  {[driver |-> MaxWord, device |-> MaxWord, worker |-> Optional(a.worker), flags |-> View(a.flags),
    xml |-> View(a.xml), weights |-> View(a.weights)]}

QueryIr(a) == {[driver |-> MaxWord, device |-> MaxWord, worker |-> Optional(a.worker), flags |-> View(NoBytes)]}

\* compile_shave: no array when there are no definitions.
CompileShave(a) ==
  {[source |-> View(a.source), script |-> Optional(a.script), worker |-> Optional(a.worker),
    definitions |-> IF a.definitions = <<>> THEN None ELSE Views(a.definitions), count |-> Len(a.definitions)]}

\* patch_graph: at least one target, all of one version; roles and dtypes
\* become numbers.
IsV2(t) == "tensors" \in DOMAIN t
Code(names, name) == CHOOSE k \in DOMAIN names : names[k] = name
NativeTargetV2(t) ==
  [tensors |-> [k \in DOMAIN t.tensors |->
     [t.tensors[k] EXCEPT !.role = Code(RoleNames, @), !.dtype = Code(PrecisionNames, @)]]]

PatchGraph(a) ==
  LET v2 == \A i \in DOMAIN a.targets : IsV2(a.targets[i])
      v1 == \A i \in DOMAIN a.targets : ~IsV2(a.targets[i])
  IN Require(a.targets # <<>> /\ (v1 \/ v2),
             [v2 |-> v2, graph |-> View(a.graph), elf |-> View(a.elf), count |-> Len(a.targets),
              targets |-> [i \in DOMAIN a.targets |-> IF v2 THEN NativeTargetV2(a.targets[i]) ELSE a.targets[i]]])

CompareGraphs(a) ==
  Require(a.graph.size > 0 /\ a.candidate.size > 0, [graph |-> View(a.graph), candidate |-> View(a.candidate)])

\* InferenceInput: an index below the largest word or a name, and some data.
ValidSelector(v) == IF v.name = None THEN v.index \in 0..(MaxWord - 1) ELSE v.name.size > 0
ValidInput(v) == ValidSelector(v) /\ v.data.size > 0

\* The largest word as an index means that the name selects the argument.
NativeSelector(v) == [index |-> IF v.name = None THEN v.index ELSE MaxWord, name |-> Optional(v.name)]

InferGraph(a) ==
  Require(a.inputs # <<>> /\ \A i \in DOMAIN a.inputs : ValidInput(a.inputs[i]),
          [graph |-> View(a.graph), inputs |-> [i \in DOMAIN a.inputs |-> NativeSelector(a.inputs[i])],
           data |-> [i \in DOMAIN a.inputs |-> View(a.inputs[i].data)]])

\* InferenceSession.infer_copied
InferCopied(a) == IF a.closed THEN {} ELSE InferGraph(a)

\* InferenceSession._binding_array: buffers that were not released.
BindingArray(bindings) ==
  Require(\A i \in DOMAIN bindings : bindings[i].live /\ ValidSelector(bindings[i]),
          [i \in DOMAIN bindings |-> NativeSelector(bindings[i])])

\* InferenceSession.infer
InferShared(a) ==
  {[inputs |-> i, outputs |-> o] : i \in {b \in BindingArray(a.inputs) : ~a.closed}, o \in BindingArray(a.outputs)}

Sent(m, a) ==
  CASE m = "compile_ir"    -> CompileIr(a)
    [] m = "query"         -> QueryIr(a)
    [] m = "compile_shave" -> CompileShave(a)
    [] m = "patch"         -> PatchGraph(a)
    [] m = "compare"       -> CompareGraphs(a)
    [] m = "infer"         -> InferGraph(a)
    [] m = "infer_copied"  -> InferCopied(a)
    [] m = "infer_shared"  -> InferShared(a)
    [] OTHER               -> {[graph |-> View(a.graph)]}      \* the discoveries and inspections

-----------------------------------------------------------------------------
Running == call # None /\ answer = Nothing

\* The arguments are checked and converted first.
Call(m, args) ==
  /\ call = None
  /\ call' = m
  /\ UNCHANGED <<results, groups, outcome, releases>>
  /\ request' = [args |-> args, sent |-> Sent(m, args)]
  /\ answer' = IF Sent(m, args) = {} THEN Raised ELSE Nothing

Current == Len(results)
Owned == Current > 0 /\ results[Current].owned
Ready == Running /\ outcome = Nothing /\ ~Owned

NativeCall(status, r) ==
  /\ Ready
  /\ results' = Append(results, [status |-> status, records |-> r, owned |-> TRUE])
  /\ releases' = Append(releases, 0)
  /\ UNCHANGED <<request, call, groups, outcome, answer>>

InTry == Running /\ Owned /\ outcome = Nothing

\* _raise(): both streams of the worker are written out, then NativeError.
Fail ==
  /\ InTry /\ results[Current].status # 0
  /\ outcome' = Raised
  /\ UNCHANGED <<request, call, results, groups, answer, releases>>

\* A worker that succeeded but wrote to stderr makes a warning, which the
\* client's filters may turn into an exception.
WarningRaises ==
  /\ InTry /\ results[Current].status = 0 /\ call \in {"compile_ir", "query", "compile_shave"}
  /\ outcome' = Raised
  /\ UNCHANGED <<request, call, results, groups, answer, releases>>

Convert ==
  /\ InTry /\ results[Current].status = 0
  /\ LET made == Converted(call, Current, groups, results[Current].records)
     IN IF made = {} THEN outcome' = Raised /\ groups' = groups
        ELSE \E v \in made : outcome' = Value(v) /\ groups' = v
  /\ UNCHANGED <<request, call, results, answer, releases>>

\* finally: the native result is released, then the exception or value goes on.
Finally ==
  /\ outcome # Nothing
  /\ results' = [results EXCEPT ![Current].owned = FALSE]
  /\ releases' = [releases EXCEPT ![Current] = @ + 1]
  /\ outcome' = Nothing
  /\ IF outcome = Raised \/ Current = NativeCalls(call)
     THEN answer' = outcome
     ELSE UNCHANGED answer
  /\ UNCHANGED <<request, call, groups>>

\* The method has returned, and its local variables are gone.
Return ==
  /\ call # None /\ ~Running
  /\ call' = None /\ request' = NoRequest /\ outcome' = Nothing /\ answer' = Nothing
  /\ results' = <<>> /\ groups' = <<>> /\ releases' = <<>>

ANext ==
  \/ \E m \in Methods : \E args \in Requests(m) : Call(m, args)
  \/ Running /\ \E status \in {0, 1}, r \in Records(call, Current + 1) : NativeCall(status, r)
  \/ Fail \/ WarningRaises \/ Convert \/ Finally \/ Return

ASpec == AInit /\ [][ANext]_avars

-----------------------------------------------------------------------------
\* A method that has returned, whichever way it left, released every native
\* result exactly once, and it took values only from calls that succeeded
\* (the finally clauses of _native.py).
ResultsReleased ==
  ~Running =>
    /\ \A k \in DOMAIN releases : releases[k] = 1
    /\ answer.kind = "value" => \A k \in DOMAIN results : results[k].status = 0

\* What the native library is asked is what the client asked: the targets of a
\* patch keep their order and number and read back as the client's, two inputs
\* stay different arguments, and an index is never taken for the mark of a name
\* (_native.py:1394, _native.py:878).
RequestFaithful ==
  \A sent \in request.sent :
    LET args == request.args
    IN /\ call = "patch" =>
            /\ sent.count = Len(sent.targets) /\ sent.count > 0
            /\ \A i \in DOMAIN args.targets :
                 args.targets[i] = IF IsV2(args.targets[i]) THEN TargetV2(sent.targets[i]) ELSE sent.targets[i]
       /\ call \in {"infer", "infer_copied", "infer_shared"} => \A i, j \in DOMAIN args.inputs :
            /\ \/ sent.inputs[i] # sent.inputs[j]
               \/ args.inputs[i].name # None /\ args.inputs[i].name = args.inputs[j].name
               \/ args.inputs[i].name = None /\ args.inputs[j].name = None /\ args.inputs[i].index = args.inputs[j].index
            /\ sent.inputs[i].index = MaxWord <=> sent.inputs[i].name.size > 0

\* A discovery v lists the targets of the record r once each, in the group that
\* the library named and in its order, without an empty group.
DiscoveryOf(v, r) ==
  LET Native(t) == IF call = "discover" THEN t ELSE NativeTargetV2(t)
  IN /\ Len(v) = r.count /\ <<>> \notin Range(v)
     /\ \A g \in DOMAIN v : Len(v[g]) = Cardinality({i \in DOMAIN r.targets : r.targets[i].group = g - 1})
     /\ \A i \in DOMAIN r.targets :
          LET g == r.targets[i].group
              before == Cardinality({j \in 1..(i - 1) : r.targets[j].group = g})
          IN Native(v[g + 1][before + 1]) = r.targets[i].target

\* A coverage v has one record per group, with what each of the three answers
\* said about that group.
CoverageOf(v) ==
  \A i \in DOMAIN v, k \in 1..3 :
    /\ Len(results[k].records) = Len(v)
    /\ results[k].records[i].index = v[i].index
    /\ results[k].records[i].inv = v[i].inv
    /\ k \in ObservedKinds(v[i]) <=> results[k].records[i].state # "not_observed"
    /\ k \in CompleteKinds(v[i]) <=> results[k].records[i].state = "complete"

\* Discovery returns every target of the library in its place, and what it
\* returns can be passed to patch_graph unchanged; coverage returns the states
\* of all three answers; outputs of different precisions have different dtypes
\* (_native.py:1477, _native.py:1508, _native.py:1625, _native.py:11).
AnswerExact ==
  answer.kind = "value" =>
    LET v == answer.value
        r == results[1].records
    IN /\ call \in {"discover", "discover_v2"} => DiscoveryOf(v, r)
       /\ call = "coverage" => CoverageOf(v)
       /\ call = "compare" /\ AcceptedComparison(v) => Len(v.changed) = r.count
       /\ call \in {"infer", "infer_copied"} => \A i, j \in DOMAIN v :
            v[i].dtype = v[j].dtype => r.outputs[i].precision = r.outputs[j].precision

\* What the methods of _native.py pass on, in both directions, and that they
\* release what they got.
ValuesExact == ResultsReleased /\ RequestFaithful /\ AnswerExact
=============================================================================
