------------------------------ MODULE Boundary ------------------------------
(***************************************************************************)
(* The boundary of a Program (python/npunlock/__init__.py, contracts.py):  *)
(* the names and specs of its tensors, run() and run_one(), the manifest   *)
(* that export() writes and the checks of load().  A name is the sequence  *)
(* of its parts, so names that a client chose and names that the code puts *)
(* together can be compared.  Bytes are [id, size].  The answers of the    *)
(* native session are external.                                            *)
(***************************************************************************)
EXTENDS Shapes

CONSTANTS Signatures,     \* graphs: [inputs, outputs], see NamedInput and OutputContract
          Provenances,    \* what the compiler reports about itself, in range or not
          MaxNumber       \* the largest number of a provenance, scaled down

\* A graph has an input and an output, and a number of its nodes says which
\* node that is (graph.py:511, __init__.py:713).
ASSUME BoundaryAssumption ==
  \A sig \in Signatures :
    /\ sig # None
    /\ sig.inputs \in Seq(Range(sig.inputs)) \ {<<>>} /\ sig.outputs \in Seq(Range(sig.outputs)) \ {<<>>}
    /\ \A j, k \in DOMAIN sig.outputs :
         sig.outputs[j].producer.node = sig.outputs[k].producer.node => sig.outputs[j].producer = sig.outputs[k].producer

VARIABLES program,        \* the Program, or None; `manifest` has the one it was loaded with, if any
          bundle,         \* the file written last: [manifest, members, edited, of], or None
          reply           \* what run() or run_one() did last: None or [values, native]

wvars == <<program, bundle, reply>>

WInit == program = None /\ bundle = None /\ reply = None

-----------------------------------------------------------------------------
(* Contracts *)

\* _EXECUTION_NUMPY_DTYPES: the size of an element, for dtypes that can be run.
ItemSize == [f16 |-> 2, f32 |-> 4, u8 |-> 1, i64 |-> 8]

SizeOf(spec) == Elements(spec.shape) * ItemSize[spec.dtype]

TensorContract(name, spec) ==
  {[name |-> name, spec |-> s] : s \in UNION {TensorSpec(spec.shape, spec.dtype) : x \in Require(name # <<>>, 0)}}

NamedInput(t) == UNION {TensorContract(t.name, t.spec) : x \in Require(t.name # None, 0)}

\* The name of a tensor is the one of its producer, if that has one output.
TensorName(t) == IF Len(t.producer.specs) = 1 THEN t.producer.name ELSE None

\* Outputs of one operator are told apart by its name only.
OutputName_no_index(t, k) ==
  LET own == IF t.producer.name \in {None, <<>>} THEN <<t.producer.op, "_", t.producer.node>> ELSE t.producer.name
      name == IF TensorName(t) = None /\ Len(t.producer.specs) > 1 THEN own ELSE TensorName(t)
  IN IF name \in {None, <<>>} THEN <<"Result", "_", k - 1>> ELSE name

\* The tensor's name, the producer's name and the position, or Result_k.
OutputName(t, k) ==
  LET own == IF t.producer.name \in {None, <<>>} THEN <<t.producer.op, "_", t.producer.node>> ELSE t.producer.name
      name == IF TensorName(t) = None /\ Len(t.producer.specs) > 1 THEN own \o <<".", t.index>> ELSE TensorName(t)
  IN IF name \in {None, <<>>} THEN <<"Result", "_", k - 1>> ELSE name

OutputContract(t, k) == TensorContract(OutputName(t, k), t.producer.specs[t.index + 1])

\* One value of each set of s, or nothing when a set is empty.
Each1(s) == Require({} \notin Range(s), [k \in DOMAIN s |-> CHOOSE v \in s[k] : TRUE])

\* Program.__post_init__
NewProgram(sig, code, provenance, reports) ==
  {[blob |-> code, graph |-> sig, ir |-> provenance, manifest |-> {}, reports |-> reports,
    inputs |-> i, outputs |-> o] :
     i \in Each1([k \in DOMAIN sig.inputs |-> NamedInput(sig.inputs[k])]),
     o \in Each1([k \in DOMAIN sig.outputs |-> OutputContract(sig.outputs[k], k)])}

Names(contracts) == {contracts[k].name : k \in DOMAIN contracts}

\* NpuProvenance
ProvenanceOf(json) ==
  Require(json.driver \in 0..MaxNumber /\ Len(json.compiler) = 2 /\ Range(json.compiler) \subseteq 0..MaxNumber, json)

\* Program.provenance: from the compiler, or from the manifest; it may raise.
Provenance(p) ==
  CASE p.ir # None -> ProvenanceOf(p.ir)
    [] p.ir = None /\ p.manifest = {} -> {None}
    [] p.ir = None /\ p.manifest # {} ->
         UNION {IF m.provenance = None THEN {None} ELSE ProvenanceOf(m.provenance) : m \in p.manifest}

\* PatchReport.parse and Program.patch_evidence
Evidence(p) ==
  Each1([k \in DOMAIN p.reports |->
           Require(p.reports[k].schema \in {"v1", "v2"} /\ p.reports[k].preserved, p.reports[k])])

-----------------------------------------------------------------------------
(* Making and running programs *)

Raised1 == [values |-> None, native |-> None]

\* BuildPlan.build made the program from the graph.
Built(sig, provenance, reports) ==
  /\ program = None
  /\ \E p \in NewProgram(sig, [id |-> "graph", size |-> 1, sig |-> sig], provenance, reports) : program' = p
  /\ UNCHANGED <<bundle, reply>>

\* load_native: the client says which graph the bytes are.
LoadNative(sig, claimed, size) ==
  /\ program = None /\ size > 0
  /\ \E p \in NewProgram(claimed, [id |-> "graph", size |-> size, sig |-> sig], None, <<>>) : program' = p
  /\ UNCHANGED <<bundle, reply>>

\* What the session returns: one output per result of the compiled graph, or
\* something else.
NativeOutputs(code) ==
  LET right == [k \in DOMAIN code.sig.outputs |->
                  LET t == code.sig.outputs[k]
                      spec == t.producer.specs[t.index + 1]
                  IN [spec |-> spec, id |-> <<t.producer.node, t.index>>,
                      size |-> IF spec.dtype \in DOMAIN ItemSize THEN SizeOf(spec) ELSE 0]]
  IN {right, SubSeq(right, 1, Len(right) - 1), [right EXCEPT ![1].size = @ + 1]}

\* The arrays that run() accepts: exactly the names, with dtypes and shapes.
InputsFit(p, arrays) ==
  /\ DOMAIN arrays = Names(p.inputs)
  /\ \A k \in DOMAIN p.inputs : /\ p.inputs[k].spec.dtype \in DOMAIN ItemSize
                                /\ arrays[p.inputs[k].name] = p.inputs[k].spec

OutputsFit(p, native) ==
  /\ Len(native) = Len(p.outputs)
  /\ \A k \in DOMAIN native : /\ p.outputs[k].spec.dtype \in DOMAIN ItemSize
                              /\ native[k].spec = p.outputs[k].spec
                              /\ native[k].size = SizeOf(p.outputs[k].spec)

\* The values by name: the last output of a name wins.
ValuesOf(p, native) ==
  [n \in Names(p.outputs) |-> native[Max({k \in DOMAIN native : p.outputs[k].name = n})]]

RunProgram(arrays) ==
  /\ program # None
  /\ \/ ~InputsFit(program, arrays) /\ reply' = Raised1
     \/ InputsFit(program, arrays) /\ reply' = Raised1       \* no session, or the native call failed
     \/ /\ InputsFit(program, arrays)
        /\ \E native \in NativeOutputs(program.blob) :
             reply' = IF OutputsFit(program, native) THEN [values |-> ValuesOf(program, native), native |-> native]
                      ELSE Raised1
  /\ UNCHANGED <<program, bundle>>

\* run_one(): one input and one output.
RunOne(array) ==
  /\ program # None
  /\ \/ /\ <<Len(program.inputs), Len(program.outputs)>> # <<1, 1>>
        /\ reply' = Raised1 /\ UNCHANGED <<program, bundle>>
     \/ /\ <<Len(program.inputs), Len(program.outputs)>> = <<1, 1>>
        /\ RunProgram([n \in Names(program.inputs) |-> array])

-----------------------------------------------------------------------------
(* export() and load() *)

\* ArtifactIdentity
Entry(path, bytes) == [path |-> path, size |-> bytes.size, sha256 |-> bytes.id]
ReportPath(k) == <<"patch-reports", k>>
GraphPath == <<"graph.blob">>
Other == <<"other">>

\* Program.manifest
Manifest(p) ==
  {[schema |-> "npunlock.program.v1", graph |-> Entry(GraphPath, p.blob), inputs |-> p.inputs, outputs |-> p.outputs,
    provenance |-> v, reports |-> [k \in DOMAIN p.reports |-> Entry(ReportPath(k), p.reports[k])]] :
     v \in Provenance(p)}

ExportBundle ==
  /\ program # None
  /\ \E m \in Manifest(program) :
       bundle' = [manifest |-> m, edited |-> FALSE, of |-> program,
                  members |-> [x \in {GraphPath} \cup {ReportPath(k) : k \in DOMAIN program.reports} |->
                                 IF x = GraphPath THEN program.blob ELSE program.reports[x[2]]]]
  /\ UNCHANGED <<program, reply>>

\* Someone edits the file: the manifest itself is not hashed.
Damaged(b) ==
  {[b EXCEPT !.manifest.schema = "other"], [b EXCEPT !.manifest.graph.path = Other],
   [b EXCEPT !.manifest.graph.size = 0], [b EXCEPT !.manifest.graph.sha256 = "other"],
   [b EXCEPT !.manifest.provenance = [driver |-> 0, compiler |-> <<0>>]],
   [b EXCEPT !.manifest.reports = @ \o <<Entry(Other, b.of.blob)>>],
   [b EXCEPT !.members = [x \in DOMAIN @ \cup {Other} |-> IF x = Other THEN b.of.blob ELSE @[x]]],
   [b EXCEPT !.members = [x \in DOMAIN @ \ {GraphPath} |-> @[x]]]}

Retyped(b) ==
  {[b EXCEPT !.manifest.outputs = <<>>], [b EXCEPT !.manifest.outputs[1].name = <<>>],
   [b EXCEPT !.manifest.outputs[1].spec.dtype = "boolean"],
   [b EXCEPT !.manifest.outputs[1].spec.shape = <<1, 1, 1, 1, 1, 1>>],
   [b EXCEPT !.manifest.outputs[1].spec.shape = <<3>>],
   [b EXCEPT !.manifest.outputs = @ \o <<@[1]>>], [b EXCEPT !.manifest.inputs = @ \o <<@[1]>>]}

\* A report is replaced by one that says something else, and its hash with it.
Forged(b, k, id) ==
  [b EXCEPT !.members = [@ EXCEPT ![ReportPath(k)].preserved = FALSE, ![ReportPath(k)].id = id],
            !.manifest.reports[k].sha256 = "forged"]

Edits(b) ==
  Damaged(b) \cup Retyped(b)
    \cup {Forged(b, k, id) : k \in DOMAIN b.manifest.reports, id \in {"forged", "other"}}

EditBundle ==
  /\ bundle # None /\ ~bundle.edited
  /\ \E b \in Edits(bundle) : bundle' = [b EXCEPT !.edited = TRUE]
  /\ UNCHANGED <<program, reply>>

\* _manifest_contracts: no name twice, and only what can be run.
ManifestContracts(contracts) ==
  {c \in Each1([k \in DOMAIN contracts |-> TensorContract(contracts[k].name, contracts[k].spec)]) :
     /\ c # <<>> /\ Cardinality(Names(c)) = Len(c)
     /\ \A k \in DOMAIN c : c[k].spec.dtype \in DOMAIN ItemSize /\ Len(c[k].spec.shape) <= 5}

\* _manifest_blob_entry and _bundle_member: the bytes that an entry names.
Member(members, entry, path) ==
  {x \in {members[p] : p \in {entry.path} \cap DOMAIN members} :
     entry.path = path /\ x.size = entry.size /\ x.id = entry.sha256}

\* The reports that the manifest names.
Reports(members, entries) == Each1([k \in DOMAIN entries |-> Member(members, entries[k], ReportPath(k))])

\* load(): the members are exactly the ones that the manifest declares.
LoadedProgram(b) ==
  LET m == b.manifest
      paths == {GraphPath} \cup {ReportPath(k) : k \in DOMAIN m.reports}
  IN IF m.schema # "npunlock.program.v1" \/ m.graph.size = 0 \/ DOMAIN b.members # paths THEN {}
     ELSE {[blob |-> x, graph |-> None, ir |-> None, manifest |-> {m}, reports |-> r, inputs |-> i, outputs |-> o] :
             x \in Member(b.members, m.graph, GraphPath),
             r \in Reports(b.members, m.reports),
             i \in ManifestContracts(m.inputs), o \in ManifestContracts(m.outputs)}

LoadBundle ==
  /\ bundle # None
  /\ \E p \in LoadedProgram(bundle) : program' = p
  /\ reply' = None
  /\ UNCHANGED bundle

\* Arguments: what the contracts ask for, or one thing wrong.
Arguments(p) ==
  LET right == [n \in Names(p.inputs) |-> p.inputs[Max({k \in DOMAIN p.inputs : p.inputs[k].name = n})].spec]
  IN {right, [n \in DOMAIN right \cup {Other} |-> [shape |-> <<1>>, dtype |-> "f16"]],
      [n \in DOMAIN right |-> [right[n] EXCEPT !.dtype = "u8"]]}

WNext ==
  \/ \E sig \in Signatures, v \in Provenances, n \in 0..1 :
       Built(sig, v, [k \in 1..n |-> [id |-> "report", size |-> 1, schema |-> "v2", preserved |-> TRUE]])
  \/ \E sig, claimed \in Signatures : LoadNative(sig, claimed, 1)
  \/ program # None /\ \E arrays \in Arguments(program) : RunProgram(arrays)
  \/ program # None /\ RunOne(program.inputs[1].spec)
  \/ ExportBundle \/ EditBundle \/ LoadBundle

WSpec == WInit /\ [][WNext]_wvars

-----------------------------------------------------------------------------
\* run() returns every output of the compiled graph under its own name, with
\* the declared spec: results without a name do not hide each other; only an
\* output of an operator that the client named can take the name of another
\* one (__init__.py:704).
EveryOutputReturned ==
  (reply # None /\ reply # Raised1 /\ program.graph \in {None, program.blob.sig}) => \A k \in DOMAIN program.outputs :
    LET name == program.outputs[k].name
        hidden == {j \in DOMAIN program.outputs : j > k /\ program.outputs[j].name = name}
    IN \/ reply.values[name] = reply.native[k] /\ reply.native[k].spec = program.outputs[k].spec
       \/ \E j \in hidden : \/ reply.native[j] = reply.native[k]
                           \/ \E i \in {j, k} : program.graph.outputs[i].producer.name \notin {None, <<>>}

\* A bundle that nobody edited gives back the program it was made from, and it
\* is refused only for a tensor that cannot be saved; whatever was edited, a
\* program that loads has distinct names and only tensors that can be run, and
\* its graph is the one that was exported (__init__.py:1098, __init__.py:1146).
BundleFaithful ==
  bundle # None =>
    LET loaded == LoadedProgram(bundle)
        of == bundle.of
        tensors == of.inputs \o of.outputs
    IN /\ ~bundle.edited =>
            /\ \A p \in loaded :
                 /\ p.inputs = of.inputs /\ p.outputs = of.outputs /\ p.blob = of.blob
                 /\ Evidence(p) = Evidence(of) /\ Provenance(p) = Provenance(of)
            /\ loaded = {} <=>
                 \/ Cardinality(Names(of.inputs)) < Len(of.inputs)
                 \/ Cardinality(Names(of.outputs)) < Len(of.outputs)
                 \/ \E k \in DOMAIN tensors : \/ tensors[k].spec.dtype \notin DOMAIN ItemSize
                                              \/ Len(tensors[k].spec.shape) > 5
       /\ \A p \in loaded : /\ p.blob = of.blob
                            /\ Cardinality(Names(p.outputs)) = Len(p.outputs)
                            /\ p.reports = of.reports \/ Evidence(p) = {}

\* What a client sees of a program's boundary.
BoundaryExact == EveryOutputReturned /\ BundleFaithful
=============================================================================
