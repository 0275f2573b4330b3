--------------------------- MODULE MCApplications ---------------------------
(***************************************************************************)
(* Small instances of seven sequential parts of the Python code that share  *)
(* no state: building a graph, the boundary of a program, calling the      *)
(* native library, the forests of the XGBoost application, the tracker, its *)
(* assignments, and the HNSW search.  `part` says which one a behaviour is *)
(* about; the others stay in their initial states.                         *)
(***************************************************************************)
EXTENDS GraphBuild, Boundary, NativeApi, Forest, Assignment, ByteTrack, Hnsw

VARIABLE part

\* Specs of the inputs and constants of a graph.
MCInputSpecs == {[shape |-> <<2>>, dtype |-> "f16"], [shape |-> <<1>>, dtype |-> "f32"]}

\* Graphs for programs: one output or two, outputs of one operator, with and
\* without names, names that clash, and tensors that cannot be saved.
Producer(name, op, node, specs) == [name |-> name, op |-> op, node |-> node, specs |-> specs]
Half == [shape |-> <<2>>, dtype |-> "f16"]
Made(producer, index) == [producer |-> producer, index |-> index]
Named(n) == [name |-> <<n>>, spec |-> Half]
Halves(name, node) == Producer(name, "Split", node, <<Half, Half>>)
MCSignatures ==
  {[inputs |-> <<Named("x")>>, outputs |-> o] :
     o \in {<<Made(Producer(None, "Relu", 1, <<Half>>), 0)>>, <<Made(Producer(<<>>, "Relu", 1, <<[shape |-> <<3>>, dtype |-> "f32"]>>), 0)>>,
            <<Made(Producer(None, "Relu", 1, <<Half>>), 0), Made(Producer(<<"a">>, "Add", 2, <<Half>>), 0)>>,
            <<Made(Halves(None, 1), 0), Made(Halves(None, 1), 1)>>, <<Made(Halves(<<"s">>, 1), 1), Made(Halves(<<"s">>, 1), 0)>>,
            <<Made(Halves(None, 1), 1), Made(Halves(None, 2), 1)>>, <<Made(Halves(None, 1), 0), Made(Halves(None, 1), 0)>>,
            <<Made(Halves(<<"s">>, 1), 0), Made(Halves(<<"s">>, 2), 0)>>,
            <<Made(Producer(<<"a">>, "Relu", 1, <<Half>>), 0), Made(Producer(<<"a">>, "Add", 2, <<Half>>), 0)>>,
            <<Made(Producer(<<"Result", "_", 1>>, "Relu", 1, <<Half>>), 0), Made(Producer(None, "Add", 2, <<Half>>), 0)>>,
            <<Made(Producer(None, "Less", 1, <<[shape |-> <<2>>, dtype |-> "boolean"]>>), 0)>>,
            <<Made(Producer(None, "Relu", 1, <<[shape |-> <<1, 1, 1, 1, 1, 1>>, dtype |-> "f16"]>>), 0)>>}}
  \cup {[inputs |-> <<Named("x"), Named(n)>>, outputs |-> <<Made(Producer(None, "Add", 2, <<Half>>), 0)>>] : n \in {"x", "y"}}
MCProvenances == {None, [driver |-> 1, compiler |-> <<8, 3>>], [driver |-> 99, compiler |-> <<8, 3>>]}

Tuples(S, lengths) == UNION {[1..n -> S] : n \in lengths}
T1(i, n) == [inv |-> i, rng |-> 0, inputs |-> 1, count |-> n, span |-> 2]
X(role, dtype) == [role |-> role, index |-> 0, dtype |-> dtype, count |-> 1, span |-> 2]
T2(n) == [tensors |-> [k \in 1..n |-> X(IF k = n THEN 2 ELSE 1, k)]]
Odd(role, dtype) == [tensors |-> <<X(1, 1), X(role, dtype)>>]
ClientT2(n) == [tensors |-> [k \in 1..n |-> X(IF k = n THEN "output" ELSE "input", IF k = 1 THEN "u32" ELSE "f16")]]

MCMethods == {"compile_ir", "query", "compile_shave", "patch", "compare", "infer", "infer_copied", "infer_shared",
              "discover", "discover_v2", "completeness", "coverage", "relations", "symbols"}

\* What the client passes to each method.
NativeBytes(n) == [id |-> "bytes", size |-> n]
Selectors == {[name |-> None, index |-> i] : i \in 0..MaxWord} \cup {[name |-> NativeBytes(n), index |-> 0] : n \in 0..1}
Inputs1(n) == Tuples({s @@ [data |-> NativeBytes(1)] : s \in Selectors}, 0..n) \cup {<<[name |-> None, index |-> 0, data |-> NoBytes]>>}
Bindings(n) == Tuples([name : {None, NativeBytes(0), NativeBytes(1)}, index : {0, MaxWord}, live : BOOLEAN], 0..n)
MCRequests(m) ==
  CASE m = "compile_ir" -> [xml : {NativeBytes(1)}, weights : {NoBytes, NativeBytes(1)}, flags : {NoBytes}, worker : {None, NativeBytes(1)}]
    [] m = "query" -> [worker : {None, NativeBytes(1)}]
    [] m = "compile_shave" -> [source : {NativeBytes(1)}, script : {None}, worker : {None}, definitions : Tuples({NativeBytes(1)}, 0..2)]
    [] m = "patch" -> [graph : {NativeBytes(1)}, elf : {NativeBytes(1)}, targets : Tuples({T1(0, 1), T1(1, 1), ClientT2(2), ClientT2(3)}, 0..2)]
    [] m = "compare" -> [graph : {NoBytes, NativeBytes(1)}, candidate : {NoBytes, NativeBytes(1)}]
    [] m = "infer" -> [graph : {NativeBytes(1)}, inputs : Inputs1(2)]
    [] m = "infer_copied" -> [graph : {NativeBytes(1)}, inputs : Inputs1(1), closed : BOOLEAN]
    [] m = "infer_shared" -> [inputs : Bindings(2), outputs : Bindings(1), closed : {FALSE}]
                             \cup [inputs : {<<>>}, outputs : {<<>>}, closed : BOOLEAN]
    [] OTHER -> [graph : {NativeBytes(1)}]

\* What the native library returns to each method, valid or not.
Filled(n) == [pointer |-> IF n = 0 THEN None ELSE "made", size |-> n]
Output1(utf8, precision, rank) ==
  [utf8 |-> utf8, index |-> 0, name |-> Filled(1), dims |-> <<2, 1>>, rank |-> rank, precision |-> precision, data |-> Filled(1)]
MCRecords(m, k) ==
  CASE m = "discover" ->
         [count : 0..2, targets : Tuples([group : 0..2, target : {T1(0, 1), T1(4, 1), T1(1, 0)}], 0..2)]
    [] m = "discover_v2" ->
         [count : 1..2, targets : Tuples([group : 0..2, target : {T2(1), T2(2), T2(3), Odd(3, 1), Odd(2, 9)}], 1..2)]
    [] m = "completeness" -> Tuples([short : BOOLEAN, index : 0..1, state : {"complete", "other"}], 0..2)
    [] m = "coverage" ->
         Tuples([short : {FALSE}, index : 0..1, inv : 1..2, state : {"complete", "incomplete"}], 0..1)
           \cup {<<[short |-> FALSE, index |-> 0, inv |-> i, state |-> "complete"],
                   [short |-> s, index |-> 1, inv |-> j, state |-> t]>> :
                  i, j \in 1..2, s \in BOOLEAN, t \in {"not_observed", "other"}}
    [] m = "relations" ->
         Tuples([short : BOOLEAN, evidence : 0..1, from : {"act_group", "other"}, to : {"graph_output"}], 0..1)
    [] m = "symbols" -> Tuples([kind : {"input", "other"}, index : 0..1, size : 0..1, name : {"", "x"}], 0..1)
    [] m \in {"compile_ir", "query"} -> [blob : {Filled(0), Filled(1)}, selected : 0..1]
    [] m = "compile_shave" -> [elf : {Filled(0), Filled(1)}]
    [] m = "patch" -> [blob : {Filled(1)}, report : {Filled(0), Filled(1)}]
    [] m = "compare" -> [flags : 0..1, indices : {<<0, 1>>}, count : 0..2, stable : BOOLEAN, unique : BOOLEAN]
    [] m \in {"infer", "infer_copied"} ->
         [count : 0..2, outputs : {<<Output1(TRUE, 2, 1), Output1(TRUE, 2, 2)>>, <<Output1(TRUE, 1, 1), Output1(TRUE, 9, 0)>>,
                                   <<Output1(TRUE, 8, 1), Output1(FALSE, 10, 1)>>}]
    [] m = "infer_shared" -> {None}

\* Forests for one and for two kernels, and forests that are refused.
LeafNode(v) == [left |-> -1, right |-> -1, feature |-> 0, value |-> v, default |-> FALSE]
SplitNode(l, r, f, v, d) == [left |-> l, right |-> r, feature |-> f, value |-> v, default |-> d]
Single(v) == <<LeafNode(v)>>
Stump(f, d) == <<SplitNode(1, 2, f, 1, d), LeafNode(10), LeafNode(11)>>
Five(f) == <<SplitNode(3, 1, 0, 1, FALSE), SplitNode(2, 4, f, 2, TRUE), LeafNode(20), LeafNode(21), LeafNode(22)>>
Cyclic == <<LeafNode(1), SplitNode(2, 1, 0, 1, TRUE), LeafNode(3)>>
Wide == [n \in 1..9 |-> IF n % 2 = 0 \/ n = 9 THEN LeafNode(n) ELSE SplitNode(n, n + 1, 0, n, TRUE)]

Small(f) == {<<Stump(f - 1, f = 3)>>, <<Single(Huge), Single(5), Single(Huge)>>, <<Five(f - 1)>>}
Large(f) == {<<Stump(0, FALSE), Five(f - 1)>>, <<Five(0), Stump(f - 1, TRUE), Single(4)>>,
             <<Single(Huge), Five(f - 1), Single(Huge)>>}
Refused == {<<Cyclic>>, <<Wide>>, <<Five(0), Five(0), Five(0)>>, <<Single(1), Single(2), Single(3), Single(4), Single(5)>>}
MCModels == {[features |-> f, base |-> 7, trees |-> t] : f \in {1, 3}, t \in UNION {Small(1), Large(1), Refused}}
       \cup {[features |-> 3, base |-> 0, trees |-> t] : t \in Small(3) \cup Large(3)}
MCRows(f, n, v) == [i \in 1..n |-> [k \in 1..f |-> IF (i + k + v) % 3 = 2 THEN NaN ELSE (i + k + v) % 3]]
MCBatches == {MCRows(f, n, v) : f \in {1, 3}, n \in {0, 1, 3, 5, 9}, v \in 0..1}

\* Assignment problems: square, wide and tall ones, empty ones and ones that
\* are refused; a device that may answer anything solves a few of them.
Costed(r, c, values, forbidden, threshold) ==
  {[rows |-> r, columns |-> c, costs |-> m, forbidden |-> forbidden, threshold |-> threshold] :
     m \in [(0..(r - 1)) \X (0..(c - 1)) -> values]}
MCDistrusted == Costed(2, 2, {0, 3}, {<<0, 0>>}, 4) \cup Costed(2, 1, {0, 5}, {}, 4)
MCProblems ==
  UNION {Costed(2, 2, {0, 1, 3, NotFinite}, {}, 4), Costed(3, 2, {0, 3}, {}, 4), Costed(3, 2, {1, 3}, {<<0, 1>>}, 4),
         Costed(2, 3, {0, 3}, {}, 5), Costed(2, 2, {0}, {}, -1), Costed(2, 2, {0}, {}, 0),
         Costed(2, 2, {0}, {}, NotFinite), Costed(2, 0, {0}, {}, 4), Costed(0, 0, {0}, {}, 4),
         Costed(4, 1, {0}, {}, 4), Costed(1, 1, {0}, {<<1, 1>>}, 4), MCDistrusted}

\* Graphs with one link and with several per node, ties in the plane, more
\* links than the kernel takes, and builds that are refused; batches of one to
\* three queries of both dimensions, a far one, and ones that are refused.
MCBuild(vectors, m, ef) == [vectors |-> vectors, m |-> m, ef_construction |-> ef, max_levels |-> 2]
Line(s) == [n \in DOMAIN s |-> <<s[n]>>]
MCBuilds ==
  {MCBuild(Line(<<0, 3, 1, 2>>), m, m) : m \in {1, 3}}
  \cup {MCBuild(Line(<<5, 0, 4, 9>>), 2, 2), MCBuild(<<<<0, 1>>, <<1, 0>>, <<1, 1>>, <<0, 1>>>>, 2, 3),
        MCBuild(Line(<<0, NonFinite>>), 1, 1), MCBuild(Line(<<0, 1>>), 2, 1)}
Ask(queries, k, ef, verify) == [queries |-> queries, k |-> k, ef_search |-> ef, verify |-> verify]
MCSearches ==
  {Ask(Line(<<2>>), 1, 1, FALSE), Ask(Line(<<2, 0, 6>>), 2, 3, TRUE), Ask(Line(<<1, 4>>), 2, 4, TRUE),
   Ask(Line(<<12>>), 2, 2, TRUE), Ask(<<<<1, 0>>, <<0, 0>>>>, 2, 4, TRUE), Ask(<<<<0, 1>>>>, 2, 2, TRUE),
   Ask(Line(<<NonFinite>>), 1, 1, TRUE), Ask(Line(<<1>>), 3, 2, TRUE)}

Init == /\ BInit /\ AInit /\ FInit /\ TInit /\ GInit /\ WInit /\ HInit
        /\ part \in {"graph", "boundary", "native", "forest", "tracker", "assignment", "hnsw"}
Next == \/ part = "graph"   /\ BNext /\ UNCHANGED <<avars, fvars, tvars, gvars, wvars, hvars, part>>
        \/ part = "native"  /\ ANext /\ UNCHANGED <<bvars, fvars, tvars, gvars, wvars, hvars, part>>
        \/ part = "forest"  /\ FNext /\ UNCHANGED <<bvars, avars, tvars, gvars, wvars, hvars, part>>
        \/ part = "tracker" /\ TNext /\ UNCHANGED <<bvars, avars, fvars, gvars, wvars, hvars, part>>
        \/ part = "assignment" /\ GNext /\ UNCHANGED <<bvars, avars, fvars, tvars, wvars, hvars, part>>
        \/ part = "boundary" /\ WNext /\ UNCHANGED <<bvars, avars, fvars, tvars, gvars, hvars, part>>
        \/ part = "hnsw" /\ HNext /\ UNCHANGED <<bvars, avars, fvars, tvars, gvars, wvars, part>>
Spec == Init /\ [][Next]_<<bvars, avars, fvars, tvars, gvars, wvars, hvars, part>>
=============================================================================
