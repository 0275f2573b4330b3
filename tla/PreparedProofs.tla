--------------------------- MODULE PreparedProofs ---------------------------
(***************************************************************************)
(* Proofs about Prepared, for every graph, layout, driver and history of   *)
(* the client: the carrier of a prepared graph is the current one, a       *)
(* reviewed binding names the group that implements its node, a program is *)
(* its carrier with exactly the planned patches, and what is planned       *)
(* computes what the nodes declare and patches no invocation twice, and    *)
(* what is exported loads as it was or not at all.                         *)
(***************************************************************************)
EXTENDS Prepared, FiniteSetTheorems, NaturalsInduction, WellFoundedInduction, TLAPS

-----------------------------------------------------------------------------
(* The carrier.                                                            *)

\* A carrier of a graph is compiled from the IR of the graph itself, and with
\* the accuracy that it needs.
CarrierFor(blob, gr) ==
  /\ blob.graph.id = gr.id
  /\ blob.over = <<>>
  /\ NeedsAccuracy(gr) => "accuracy" \in blob.flags

\* A bundle holds a carrier of its graph, and its manifest is true of it as
\* long as nobody edits it; nobody can make the carrier more accurate.
BundleCarrier(b) ==
  /\ CarrierFor(b.carrier, b.graph)
  /\ b.carrier.driver = b.driver
  /\ "accuracy" \in b.flags => "accuracy" \in b.carrier.flags

BundleFields == {"kind", "graph", "flags", "carrier", "driver", "device", "groups", "bindings",
                 "candidates", "members", "whole", "edited"}

CarrierInv ==
  /\ "kind" \in DOMAIN held
  /\ prepared # None => /\ CarrierFor(prepared.blob, prepared.graph)
                        /\ "accuracy" \in prepared.flags => "accuracy" \in prepared.blob.flags
  /\ Holds("bundle") => DOMAIN held = BundleFields /\ BundleCarrier(held)

\* What CarrierIsCurrent asks of a new prepared graph.
Current(p) ==
  /\ p.blob.graph.id = p.graph.id
  /\ p.blob.over = <<>>
  /\ p.blob.driver = driver
  /\ Groups(p) # <<>> => driver \in Validated
  /\ NeedsAccuracy(p.graph) => "accuracy" \in p.blob.flags

LEMMA PreparedCurrent ==
  ASSUME NEW gr, NEW flags, NEW layout, NEW p \in PreparedFor(gr, flags, layout)
  PROVE  /\ Current(p) /\ CarrierFor(p.blob, p.graph)
         /\ "accuracy" \in p.flags => "accuracy" \in p.blob.flags
<1>1. PICK f : /\ p = NewPrepared(gr, f, Blob(gr, f, <<>>, layout), {}, NoReviews(gr))
               /\ f \in EffectiveBuildFlags(gr, flags)
               /\ ValidatedPositionalCompiler(gr, driver)
  BY DEF PreparedFor
<1>2. /\ p.graph = gr /\ p.blob.graph = gr /\ p.blob.over = <<>> /\ p.blob.driver = driver
      /\ p.blob.flags = f /\ p.flags = f
  BY <1>1 DEF NewPrepared, Blob
<1>3. NeedsAccuracy(gr) => "accuracy" \in f
  BY <1>1 DEF EffectiveBuildFlags, Require
<1>4. Groups(p) # <<>> => driver \in Validated
  BY <1>1, <1>2 DEF Groups, ValidatedPositionalCompiler
<1> QED
  BY <1>2, <1>3, <1>4 DEF Current, CarrierFor

\* What is loaded has the carrier that the manifest declares.
LEMMA LoadedCarrier ==
  ASSUME NEW b, NEW gr, NEW p \in LoadPrepared(b, gr)
  PROVE  p.graph = gr /\ p.flags = b.flags /\ p.blob = b.carrier
<1>1. p.graph = gr /\ p.flags = b.flags /\ p.blob = b.members[CarrierName]
  <2>1. CASE b.bindings = {}
    BY <2>1 DEF LoadPrepared, NewPrepared
  <2>2. CASE b.bindings # {}
    BY <2>2 DEF LoadPrepared, NewPrepared, Require
  <2> QED BY <2>1, <2>2
<1>2. b.members[CarrierName] = b.carrier
  BY DEF LoadPrepared, MembersIntact
<1> QED BY <1>1, <1>2

LEMMA LoadedCurrent ==
  ASSUME NEW b, NEW gr, BundleCarrier(b), NEW p \in LoadPrepared(b, gr)
  PROVE  /\ Current(p) /\ CarrierFor(p.blob, p.graph)
         /\ "accuracy" \in p.flags => "accuracy" \in p.blob.flags
<1>1. SameIdentity(b, gr)
  BY DEF LoadPrepared
<1>2. p.graph = gr /\ p.flags = b.flags /\ p.blob = b.carrier
  BY LoadedCarrier
<1>3. /\ b.graph.id = gr.id /\ b.driver = driver
      /\ b.flags \in EffectiveBuildFlags(gr, b.flags) /\ ValidatedPositionalCompiler(gr, b.driver)
  BY <1>1 DEF SameIdentity, PreparedIdentity
<1>4. NeedsAccuracy(gr) => "accuracy" \in b.flags
  BY <1>3 DEF EffectiveBuildFlags, Require
<1>5. Groups(p) # <<>> => driver \in Validated
  BY <1>2, <1>3 DEF Groups, ValidatedPositionalCompiler
<1> QED
  BY <1>2, <1>3, <1>4, <1>5 DEF Current, CarrierFor, BundleCarrier

LEMMA CarrierInit == PInit => CarrierInv
BY DEF PInit, CarrierInv, Nothing, Holds

\* Neither damage nor an edit changes the carrier that the manifest declares.
LEMMA BundleEdits ==
  ASSUME DOMAIN held = BundleFields, DamageBundle \/ EditManifest
  PROVE  /\ UNCHANGED <<prepared, plan>> /\ DOMAIN held' = BundleFields /\ held'.kind = held.kind
         /\ held'.graph = held.graph /\ held'.flags \in {held.flags, {"fast"}}
         /\ held'.carrier = held.carrier /\ held'.driver = held.driver
<1>1. CASE DamageBundle
  <2>1. PICK m : held' = [held EXCEPT !.members = m, !.whole = FALSE]
    BY <1>1 DEF DamageBundle
  <2>2. UNCHANGED <<prepared, plan>>
    BY <1>1 DEF DamageBundle
  <2> QED
    BY <2>1, <2>2 DEF BundleFields
<1>2. CASE EditManifest
  <2>1. PICK b : /\ held' = [b EXCEPT !.edited = TRUE]
                 /\ \/ b = [held EXCEPT !.device = "other"]
                    \/ b = [held EXCEPT !.flags = {"fast"}]
                    \/ b = [held EXCEPT !.groups = <<>>]
                    \/ \E s : b = [held EXCEPT !.bindings = {s}]
    <3> DEFINE fields == {[held EXCEPT !.device = "other"], [held EXCEPT !.flags = {"fast"}],
                          [held EXCEPT !.groups = <<>>]}
               bindings == {[held EXCEPT !.bindings = {s}] :
                              s \in UNION {EditedBindings(s) : s \in held.bindings}}
    <3>1. held' \in {[b EXCEPT !.edited = TRUE] : b \in fields \cup bindings}
      BY <1>2 DEF EditManifest
    <3>2. \A b \in bindings : \E s : b = [held EXCEPT !.bindings = {s}]
      OBVIOUS
    <3>3. \A b \in fields : \/ b = [held EXCEPT !.device = "other"]
                            \/ b = [held EXCEPT !.flags = {"fast"}]
                            \/ b = [held EXCEPT !.groups = <<>>]
      OBVIOUS
    <3> HIDE DEF fields, bindings
    <3>4. PICK b \in fields \cup bindings : held' = [b EXCEPT !.edited = TRUE]
      BY <3>1
    <3> QED BY <3>2, <3>3, <3>4
  <2>2. UNCHANGED <<prepared, plan>>
    BY <1>2 DEF EditManifest
  <2> QED
    BY <2>1, <2>2 DEF BundleFields
<1> QED BY <1>1, <1>2

\* The actions that leave the prepared graph alone, and make no bundle.
Kept == UNCHANGED prepared /\ (UNCHANGED held \/ ("kind" \in DOMAIN held /\ ~Holds("bundle"))')

LEMMA CarrierFrame == CarrierInv /\ Kept => CarrierInv'
BY DEF CarrierInv, Kept, Holds

LEMMA CarrierStep == CarrierInv /\ [PNext]_pvars => CarrierInv' /\ (prepared' # prepared => Current(prepared'))
<1> SUFFICES ASSUME CarrierInv, [PNext]_pvars
             PROVE  CarrierInv' /\ (prepared' # prepared => Current(prepared'))
  OBVIOUS
<1>1. ASSUME Kept PROVE CarrierInv' /\ (prepared' # prepared => Current(prepared'))
  BY <1>1, CarrierFrame DEF Kept
<1>2. ASSUME NEW gr \in Graphs, NEW l \in Layouts(gr), NEW f \in Flags(gr), Prepare(gr, f, l)
      PROVE  CarrierInv' /\ (prepared' # prepared => Current(prepared'))
  <2>1. PICK p \in PreparedFor(gr, f, l) : prepared' = p
    BY <1>2 DEF Prepare
  <2>2. Current(p) /\ CarrierFor(p.blob, p.graph) /\ ("accuracy" \in p.flags => "accuracy" \in p.blob.flags)
    BY <2>1, PreparedCurrent
  <2>3. UNCHANGED <<driver, held>> /\ ~Holds("bundle")
    BY <1>2 DEF Prepare, Holds
  <2> QED
    BY <2>1, <2>2, <2>3 DEF CarrierInv, Current, CarrierFor, Holds
<1>3. ASSUME NEW gr \in Graphs, Load(gr)
      PROVE  CarrierInv' /\ (prepared' # prepared => Current(prepared'))
  <2>1. PICK p \in LoadPrepared(held, gr) : prepared' = p
    BY <1>3 DEF Load
  <2>2. Holds("bundle") /\ BundleCarrier(held) /\ UNCHANGED <<driver, held>>
    BY <1>3 DEF Load, CarrierInv
  <2>3. Current(p) /\ CarrierFor(p.blob, p.graph) /\ ("accuracy" \in p.flags => "accuracy" \in p.blob.flags)
    BY <2>1, <2>2, LoadedCurrent
  <2> QED
    BY <2>1, <2>2, <2>3 DEF CarrierInv, Current, CarrierFor, Holds
<1>4. ASSUME NEW withPlan \in BOOLEAN, Export(withPlan) PROVE CarrierInv' /\ UNCHANGED prepared
  <2>1. /\ held'.graph = prepared.graph /\ held'.flags = prepared.flags
        /\ held'.carrier = prepared.blob /\ held'.driver = prepared.blob.driver
        /\ DOMAIN held' = BundleFields
        /\ prepared # None /\ UNCHANGED prepared
    BY <1>4 DEF Export, BundleFields
  <2> QED
    BY <2>1 DEF CarrierInv, BundleCarrier, CarrierFor, BundleFields
<1>5. CASE DamageBundle \/ EditManifest
  <2>1. DOMAIN held = BundleFields /\ BundleCarrier(held)
    BY <1>5 DEF DamageBundle, EditManifest, CarrierInv
  <2>2. /\ UNCHANGED prepared /\ DOMAIN held' = BundleFields /\ held'.graph = held.graph
        /\ held'.flags \in {held.flags, {"fast"}} /\ held'.carrier = held.carrier /\ held'.driver = held.driver
    BY <1>5, <2>1, BundleEdits
  <2>3. "accuracy" \in held'.flags => "accuracy" \in held.flags
    BY <2>2
  <2> QED
    BY <2>1, <2>2, <2>3 DEF CarrierInv, BundleCarrier, CarrierFor, BundleFields
<1>6. ASSUME \/ \E gr \in Graphs : \E l \in Layouts(gr), f \in Flags(gr) : CompileGraph(gr, f, l)
             \/ \E k, failed, ls : ProbeCandidates(k, failed, ls)
             \/ \E k, kind : ReviewBinding(k, kind)
             \/ \E kinds : ReviewTopology(kinds)
             \/ ProposeTopology \/ BuildPrepared \/ StartBuild
      PROVE  Kept
  BY <1>6 DEF CompileGraph, ProbeCandidates, ReviewBinding, ReviewTopology, ProposeTopology, BuildPrepared,
              StartBuild, Building, Kept, Holds
<1>7. ASSUME CompileKernel \/ PatchKernel \/ FinishBuild \/ Release \/ ExportProgram \/ DamageArtifact
      PROVE  Kept
  <2>1. "kind" \in DOMAIN held
    BY DEF CarrierInv
  <2>2. CASE CompileKernel
    BY <2>1, <2>2 DEF CompileKernel, Kept, Holds
  <2>3. CASE PatchKernel
    BY <2>1, <2>3 DEF PatchKernel, Kept, Holds
  <2>4. CASE DamageArtifact
    BY <2>1, <2>4 DEF DamageArtifact, Kept, Holds
  <2> QED
    BY <1>7, <2>2, <2>3, <2>4 DEF FinishBuild, Release, ExportProgram, Nothing, Kept, Holds
<1>8. ASSUME \/ \E b, c : Plan(b, c)
             \/ DriverUpdate \/ EditSource \/ UNCHANGED pvars
             \/ \E k : ReviewIr(k)
             \/ \E l, k : BuildIr(l, k)
      PROVE  Kept
  BY <1>8 DEF Plan, DriverUpdate, EditSource, ReviewIr, BuildIr, Kept, Holds, pvars
<1> QED
  BY <1>1, <1>2, <1>3, <1>4, <1>5, <1>6, <1>7, <1>8 DEF PNext

\* Every prepared graph, obtained from prepare() or load_prepared(), holds the
\* unchanged IR of its graph compiled by the driver that is installed.
THEOREM CarrierCorrect == PSpec => CarrierIsCurrent
<1>1. CarrierInv /\ [PNext]_pvars => CarrierInv'
  BY CarrierStep
<1>2. CarrierInv /\ [PNext]_pvars =>
        (prepared' # prepared => /\ prepared'.blob.graph.id = prepared'.graph.id
                                 /\ prepared'.blob.over = <<>>
                                 /\ prepared'.blob.driver = driver
                                 /\ Groups(prepared') # <<>> => driver \in Validated
                                 /\ NeedsAccuracy(prepared'.graph) => "accuracy" \in prepared'.blob.flags)
  BY CarrierStep DEF Current
<1> QED
  BY <1>1, <1>2, CarrierInit, PTL DEF PSpec, CarrierIsCurrent

-----------------------------------------------------------------------------
(* Reviewed bindings.                                                      *)

\* A candidate was compiled with the carrier substituted for its node.
ProbeOk(q) == q.cand.over = Name(q)

ReviewFields == {"node", "group", "kind", "base", "probes"}

\* What a review says is true of the carrier `blob`.
ReviewFor(r, k, blob) ==
  /\ DOMAIN r = ReviewFields
  /\ blob.layout.truth[k] = {r.group}
  /\ r.kind \in blob.layout.complete[r.group]
  /\ \A q \in r.probes : ProbeOk(q) /\ q.node = k

\* The reviews of some nodes, together with the groups chosen for them.
ReviewsFor(reviews, indices, nodes, blob) ==
  /\ DOMAIN reviews = nodes
  /\ \A k \in nodes : reviews[k] # None => /\ ReviewFor(reviews[k], k, blob)
                                           /\ indices[k] = <<reviews[k].group>>

\* Saved evidence is about the node of its binding, and its candidates are in
\* the archive.
BindingSaved(s, b) ==
  /\ DOMAIN s = {"indices", "reviews"} /\ DOMAIN s.indices = DOMAIN s.reviews
  /\ \A k \in DOMAIN s.reviews : s.reviews[k] # None =>
       /\ DOMAIN s.reviews[k] = ReviewFields
       /\ \A q \in s.reviews[k].probes : Name(q) \in DOMAIN b.candidates /\ q.node = k

SavedEvidence(b) ==
  /\ \A n \in DOMAIN b.candidates : b.candidates[n].over = n
  /\ \A s \in b.bindings : BindingSaved(s, b)

PreparedReviews(p) ==
  /\ DOMAIN p.reviews = Nodes(p.graph)
  /\ \A k \in Nodes(p.graph) : p.reviews[k] # None => p.saved # {}
  /\ \A s \in p.saved : ReviewsFor(p.reviews, s, Nodes(p.graph), p.blob)

PlanReviews(pl) ==
  /\ DOMAIN pl.indices = Nodes(pl.prep.graph)
  /\ ReviewsFor(pl.reviews, pl.indices, Nodes(pl.prep.graph), pl.prep.blob)

ReviewInv ==
  /\ "kind" \in DOMAIN held
  /\ prepared # None => PreparedReviews(prepared)
  /\ plan # None => PlanReviews(plan)
  /\ Holds("evidence") => \A q \in held.probes : ProbeOk(q)
  /\ Holds("review") => \A q \in held.review.probes : ProbeOk(q)
  /\ Holds("bundle") => DOMAIN held = BundleFields /\ SavedEvidence(held)

\* A review that can be made is true: the candidates that changed one group
\* agree on it, and that group implements the node.
LEMMA ReviewSound ==
  ASSUME NEW p, NEW k, NEW probes, NEW kind, \A q \in probes : ProbeOk(q),
         NEW r \in Review(p, k, probes, kind)
  PROVE  ReviewFor(r, k, p.blob) /\ r.probes = probes
<1>1. PICK i \in Consistent(probes) :
        /\ r = [node |-> k, group |-> i, kind |-> kind, base |-> p.blob, probes |-> probes]
        /\ \A q \in probes : q.node = k /\ q.base = p.blob
        /\ kind \in p.blob.layout.complete[i]
  BY DEF Review, Require
<1>2. PICK q \in probes : Accepted(q) /\ i = GroupOf(q)
  BY DEF Consistent, Stable
<1>3. Changed(q.base, q.cand) = {i}
  BY <1>2 DEF Accepted, GroupOf
<1>4. q.base.layout.truth[q.cand.over[1]] = {i}
  BY <1>3 DEF Changed
<1>5. q.cand.over[1] = k
  BY <1>1 DEF ProbeOk, Name
<1> QED
  BY <1>1, <1>4, <1>5 DEF ReviewFor, ReviewFields

\* An offered value is a list of groups or the review that the client holds.
LEMMA BindingsOffered ==
  ASSUME NEW b \in Bindings, NEW k \in DOMAIN b, "probes" \in DOMAIN b[k]
  PROVE  Holds("review") /\ b[k] = held.review
<1>1. ASSUME NEW j, NEW v \in Values(j), "probes" \in DOMAIN v PROVE Holds("review") /\ v = held.review
  BY <1>1 DEF Values
<1>2. b # <<>>
  OBVIOUS
<1>3. CASE \E j : b \in [{j} -> Values(j)]
  BY <1>1, <1>3
<1>4. CASE b \in Values(1) \X Values(2)
  <2>1. PICK v \in Values(1), w \in Values(2) : b = <<v, w>>
    BY <1>4
  <2>2. b[k] \in {v, w}
    BY <2>1
  <2> QED BY <1>1, <2>2
<1>5. prepared # None
  BY <1>2 DEF Bindings
<1>6. CASE b \in UNION {[{j} -> Values(j)] : j \in Nodes(prepared.graph)}
  BY <1>3, <1>6
<1> QED
  BY <1>2, <1>4, <1>5, <1>6 DEF Bindings

IsFunction(f) == f = [x \in DOMAIN f |-> f[x]]

\* One result of each of several computations.
LEMMA AllOfEach ==
  ASSUME NEW results, NEW f \in AllOf(results)
  PROVE  /\ IsFunction(f) /\ DOMAIN f = DOMAIN results
         /\ \A k \in DOMAIN results : f[k] \in results[k]
BY DEF AllOf, IsFunction

\* Without raw targets every node is given groups, and targets of these.
LEMMA ResolvedFrom ==
  ASSUME NEW p, NEW bindings, p.graph.embedded = {}, NEW r \in Resolve(p, bindings)
  PROVE  LET nodes == Nodes(p.graph)
         IN /\ DOMAIN r.indices = nodes /\ DOMAIN r.targets = nodes /\ NoGroupTwice(r.indices)
            /\ IsFunction(r.indices)
            /\ \A k \in nodes : /\ r.indices[k] \in Indices(p, bindings, k)
                                /\ r.targets[k] \in TargetsOf(p, k, r.indices[k])
            /\ r.reviews = [k \in nodes |-> ReviewOf(p, bindings, k)]
<1> DEFINE nodes == Nodes(p.graph)
           all == AllOf([k \in nodes |-> Indices(p, bindings, k)])
           reviews == [k \in nodes |-> ReviewOf(p, bindings, k)]
           Targets(c) == AllOf([k \in nodes |-> TargetsOf(p, k, c[k])])
           Made(c) == {[indices |-> c, targets |-> targets, reviews |-> reviews] : targets \in Targets(c)}
<1>1. r \in UNION {Made(c) : c \in {c \in all : NoGroupTwice(c)}}
  BY DEF Resolve
<1> HIDE DEF all, reviews, Targets
<1>2. \A c : r \in Made(c) => r.indices = c /\ r.targets \in Targets(c) /\ r.reviews = reviews
  OBVIOUS
<1> HIDE DEF Made
<1>3. PICK chosen \in all : r \in Made(chosen) /\ NoGroupTwice(chosen)
  BY <1>1
<1>4. r.indices = chosen /\ r.targets \in Targets(chosen) /\ r.reviews = reviews
  BY <1>2, <1>3
<1>5. /\ IsFunction(r.indices) /\ DOMAIN r.indices = nodes
      /\ \A k \in nodes : r.indices[k] \in Indices(p, bindings, k)
  <2> DEFINE results == [k \in nodes |-> Indices(p, bindings, k)]
  <2>1. r.indices \in AllOf(results) /\ DOMAIN results = nodes
    BY <1>3, <1>4 DEF all
  <2>2. \A k \in nodes : results[k] = Indices(p, bindings, k)
    OBVIOUS
  <2> HIDE DEF results
  <2> QED BY <2>1, <2>2, AllOfEach
<1>6. DOMAIN r.targets = nodes /\ \A k \in nodes : r.targets[k] \in TargetsOf(p, k, r.indices[k])
  <2> DEFINE results == [k \in nodes |-> TargetsOf(p, k, r.indices[k])]
  <2>1. r.targets \in AllOf(results) /\ DOMAIN results = nodes
    BY <1>4 DEF Targets
  <2>2. \A k \in nodes : results[k] = TargetsOf(p, k, r.indices[k])
    OBVIOUS
  <2> HIDE DEF results
  <2> QED BY <2>1, <2>2, AllOfEach
<1> QED
  BY <1>3, <1>4, <1>5, <1>6 DEF reviews

LEMMA ResolveSound ==
  ASSUME NEW p, NEW bindings, PreparedReviews(p),
         \A k \in DOMAIN bindings : "probes" \in DOMAIN bindings[k] => \A q \in bindings[k].probes : ProbeOk(q),
         NEW r \in Resolve(p, bindings)
  PROVE  DOMAIN r.indices = Nodes(p.graph) /\ ReviewsFor(r.reviews, r.indices, Nodes(p.graph), p.blob)
<1> DEFINE nodes == Nodes(p.graph)
<1>1. CASE p.graph.embedded # {}
  BY <1>1 DEF Resolve, NoReviews, ReviewsFor
<1>2. CASE p.graph.embedded = {}
  <2> DEFINE chosen == r.indices
  <2>1. r.reviews = [k \in nodes |-> ReviewOf(p, bindings, k)]
    BY <1>2, ResolvedFrom
  <2>2. DOMAIN chosen = nodes /\ \A k \in nodes : chosen[k] \in Indices(p, bindings, k)
    BY <1>2, ResolvedFrom
  <2> HIDE DEF chosen
  <2>3. ASSUME NEW k \in nodes, ReviewOf(p, bindings, k) # None
        PROVE  /\ ReviewFor(ReviewOf(p, bindings, k), k, p.blob)
               /\ chosen[k] = <<ReviewOf(p, bindings, k).group>>
    <3>1. CASE k \in DOMAIN bindings
      <4> DEFINE v == bindings[k]
      <4>1. "probes" \in DOMAIN v /\ ReviewOf(p, bindings, k) = v
        BY <2>3, <3>1 DEF ReviewOf
      <4>2. chosen[k] \in Normalized1(p, k, v)
        BY <2>2, <3>1 DEF Indices
      <4>3. v \in Review(p, k, v.probes, v.kind) /\ chosen[k] = <<v.group>>
        BY <4>1, <4>2 DEF Normalized1
      <4> QED
        BY <3>1, <4>1, <4>3, ReviewSound
    <3>2. CASE k \notin DOMAIN bindings
      <4>1. ReviewOf(p, bindings, k) = p.reviews[k] /\ p.saved # {}
        BY <2>3, <3>2 DEF ReviewOf, PreparedReviews
      <4>2. PICK s \in p.saved : chosen[k] = s[k]
        BY <2>2, <3>2, <4>1 DEF Indices
      <4> QED
        BY <2>3, <4>1, <4>2 DEF PreparedReviews, ReviewsFor
    <3> QED BY <3>1, <3>2
  <2> QED
    BY <2>1, <2>2, <2>3 DEF ReviewsFor, chosen
<1> QED BY <1>1, <1>2

LEMMA PlanSoundReviews ==
  ASSUME NEW p, NEW bindings, NEW compiled, PreparedReviews(p),
         \A k \in DOMAIN bindings : "probes" \in DOMAIN bindings[k] => \A q \in bindings[k].probes : ProbeOk(q),
         NEW pl \in PlanOf(p, bindings, compiled)
  PROVE  PlanReviews(pl)
<1>1. PICK r \in Resolve(p, bindings) : pl.prep = p /\ pl.indices = r.indices /\ pl.reviews = r.reviews
  BY DEF PlanOf
<1> QED
  BY <1>1, ResolveSound DEF PlanReviews

\* A review that comes back from a bundle was made again from the candidates
\* in the archive.
LEMMA LoadedReviews ==
  ASSUME NEW b, NEW gr, SavedEvidence(b), NEW p \in LoadPrepared(b, gr)
  PROVE  PreparedReviews(p)
<1>1. MembersIntact(b) /\ PreparedBindings(b, gr)
  BY DEF LoadPrepared
<1>2. CASE b.bindings = {}
  BY <1>2 DEF LoadPrepared, NewPrepared, PreparedReviews, NoReviews
<1>3. CASE b.bindings # {}
  <2> DEFINE saved == CHOOSE s \in b.bindings : TRUE
             bare == NewPrepared(gr, b.flags, b.members[CarrierName], {saved.indices}, NoReviews(gr))
             Again(k) == {r \in Restored(bare, k, saved.reviews[k], b.members) : saved.indices[k] = <<r.group>>}
             reviews == [k \in Nodes(gr) |-> IF saved.reviews[k] = None THEN None ELSE CHOOSE r \in Again(k) : TRUE]
  <2>1. /\ p = [bare EXCEPT !.reviews = reviews]
        /\ \A k \in Nodes(gr) : saved.reviews[k] # None => Again(k) # {}
    BY <1>3 DEF LoadPrepared, Require
  <2>2. saved \in b.bindings /\ BindingSaved(saved, b) /\ DOMAIN saved.indices = Nodes(gr)
    BY <1>1, <1>3 DEF SavedEvidence, PreparedBindings
  <2>3. p.graph = gr /\ p.saved = {saved.indices} /\ p.reviews = reviews /\ p.blob = bare.blob
    BY <2>1 DEF NewPrepared
  <2>4. ASSUME NEW k \in Nodes(gr), reviews[k] # None
        PROVE  ReviewFor(reviews[k], k, bare.blob) /\ saved.indices[k] = <<reviews[k].group>>
    <3> DEFINE r == saved.reviews[k]
               probes == {[node |-> k, carrier |-> q.carrier, base |-> bare.blob, cand |-> b.members[Name(q)]] : q \in r.probes}
    <3>1. saved.reviews[k] # None /\ k \in DOMAIN saved.reviews
      BY <2>2, <2>4 DEF BindingSaved
    <3>2. reviews[k] \in Again(k)
      BY <2>1, <2>4, <3>1
    <3>3. reviews[k] \in Review(bare, k, probes, r.kind) /\ saved.indices[k] = <<reviews[k].group>>
      BY <3>2 DEF Restored
    <3>4. \A q \in r.probes : b.members[Name(q)].over = Name(q) /\ q.node = k
      BY <1>1, <2>2, <3>1 DEF BindingSaved, SavedEvidence, MembersIntact
    <3> HIDE DEF saved, bare, Again, reviews, r
    <3>5. ASSUME NEW q \in probes PROVE ProbeOk(q)
      <4>1. PICK u \in r.probes : /\ q.node = k /\ q.carrier = u.carrier /\ q.cand = b.members[Name(u)]
        OBVIOUS
      <4> QED
        BY <3>4, <4>1 DEF ProbeOk, Name
    <3> QED
      BY <3>3, <3>5, ReviewSound
  <2>5. DOMAIN reviews = Nodes(gr)
    OBVIOUS
  <2> HIDE DEF saved, bare, Again, reviews
  <2> QED
    BY <2>3, <2>4, <2>5 DEF PreparedReviews, ReviewsFor
<1> QED BY <1>2, <1>3

LEMMA ReviewInit == PInit => ReviewInv
BY DEF PInit, ReviewInv, Nothing, Holds

\* What the kinds of things that carry no evidence look like.
Plain(kind) == kind \notin {"evidence", "review", "bundle"}

\* The actions that change nothing or make something without evidence.
Unreviewed == /\ UNCHANGED <<prepared, plan>>
              /\ UNCHANGED held \/ ("kind" \in DOMAIN held /\ Plain(held.kind))'

LEMMA ReviewFrame == ReviewInv /\ Unreviewed => ReviewInv'
BY DEF ReviewInv, Unreviewed, Plain, Holds

LEMMA UnreviewedSteps ==
  ASSUME "kind" \in DOMAIN held,
         \/ \E gr \in Graphs : \E l \in Layouts(gr), f \in Flags(gr) : CompileGraph(gr, f, l)
         \/ \E kinds : ReviewTopology(kinds)
         \/ ProposeTopology \/ BuildPrepared \/ StartBuild
         \/ CompileKernel \/ PatchKernel \/ FinishBuild \/ Release \/ ExportProgram \/ DamageArtifact
         \/ DriverUpdate \/ EditSource \/ UNCHANGED pvars
         \/ \E k : ReviewIr(k)
         \/ \E l, k : BuildIr(l, k)
  PROVE  Unreviewed
<1>1. CASE CompileKernel
  BY <1>1 DEF CompileKernel, Unreviewed, Plain, Holds
<1>2. CASE PatchKernel
  BY <1>2 DEF PatchKernel, Unreviewed, Plain, Holds
<1>3. CASE DamageArtifact
  BY <1>3 DEF DamageArtifact, Unreviewed, Plain, Holds
<1>4. ASSUME NEW k, ReviewIr(k) PROVE Unreviewed
  BY <1>4 DEF ReviewIr, Unreviewed, Plain, Holds
<1>5. ASSUME NEW l, NEW k, BuildIr(l, k) PROVE Unreviewed
  BY <1>5 DEF BuildIr, Unreviewed, Plain, Holds
<1> QED
  BY <1>1, <1>2, <1>3, <1>4, <1>5
     DEF CompileGraph, ReviewTopology, ProposeTopology, BuildPrepared, StartBuild, Building, FinishBuild, Release,
         Nothing, ExportProgram, DriverUpdate, EditSource, pvars, Unreviewed, Plain

\* A bundle of a plan keeps the plan's evidence.
LEMMA ExportedEvidence ==
  ASSUME NEW withPlan \in BOOLEAN, Export(withPlan), ReviewInv
  PROVE  /\ DOMAIN held' = BundleFields /\ SavedEvidence(held)' /\ Holds("bundle")'
         /\ UNCHANGED <<prepared, plan>>
<1> DEFINE gr == prepared.graph
           saved == withPlan /\ gr.embedded = {}
           reviews == IF saved THEN plan.reviews ELSE NoReviews(gr)
           probes == UNION {Probes(reviews[k]) : k \in Nodes(gr)}
           names == {Name(q) : q \in probes}
           blobs == [n \in names |-> (CHOOSE q \in probes : Name(q) = n).cand]
<1>1. /\ prepared # None /\ (withPlan => plan # None /\ plan.prep = prepared)
      /\ held'.candidates = blobs
      /\ held'.bindings = IF saved THEN {[indices |-> plan.indices, reviews |-> reviews]} ELSE {}
      /\ DOMAIN held' = BundleFields /\ Holds("bundle")' /\ UNCHANGED <<prepared, plan>>
  BY DEF Export, BundleFields, Holds
<1>2. ASSUME NEW k \in Nodes(gr), NEW q \in Probes(reviews[k])
      PROVE  ProbeOk(q) /\ q.node = k /\ Name(q) \in names
  <2>1. saved /\ reviews = plan.reviews /\ reviews[k] # None /\ q \in reviews[k].probes
    BY <1>2 DEF Probes, NoReviews
  <2>2. PlanReviews(plan) /\ plan.prep.graph = gr
    BY <1>1, <2>1 DEF ReviewInv
  <2> QED
    BY <1>2, <2>1, <2>2 DEF PlanReviews, ReviewsFor, ReviewFor
<1>3. ASSUME NEW n \in names PROVE blobs[n].over = n
  <2>1. PICK q \in probes : Name(q) = n
    OBVIOUS
  <2>2. \A u \in probes : ProbeOk(u)
    BY <1>2
  <2> HIDE DEF probes
  <2> DEFINE chosen == CHOOSE u \in probes : Name(u) = n
  <2>3. chosen \in probes /\ Name(chosen) = n
    BY <2>1
  <2>4. blobs[n] = chosen.cand
    OBVIOUS
  <2> QED
    BY <2>2, <2>3, <2>4 DEF ProbeOk
<1>4. ASSUME saved PROVE BindingSaved([indices |-> plan.indices, reviews |-> reviews], [candidates |-> blobs])
  <2>1. PlanReviews(plan) /\ plan.prep.graph = gr /\ reviews = plan.reviews
    BY <1>1, <1>4 DEF ReviewInv
  <2>2. DOMAIN plan.indices = Nodes(gr) /\ DOMAIN reviews = Nodes(gr)
    BY <2>1 DEF PlanReviews, ReviewsFor
  <2>3. ASSUME NEW k \in Nodes(gr), reviews[k] # None
        PROVE  /\ DOMAIN reviews[k] = ReviewFields
               /\ \A q \in reviews[k].probes : Name(q) \in names /\ q.node = k
    <3>1. Probes(reviews[k]) = reviews[k].probes
      BY <2>3 DEF Probes
    <3>2. DOMAIN reviews[k] = ReviewFields
      BY <2>1, <2>3 DEF PlanReviews, ReviewsFor, ReviewFor
    <3> QED
      BY <1>2, <3>1, <3>2
  <2> HIDE DEF reviews, names
  <2> QED
    BY <2>2, <2>3 DEF BindingSaved
<1> HIDE DEF gr, saved, reviews, probes, names
<1>5. \A s \in held'.bindings : BindingSaved(s, held')
  BY <1>1, <1>4 DEF BindingSaved
<1>6. \A n \in DOMAIN held'.candidates : held'.candidates[n].over = n
  BY <1>1, <1>3
<1> QED
  BY <1>1, <1>5, <1>6 DEF SavedEvidence, BindingSaved

\* An edit of the manifest adds no evidence.
LEMMA EditedEvidence ==
  ASSUME NEW b, NEW s, NEW t \in EditedBindings(s), BindingSaved(s, b)
  PROVE  BindingSaved(t, b)
<1> DEFINE reviewed == {k \in DOMAIN s.reviews : s.reviews[k] # None}
           Indexed(k) == {[s EXCEPT !.indices[k] = i] : i \in Offers \cup {<<>>, <<0, 0>>}}
           Kinded(k) == {[s EXCEPT !.reviews[k].kind = c] : c \in Kinds \cup {"other"}}
           Fewer(k) == {[s EXCEPT !.reviews[k].probes = @ \ {q}] : q \in s.reviews[k].probes}
           indices == UNION {Indexed(k) : k \in DOMAIN s.indices}
           kinds == UNION {Kinded(k) : k \in reviewed}
           probes == UNION {Fewer(k) : k \in reviewed}
<1>1. t \in (indices \cup kinds) \cup probes
  BY Zenon DEF EditedBindings
<1>2. CASE t \in indices
  <2>1. PICK k \in DOMAIN s.indices : t \in Indexed(k)
    BY <1>2
  <2> PICK i : t = [s EXCEPT !.indices[k] = i]
    BY <2>1
  <2>2. DOMAIN t = DOMAIN s /\ t.reviews = s.reviews /\ DOMAIN t.indices = DOMAIN s.indices
    BY <2>1 DEF BindingSaved
  <2> QED
    BY <2>2 DEF BindingSaved
<1>3. CASE t \in kinds
  <2>1. PICK k \in reviewed : t \in Kinded(k)
    BY <1>3
  <2> PICK c : t = [s EXCEPT !.reviews[k].kind = c]
    BY <2>1
  <2>2. DOMAIN t = DOMAIN s /\ t.indices = s.indices /\ t.reviews = [s.reviews EXCEPT ![k].kind = c]
    BY <2>1 DEF BindingSaved
  <2>3. /\ DOMAIN t.reviews = DOMAIN s.reviews
        /\ t.reviews[k].probes = s.reviews[k].probes /\ DOMAIN t.reviews[k] = ReviewFields
        /\ \A j \in DOMAIN s.reviews \ {k} : t.reviews[j] = s.reviews[j]
    BY <2>2 DEF BindingSaved, ReviewFields
  <2>4. s.reviews[k] # None
    OBVIOUS
  <2> QED
    BY <2>2, <2>3, <2>4 DEF BindingSaved
<1>4. CASE t \in probes
  <2>1. PICK k \in reviewed : t \in Fewer(k)
    BY <1>4
  <2>2. PICK q : t = [s EXCEPT !.reviews[k].probes = @ \ {q}]
    BY <2>1
  <2>3. DOMAIN t = DOMAIN s /\ t.indices = s.indices
        /\ t.reviews = [s.reviews EXCEPT ![k].probes = s.reviews[k].probes \ {q}]
    BY <2>2 DEF BindingSaved
  <2>4. /\ DOMAIN t.reviews = DOMAIN s.reviews
        /\ t.reviews[k].probes \subseteq s.reviews[k].probes /\ DOMAIN t.reviews[k] = ReviewFields
        /\ \A j \in DOMAIN s.reviews \ {k} : t.reviews[j] = s.reviews[j]
    BY <2>3 DEF BindingSaved, ReviewFields
  <2>5. s.reviews[k] # None
    OBVIOUS
  <2> QED
    BY <2>3, <2>4, <2>5 DEF BindingSaved
<1> QED BY <1>1, <1>2, <1>3, <1>4

\* The actions that change the evidence, one lemma for each kind.
LEMMA PreparedSteps ==
  ASSUME ReviewInv,
         \/ \E gr \in Graphs : \E l \in Layouts(gr), f \in Flags(gr) : Prepare(gr, f, l)
         \/ \E gr \in Graphs : Load(gr)
  PROVE  ReviewInv'
<1>1. plan' = None /\ UNCHANGED held
  BY DEF Prepare, Load
<1>2. PreparedReviews(prepared')
  <2>1. ASSUME NEW gr \in Graphs, NEW l, NEW f, Prepare(gr, f, l)
        PROVE  PreparedReviews(prepared')
    <3>1. prepared' \in PreparedFor(gr, f, l)
      BY <2>1 DEF Prepare
    <3>2. PICK c, blob : prepared' = NewPrepared(gr, c, blob, {}, NoReviews(gr))
      BY <3>1 DEF PreparedFor
    <3> QED
      BY <3>2 DEF NewPrepared, NoReviews, PreparedReviews
  <2>2. ASSUME NEW gr \in Graphs, Load(gr)
        PROVE  PreparedReviews(prepared')
    <3>1. SavedEvidence(held) /\ prepared' \in LoadPrepared(held, gr)
      BY <2>2 DEF Load, ReviewInv
    <3> QED
      BY <3>1, LoadedReviews
  <2> QED
    BY <2>1, <2>2
<1> QED
  BY <1>1, <1>2 DEF ReviewInv, PreparedReviews, Holds

LEMMA EvidenceSteps ==
  ASSUME ReviewInv,
         \/ \E k, failed, ls : ProbeCandidates(k, failed, ls)
         \/ \E k, kind : ReviewBinding(k, kind)
  PROVE  ReviewInv'
<1>1. UNCHANGED <<prepared, plan>>
  BY DEF ProbeCandidates, ReviewBinding
<1>2. ASSUME NEW k, NEW failed, NEW ls, ProbeCandidates(k, failed, ls)
      PROVE  "kind" \in DOMAIN held' /\ held'.kind = "evidence" /\ \A q \in held'.probes : ProbeOk(q)
  <2>1. held' = [kind |-> "evidence", node |-> k,
                 probes |-> {Probe(prepared, k, c, ls[c]) : c \in Carriers \ failed}]
    BY <1>2 DEF ProbeCandidates
  <2>2. \A c : ProbeOk(Probe(prepared, k, c, ls[c]))
    BY DEF ProbeOk, Probe, Name, Blob
  <2> QED
    BY <2>1, <2>2
<1>3. ASSUME NEW k, NEW kind, ReviewBinding(k, kind)
      PROVE  "kind" \in DOMAIN held' /\ held'.kind = "review" /\ \A q \in held'.review.probes : ProbeOk(q)
  <2>1. \A q \in held.probes : ProbeOk(q)
    BY <1>3 DEF ReviewBinding, ReviewInv
  <2>2. PICK r \in Review(prepared, k, held.probes, kind) : held' = [kind |-> "review", review |-> r]
    BY <1>3 DEF ReviewBinding
  <2>3. r.probes = held.probes
    BY <2>1, <2>2, ReviewSound
  <2> QED
    BY <2>1, <2>2, <2>3
<1> QED
  BY <1>1, <1>2, <1>3 DEF ReviewInv, Holds

LEMMA PlanSteps ==
  ASSUME ReviewInv, NEW c, (\E b \in Bindings : Plan(b, c)) \/ Plan(<<>>, c)
  PROVE  ReviewInv'
<1>1. UNCHANGED <<prepared, held>> /\ PreparedReviews(prepared)
  BY DEF Plan, ReviewInv
<1>2. PICK b \in Bindings : plan' \in PlanOf(prepared, b, c)
  BY DEF Plan, Bindings
<1>3. ASSUME NEW k \in DOMAIN b, "probes" \in DOMAIN b[k]
      PROVE  \A q \in b[k].probes : ProbeOk(q)
  BY <1>3, BindingsOffered DEF ReviewInv
<1>4. PlanReviews(plan')
  BY <1>1, <1>2, <1>3, PlanSoundReviews
<1> QED
  BY <1>1, <1>4 DEF ReviewInv, PlanReviews, Holds

LEMMA BundleSteps ==
  ASSUME ReviewInv, DamageBundle \/ EditManifest
  PROVE  ReviewInv' /\ Holds("bundle")'
<1>1. /\ Holds("bundle") /\ DOMAIN held = BundleFields /\ SavedEvidence(held)
      /\ UNCHANGED <<prepared, plan>>
  BY DEF DamageBundle, EditManifest, ReviewInv
<1>2. CASE DamageBundle
  <2>1. PICK m : held' = [held EXCEPT !.members = m, !.whole = FALSE]
    BY <1>2 DEF DamageBundle
  <2>2. /\ DOMAIN held' = BundleFields /\ held'.kind = "bundle"
        /\ held'.candidates = held.candidates /\ held'.bindings = held.bindings
    BY <1>1, <2>1 DEF BundleFields, Holds
  <2>3. SavedEvidence(held')
    BY <1>1, <2>2 DEF SavedEvidence, BindingSaved
  <2> QED
    BY <1>1, <2>2, <2>3 DEF ReviewInv, SavedEvidence, BindingSaved, BundleFields, Holds
<1>3. CASE EditManifest
  <2> DEFINE edits == UNION {EditedBindings(s) : s \in held.bindings}
             fields == {[held EXCEPT !.device = "other"], [held EXCEPT !.flags = {"fast"}],
                        [held EXCEPT !.groups = <<>>]}
             bindings == {[held EXCEPT !.bindings = {s}] : s \in edits}
  <2>1. held' \in {[b EXCEPT !.edited = TRUE] : b \in fields \cup bindings}
    BY <1>3 DEF EditManifest
  <2>2. \A s \in edits : BindingSaved(s, held)
    BY <1>1, EditedEvidence DEF SavedEvidence
  <2>3. \A b \in fields : /\ DOMAIN b = BundleFields /\ b.kind = "bundle"
                          /\ b.candidates = held.candidates /\ b.bindings = held.bindings
    BY <1>1 DEF BundleFields, Holds
  <2> HIDE DEF edits
  <2>4. ASSUME NEW b \in bindings
        PROVE  /\ DOMAIN b = BundleFields /\ b.kind = "bundle" /\ b.candidates = held.candidates
               /\ \A s \in b.bindings : s \in edits
    <3>1. PICK s \in edits : b = [held EXCEPT !.bindings = {s}]
      OBVIOUS
    <3> QED
      BY <1>1, <3>1 DEF BundleFields, Holds
  <2> HIDE DEF fields, bindings
  <2>5. PICK b \in fields \cup bindings : held' = [b EXCEPT !.edited = TRUE]
    BY <2>1
  <2>6. /\ DOMAIN b = BundleFields /\ b.kind = "bundle" /\ b.candidates = held.candidates
        /\ \A s \in b.bindings : s \in held.bindings \/ s \in edits
    BY <2>3, <2>4
  <2>7. /\ DOMAIN held' = BundleFields /\ held'.kind = "bundle"
        /\ held'.candidates = held.candidates /\ held'.bindings = b.bindings
    BY <2>5, <2>6 DEF BundleFields
  <2>8. SavedEvidence(held')
    BY <1>1, <2>2, <2>6, <2>7 DEF SavedEvidence, BindingSaved
  <2> QED
    BY <1>1, <2>7, <2>8 DEF ReviewInv, SavedEvidence, BindingSaved, BundleFields, Holds
<1> QED BY <1>2, <1>3

LEMMA ReviewStep == ReviewInv /\ [PNext]_pvars => ReviewInv'
<1> SUFFICES ASSUME ReviewInv, [PNext]_pvars PROVE ReviewInv'
  OBVIOUS
<1>1. "kind" \in DOMAIN held
  BY DEF ReviewInv
<1>2. ASSUME Unreviewed PROVE ReviewInv'
  BY <1>2, ReviewFrame
<1>3. ASSUME NEW withPlan \in BOOLEAN, Export(withPlan) PROVE ReviewInv'
  BY <1>3, ExportedEvidence DEF ReviewInv, BundleFields, Holds
<1> QED
  BY <1>1, <1>2, <1>3, UnreviewedSteps, PreparedSteps, EvidenceSteps, PlanSteps, BundleSteps DEF PNext

\* A reviewed binding names the group that implements its node in the carrier
\* it is planned for.
THEOREM BindingsCorrect == PSpec => []BindingsTrue
<1>1. ReviewInv => BindingsTrue
  BY DEF ReviewInv, PlanReviews, ReviewsFor, ReviewFor, BindingsTrue
<1> QED
  BY <1>1, ReviewInit, ReviewStep, PTL DEF PSpec

-----------------------------------------------------------------------------
(* Programs.                                                               *)

\* The custom nodes of a finite graph are numbered from 1.
LEMMA CustomsNumbered ==
  ASSUME NEW gr \in Graphs
  PROVE  Len(Customs(gr)) \in Nat /\ Nodes(gr) = 1..Len(Customs(gr))
<1> DEFINE S == {n \in DOMAIN gr.g : gr.g[n].op = "Custom"}
<1>1. IsFiniteSet(S)
  <2>1. IsFiniteSet(DOMAIN gr.g)
    BY PreparedAssumption
  <2> QED BY <2>1, FS_Subset
<1>2. Cardinality(S) \in Nat
  BY <1>1, FS_CardinalityType
<1>3. DOMAIN Customs(gr) = 1..Cardinality(S)
  BY DEF Customs, Ascending
<1> HIDE DEF S
<1> QED
  BY <1>2, <1>3 DEF Nodes

\* A prepared graph is one of the client's, and raw targets are for every
\* custom node.
Buildable(p) == p.graph \in Graphs /\ EmbeddedTargetGroups(p.graph)

\* A plan has something for each custom node, in order.
Ordered(pl) == \E N \in Nat : DOMAIN pl.indices = 1..N /\ DOMAIN pl.targets = 1..N /\ DOMAIN pl.kernels = 1..N

\* The blob with the first n nodes patched, and the report of one patch.
BlobAt(pl, n) == [native |-> pl.prep.blob, patches |-> [k \in 1..n |-> <<pl.targets[k], pl.kernels[k]>>]]
ReportAt(pl, k) ==
  [in |-> BlobAt(pl, k - 1), out |-> BlobAt(pl, k), elf |-> pl.kernels[k], count |-> Len(pl.targets[k])]

BuildFields == {"kind", "plan", "elf", "reports", "cache", "blob"}

\* The first n nodes are patched, and the next kernel may be compiled.
BuiltTo(b, n) ==
  /\ DOMAIN b = BuildFields /\ b.kind = "build" /\ Ordered(b.plan)
  /\ n <= Len(b.plan.indices)
  /\ b.blob = BlobAt(b.plan, n)
  /\ b.reports = [k \in 1..n |-> ReportAt(b.plan, k)]
  /\ b.elf # None => n < Len(b.plan.indices) /\ b.elf = b.plan.kernels[n + 1]

BuildInv ==
  /\ "kind" \in DOMAIN held
  /\ prepared # None => Buildable(prepared)
  /\ plan # None => Ordered(plan)
  /\ Holds("build") => \E n \in Nat : BuiltTo(held, n)
  /\ ProgramAsPlanned

LEMMA PlanOrdered ==
  ASSUME NEW p, NEW bindings, NEW compiled, Buildable(p), NEW pl \in PlanOf(p, bindings, compiled)
  PROVE  Ordered(pl)
<1> DEFINE nodes == Nodes(p.graph)
<1>1. nodes = 1..Len(Customs(p.graph)) /\ Len(Customs(p.graph)) \in Nat
  BY CustomsNumbered DEF Buildable
<1>2. PICK r \in Resolve(p, bindings) :
        pl.indices = r.indices /\ pl.targets = r.targets /\ DOMAIN pl.kernels = nodes
  BY DEF PlanOf
<1>3. DOMAIN r.indices = nodes /\ DOMAIN r.targets = nodes
  <2>1. CASE p.graph.embedded # {}
    <3>1. PICK e \in p.graph.embedded : r.indices = [k \in nodes |-> <<>>] /\ r.targets = e
      BY <2>1 DEF Resolve
    <3>2. Len(e) = Len(Customs(p.graph)) /\ e \in Seq(Range(e))
      BY PreparedAssumption DEF Buildable, EmbeddedTargetGroups
    <3>3. DOMAIN e = nodes
      BY <1>1, <3>2
    <3> QED BY <3>1, <3>3
  <2>2. CASE p.graph.embedded = {}
    BY <2>2, ResolvedFrom
  <2> QED BY <2>1, <2>2
<1> HIDE DEF nodes
<1> QED
  BY <1>1, <1>2, <1>3 DEF Ordered

LEMMA BuildingStarts ==
  ASSUME NEW pl, Ordered(pl)
  PROVE  BuiltTo(Building(pl), 0)
<1>1. Len(pl.indices) \in Nat
  BY DEF Ordered
<1>2. (Building(pl)).blob = BlobAt(pl, 0)
  <2>1. [k \in 1..0 |-> <<pl.targets[k], pl.kernels[k]>>] = <<>>
    OBVIOUS
  <2> QED BY <2>1 DEF Building, BlobAt
<1>3. (Building(pl)).reports = [k \in 1..0 |-> ReportAt(pl, k)]
  <2>1. [k \in 1..0 |-> ReportAt(pl, k)] = <<>>
    OBVIOUS
  <2> QED BY <2>1 DEF Building
<1>4. DOMAIN Building(pl) = BuildFields /\ (Building(pl)).plan = pl /\ (Building(pl)).elf = None
      /\ (Building(pl)).kind = "build"
  BY DEF Building, BuildFields
<1> QED
  BY <1>1, <1>2, <1>3, <1>4 DEF BuiltTo

\* Appending the next element of a function.
LEMMA AppendNext ==
  ASSUME NEW f, NEW n \in Nat
  PROVE  Append([k \in 1..n |-> f[k]], f[n + 1]) = [k \in 1..(n + 1) |-> f[k]]
<1> DEFINE s == [k \in 1..n |-> f[k]]
           t == Append(s, f[n + 1])
<1>1. s \in Seq({f[k] : k \in 1..(n + 1)}) /\ Len(s) = n
  OBVIOUS
<1>2. f[n + 1] \in {f[k] : k \in 1..(n + 1)}
  OBVIOUS
<1>3. /\ t \in Seq({f[k] : k \in 1..(n + 1)}) /\ Len(t) = n + 1 /\ t[n + 1] = f[n + 1]
      /\ \A k \in 1..n : t[k] = s[k]
  BY <1>1, <1>2
<1>4. DOMAIN t = 1..(n + 1) /\ t = [k \in DOMAIN t |-> t[k]]
  BY <1>3
<1>5. \A k \in 1..(n + 1) : t[k] = f[k]
  BY <1>3
<1> HIDE DEF t
<1>6. t = [k \in 1..(n + 1) |-> f[k]]
  BY <1>4, <1>5
<1> QED BY <1>6 DEF t

LEMMA CompileStep ==
  ASSUME NEW n \in Nat, BuiltTo(held, n), CompileKernel
  PROVE  BuiltTo(held', n)
<1> DEFINE kernel == held.plan.kernels[Step]
           hits == {i \in DOMAIN held.cache : CacheKey(held.cache[i]) = CacheKey(kernel)}
           elf == IF hits # {} /\ ~kernel.compiled THEN held.cache[CHOOSE i \in hits : TRUE] ELSE kernel
           cache == IF hits # {} \/ kernel.compiled THEN held.cache ELSE Append(held.cache, kernel)
<1>1. held' = [held EXCEPT !.elf = elf, !.cache = cache] /\ Step <= Len(held.plan.indices)
  BY DEF CompileKernel
<1>2. elf = kernel
  <2>1. ASSUME hits # {} PROVE held.cache[CHOOSE i \in hits : TRUE] = kernel
    BY <2>1 DEF CacheKey
  <2> QED BY <2>1
<1>3. Step = n + 1
  <2>1. Len([k \in 1..n |-> <<held.plan.targets[k], held.plan.kernels[k]>>]) = n
    OBVIOUS
  <2> QED BY <2>1 DEF BuiltTo, BlobAt, Step
<1> HIDE DEF elf, cache, hits
<1>4. /\ DOMAIN held' = BuildFields /\ held'.kind = "build" /\ held'.plan = held.plan /\ held'.elf = elf
      /\ held'.blob = held.blob /\ held'.reports = held.reports
  BY <1>1 DEF BuiltTo, BuildFields
<1>5. Len(held.plan.indices) \in Nat
  BY DEF BuiltTo, Ordered
<1> QED
  BY <1>1, <1>2, <1>3, <1>4, <1>5 DEF BuiltTo

LEMMA PatchStep ==
  ASSUME NEW n \in Nat, BuiltTo(held, n), PatchKernel
  PROVE  BuiltTo(held', n + 1)
<1> DEFINE pl == held.plan
           Patch(k) == <<pl.targets[k], pl.kernels[k]>>
           blob == [held.blob EXCEPT !.patches = Append(@, <<pl.targets[Step], held.elf>>)]
           report == [in |-> held.blob, out |-> blob, elf |-> held.elf, count |-> Len(pl.targets[Step])]
<1>1. /\ held' = [held EXCEPT !.blob = blob, !.elf = None, !.reports = Append(@, report)]
      /\ held.elf # None
  BY DEF PatchKernel
<1>2. held.elf = pl.kernels[n + 1] /\ n < Len(pl.indices) /\ Len(pl.indices) \in Nat
  BY <1>1 DEF BuiltTo, Ordered
<1>3. Step = n + 1
  <2>1. Len([k \in 1..n |-> Patch(k)]) = n
    OBVIOUS
  <2> QED BY <2>1 DEF BuiltTo, BlobAt, Step
<1>4. blob = BlobAt(pl, n + 1)
  <2> DEFINE f == [k \in 1..(n + 1) |-> Patch(k)]
  <2>1. [k \in 1..n |-> f[k]] = [k \in 1..n |-> Patch(k)] /\ f[n + 1] = Patch(n + 1)
    OBVIOUS
  <2>2. [k \in 1..(n + 1) |-> f[k]] = f
    OBVIOUS
  <2> HIDE DEF f
  <2>3. Append([k \in 1..n |-> Patch(k)], Patch(n + 1)) = f
    BY <2>1, <2>2, AppendNext
  <2>4. held.blob.patches = [k \in 1..n |-> Patch(k)] /\ DOMAIN held.blob = {"native", "patches"}
        /\ held.blob.native = pl.prep.blob
    BY DEF BuiltTo, BlobAt
  <2>5. blob = [native |-> pl.prep.blob, patches |-> f]
    <3> DEFINE old == held.blob
               patches == Append(old.patches, <<pl.targets[Step], held.elf>>)
    <3>1. patches = f
      BY <1>2, <1>3, <2>3, <2>4
    <3> HIDE DEF patches
    <3>2. blob = [old EXCEPT !.patches = patches]
      BY DEF patches
    <3> HIDE DEF blob, old
    <3>3. DOMAIN old = {"native", "patches"} /\ old.native = pl.prep.blob
      BY <2>4 DEF old
    <3>4. old = [native |-> pl.prep.blob, patches |-> old.patches]
      BY <2>4 DEF old, BuiltTo, BlobAt
    <3>5. [old EXCEPT !.patches = f] = [native |-> pl.prep.blob, patches |-> f]
      BY <3>4
    <3> QED
      BY <3>1, <3>2, <3>5
  <2> QED
    BY <2>5 DEF BlobAt, f
<1>5. report = ReportAt(pl, n + 1)
  <2>1. (n + 1) - 1 = n
    OBVIOUS
  <2>2. held.blob = BlobAt(pl, n)
    BY DEF BuiltTo
  <2>3. report = [in |-> BlobAt(pl, n), out |-> BlobAt(pl, n + 1), elf |-> pl.kernels[n + 1],
                  count |-> Len(pl.targets[n + 1])]
    BY <1>2, <1>3, <1>4, <2>2
  <2> QED
    BY <2>1, <2>3 DEF ReportAt
<1>6. Append(held.reports, report) = [k \in 1..(n + 1) |-> ReportAt(pl, k)]
  <2> DEFINE f == [k \in 1..(n + 1) |-> ReportAt(pl, k)]
  <2>1. [k \in 1..n |-> f[k]] = [k \in 1..n |-> ReportAt(pl, k)] /\ f[n + 1] = ReportAt(pl, n + 1)
    OBVIOUS
  <2>2. [k \in 1..(n + 1) |-> f[k]] = f
    OBVIOUS
  <2> HIDE DEF f
  <2>3. Append([k \in 1..n |-> ReportAt(pl, k)], ReportAt(pl, n + 1)) = f
    BY <2>1, <2>2, AppendNext
  <2> HIDE DEF report
  <2> QED
    BY <1>5, <2>3 DEF BuiltTo, f
<1> HIDE DEF blob, report
<1>7. /\ DOMAIN held' = BuildFields /\ held'.kind = "build" /\ held'.plan = pl /\ held'.elf = None
      /\ held'.blob = blob /\ held'.reports = Append(held.reports, report)
  BY <1>1 DEF BuiltTo, BuildFields
<1> QED
  BY <1>2, <1>4, <1>6, <1>7 DEF BuiltTo

\* A finished build is a program as planned.
LEMMA FinishStep ==
  ASSUME NEW n \in Nat, BuiltTo(held, n), FinishBuild
  PROVE  ProgramAsPlanned' /\ Holds("program")'
<1> DEFINE pl == held.plan
           prog == [kind |-> "program", blob |-> held.blob, reports |-> held.reports, plan |-> pl]
           counts == [k \in DOMAIN pl.targets |-> Len(pl.targets[k])]
<1>1. held' = prog /\ held.elf = None /\ Step > Len(pl.indices)
  BY DEF FinishBuild
<1>2. PICK N \in Nat : DOMAIN pl.indices = 1..N /\ DOMAIN pl.targets = 1..N /\ DOMAIN pl.kernels = 1..N
  BY DEF BuiltTo, Ordered
<1>3. Step = n + 1
  <2>1. Len([k \in 1..n |-> <<pl.targets[k], pl.kernels[k]>>]) = n
    OBVIOUS
  <2> QED BY <2>1 DEF BuiltTo, BlobAt, Step
<1>4. Len(pl.indices) = N
  BY <1>2
<1>5. n = N
  BY <1>1, <1>3, <1>4 DEF BuiltTo
<1>6. prog.blob = BlobAt(pl, n) /\ prog.reports = [k \in 1..n |-> ReportAt(pl, k)]
  BY DEF BuiltTo
<1>7. prog.blob.patches = [k \in DOMAIN pl.targets |-> <<pl.targets[k], pl.kernels[k]>>]
  <2>1. (BlobAt(pl, n)).patches = [k \in 1..n |-> <<pl.targets[k], pl.kernels[k]>>]
    BY DEF BlobAt
  <2>2. DOMAIN pl.targets = 1..n
    BY <1>2, <1>5
  <2> HIDE DEF pl, prog
  <2> QED
    BY <1>6, <2>1, <2>2
<1>8. ProgramKeeps(counts, prog)
  <2>1. Len(prog.reports) = n /\ DOMAIN prog.reports = 1..n
    BY <1>6
  <2>2. Len(counts) = n /\ DOMAIN counts = 1..n
    BY <1>2, <1>5
  <2>3. \A k \in 1..n : prog.reports[k] = ReportAt(pl, k) /\ counts[k] = Len(pl.targets[k])
    <3>1. \A k \in 1..n : counts[k] = Len(pl.targets[k])
      BY <1>2, <1>5
    <3>2. prog.reports = [k \in 1..n |-> ReportAt(pl, k)]
      BY <1>6
    <3> HIDE DEF prog, counts, pl
    <3> QED
      BY <3>1, <3>2
  <2>4. \A k \in 1..n : /\ prog.reports[k].count = counts[k]
                        /\ prog.reports[k].in = BlobAt(pl, k - 1) /\ prog.reports[k].out = BlobAt(pl, k)
    <3>1. \A k : /\ (ReportAt(pl, k)).in = BlobAt(pl, k - 1) /\ (ReportAt(pl, k)).out = BlobAt(pl, k)
                 /\ (ReportAt(pl, k)).count = Len(pl.targets[k])
      BY DEF ReportAt
    <3> HIDE DEF prog, counts, pl
    <3> QED
      BY <2>3, <3>1
  <2>5. ASSUME NEW k \in 2..n PROVE prog.reports[k - 1].out = prog.reports[k].in
    <3>1. k \in 1..n /\ k - 1 \in 1..n
      OBVIOUS
    <3> QED BY <2>4, <3>1
  <2>6. prog.reports # <<>> => Last(prog.reports).out = prog.blob
    <3>1. ASSUME prog.reports # <<>> PROVE n \in 1..n
      <4>1. n # 0
        BY <1>6, <3>1
      <4> QED BY <4>1
    <3> QED BY <1>6, <2>1, <2>4, <3>1 DEF Last
  <2> HIDE DEF prog, counts
  <2> QED
    BY <2>1, <2>2, <2>4, <2>5, <2>6 DEF ProgramKeeps
<1>9. held'.plan = pl /\ held'.blob = prog.blob /\ held'.kind = "program"
  BY <1>1
<1> QED
  BY <1>1, <1>7, <1>8, <1>9 DEF ProgramAsPlanned, Holds

\* So is the program that PreparedIr.build() makes.
LEMMA BuildIrStep ==
  ASSUME NEW layout, NEW k, BuildIr(layout, k)
  PROVE  ProgramAsPlanned' /\ Holds("program")'
<1> DEFINE reviewed == held.prep.blob
           native == Blob(reviewed.graph, reviewed.flags, reviewed.over, layout)
           kernel == KernelSpec(k)
           base == [native |-> native, patches |-> <<>>]
           patched == [native |-> native, patches |-> <<<<held.targets, kernel>>>>]
           report == [in |-> base, out |-> patched, elf |-> kernel, count |-> Len(held.targets)]
           pl == [prep |-> held.prep, targets |-> <<held.targets>>, kernels |-> <<kernel>>]
<1>1. held' = [kind |-> "program", blob |-> patched, plan |-> pl, reports |-> <<report>>]
  BY DEF BuildIr
<1>2. /\ held'.kind = "program" /\ held'.blob = patched /\ held'.reports = <<report>>
      /\ held'.plan.targets = <<held.targets>> /\ held'.plan.kernels = <<kernel>>
  BY <1>1
<1> DEFINE counts == [j \in DOMAIN held'.plan.targets |-> Len(held'.plan.targets[j])]
<1>3. DOMAIN held'.plan.targets = {1} /\ counts = <<Len(held.targets)>>
  BY <1>2
<1>4. held'.blob.patches = [j \in DOMAIN held'.plan.targets |-> <<held'.plan.targets[j], held'.plan.kernels[j]>>]
  BY <1>2
<1>5. report.out = patched /\ report.count = Len(held.targets)
  OBVIOUS
<1> HIDE DEF report, patched, counts
<1>6. ProgramKeeps(counts, held')
  BY <1>2, <1>3, <1>5 DEF ProgramKeeps, Last
<1> QED
  BY <1>2, <1>4, <1>6 DEF ProgramAsPlanned, Holds, counts

LEMMA BuildInit == PInit => BuildInv
BY DEF PInit, BuildInv, ProgramAsPlanned, Nothing, Holds

\* The actions that touch neither a plan nor a build.
NoBuild == /\ UNCHANGED <<prepared, plan>>
           /\ UNCHANGED held \/ ("kind" \in DOMAIN held /\ held.kind \notin {"build", "program"})'

LEMMA BuildFrame == BuildInv /\ NoBuild => BuildInv'
BY DEF BuildInv, NoBuild, ProgramAsPlanned, Holds

\* Most of them make nothing that holds a blob either.
Unplanned == /\ UNCHANGED <<prepared, plan>>
             /\ UNCHANGED held \/ ("kind" \in DOMAIN held /\ held.kind \notin {"build", "program", "binding", "bundle"})'

LEMMA UnplannedSteps ==
  ASSUME "kind" \in DOMAIN held,
         \/ \E k, failed, ls : ProbeCandidates(k, failed, ls)
         \/ \E k, kind : ReviewBinding(k, kind)
         \/ \E kinds : ReviewTopology(kinds)
         \/ ProposeTopology \/ Release \/ ExportProgram \/ DamageArtifact
         \/ DriverUpdate \/ EditSource \/ UNCHANGED pvars
  PROVE  Unplanned
<1>1. CASE DamageArtifact
  BY <1>1 DEF DamageArtifact, Unplanned, Holds
<1>2. ASSUME NEW k, NEW failed, NEW ls, ProbeCandidates(k, failed, ls) PROVE Unplanned
  BY <1>2 DEF ProbeCandidates, Unplanned
<1>3. ASSUME NEW k, NEW kind, ReviewBinding(k, kind) PROVE Unplanned
  BY <1>3 DEF ReviewBinding, Unplanned
<1>4. ASSUME NEW kinds, ReviewTopology(kinds) PROVE Unplanned
  BY <1>4 DEF ReviewTopology, Unplanned
<1> QED
  BY <1>1, <1>2, <1>3, <1>4
     DEF ProposeTopology, Release, Nothing, ExportProgram, DriverUpdate, EditSource, pvars, Unplanned

LEMMA NoBuildSteps ==
  ASSUME Unplanned \/ (\E withPlan : Export(withPlan)) \/ (\E k : ReviewIr(k))
  PROVE  NoBuild
<1>1. CASE Unplanned
  BY <1>1 DEF Unplanned, NoBuild
<1>2. ASSUME NEW withPlan, Export(withPlan) PROVE NoBuild
  BY <1>2 DEF Export, NoBuild
<1>3. ASSUME NEW k, ReviewIr(k) PROVE NoBuild
  BY <1>3 DEF ReviewIr, NoBuild
<1> QED BY <1>1, <1>2, <1>3

\* What prepares a graph, plans, or starts a build.
LEMMA PreparedBuildable ==
  ASSUME BuildInv,
         \/ \E gr \in Graphs : \E l \in Layouts(gr), f \in Flags(gr) : Prepare(gr, f, l)
         \/ \E gr \in Graphs : Load(gr)
  PROVE  BuildInv'
<1>1. plan' = None /\ UNCHANGED held
  BY DEF Prepare, Load
<1>2. Buildable(prepared')
  <2>1. ASSUME NEW gr \in Graphs, NEW l, NEW f, Prepare(gr, f, l)
        PROVE  Buildable(prepared')
    BY <2>1 DEF Prepare, PreparedFor, NewPrepared, Preparable, Buildable
  <2>2. ASSUME NEW gr \in Graphs, Load(gr)
        PROVE  Buildable(prepared')
    <3>1. prepared' \in LoadPrepared(held, gr) /\ Preparable(gr)
      BY <2>2 DEF Load, LoadPrepared
    <3>2. prepared'.graph = gr
      BY <3>1, LoadedCarrier
    <3> QED
      BY <3>1, <3>2 DEF Buildable, Preparable
  <2> QED BY <2>1, <2>2
<1> QED
  BY <1>1, <1>2 DEF BuildInv, ProgramAsPlanned, Holds

LEMMA BuildBegins ==
  ASSUME BuildInv,
         \/ \E gr \in Graphs : \E l \in Layouts(gr), f \in Flags(gr) : CompileGraph(gr, f, l)
         \/ StartBuild \/ BuildPrepared
  PROVE  BuildInv'
<1>1. UNCHANGED <<prepared, plan>>
  BY DEF CompileGraph, StartBuild, BuildPrepared
<1>2. \E pl : held' = Building(pl) /\ Ordered(pl)
  <2>1. ASSUME NEW gr \in Graphs, NEW l, NEW f, CompileGraph(gr, f, l)
        PROVE  \E pl : held' = Building(pl) /\ Ordered(pl)
    <3>1. PICK p \in PreparedFor(gr, f, l) : \E pl \in PlanOf(p, <<>>, {}) : held' = Building(pl)
      BY <2>1 DEF CompileGraph
    <3>2. Buildable(p)
      BY DEF PreparedFor, NewPrepared, Preparable, Buildable
    <3> QED
      BY <3>1, <3>2, PlanOrdered
  <2>2. ASSUME StartBuild PROVE \E pl : held' = Building(pl) /\ Ordered(pl)
    BY <2>2 DEF StartBuild, BuildInv
  <2>3. ASSUME BuildPrepared PROVE \E pl : held' = Building(pl) /\ Ordered(pl)
    BY <2>3, PlanOrdered DEF BuildPrepared, BuildInv
  <2> QED BY <2>1, <2>2, <2>3
<1>3. BuiltTo(held', 0)
  BY <1>2, BuildingStarts
<1>4. "kind" \in DOMAIN held' /\ held'.kind = "build"
  BY <1>3 DEF BuiltTo, BuildFields
<1>5. \E n \in Nat : BuiltTo(held', n)
  BY <1>3
<1> QED
  BY <1>1, <1>4, <1>5 DEF BuildInv, ProgramAsPlanned, Holds

LEMMA BuildStep == ReviewInv /\ BuildInv /\ [PNext]_pvars => BuildInv'
<1> SUFFICES ASSUME ReviewInv, BuildInv, [PNext]_pvars PROVE BuildInv'
  OBVIOUS
<1>1. "kind" \in DOMAIN held
  BY DEF BuildInv
<1>2. ASSUME NoBuild PROVE BuildInv'
  BY <1>2, BuildFrame
<1>3. ASSUME DamageBundle \/ EditManifest PROVE NoBuild
  <2>1. DOMAIN held = BundleFields /\ Holds("bundle")
    BY <1>3 DEF DamageBundle, EditManifest, ReviewInv
  <2> QED
    BY <1>3, <2>1, BundleEdits DEF BundleFields, NoBuild, Holds
<1>4. ASSUME NEW c, (\E b \in Bindings : Plan(b, c)) \/ Plan(<<>>, c) PROVE BuildInv'
  <2>1. PICK b : plan' \in PlanOf(prepared, b, c)
    BY <1>4 DEF Plan
  <2>2. UNCHANGED <<prepared, held>> /\ Buildable(prepared)
    BY <1>4 DEF Plan, BuildInv
  <2>3. Ordered(plan')
    BY <2>1, <2>2, PlanOrdered
  <2> QED
    BY <2>2, <2>3 DEF BuildInv, ProgramAsPlanned, Holds
<1>5. ASSUME CompileKernel \/ PatchKernel \/ FinishBuild PROVE BuildInv'
  <2>1. UNCHANGED <<prepared, plan>>
    BY <1>5 DEF CompileKernel, PatchKernel, FinishBuild
  <2>2. PICK n \in Nat : BuiltTo(held, n)
    BY <1>5 DEF CompileKernel, PatchKernel, FinishBuild, BuildInv
  <2>3. CASE FinishBuild
    <3>1. ProgramAsPlanned' /\ Holds("program")'
      BY <2>2, <2>3, FinishStep
    <3>2. "kind" \in DOMAIN held'
      BY <2>3 DEF FinishBuild
    <3> QED
      BY <2>1, <3>1, <3>2 DEF BuildInv, Holds
  <2>4. CASE CompileKernel \/ PatchKernel
    <3>1. \E m \in Nat : BuiltTo(held', m)
      <4>1. n + 1 \in Nat
        OBVIOUS
      <4> QED BY <2>2, <2>4, <4>1, CompileStep, PatchStep
    <3>2. "kind" \in DOMAIN held' /\ held'.kind = "build"
      BY <3>1 DEF BuiltTo, BuildFields
    <3> QED
      BY <2>1, <3>1, <3>2 DEF BuildInv, ProgramAsPlanned, Holds
  <2> QED BY <1>5, <2>3, <2>4
<1>6. ASSUME NEW l, NEW k, BuildIr(l, k) PROVE BuildInv'
  <2>1. ProgramAsPlanned' /\ Holds("program")'
    BY <1>6, BuildIrStep
  <2>2. UNCHANGED <<prepared, plan>> /\ "kind" \in DOMAIN held'
    BY <1>6 DEF BuildIr
  <2> QED
    BY <2>1, <2>2 DEF BuildInv, Holds
<1> QED
  BY <1>1, <1>2, <1>3, <1>4, <1>5, <1>6, UnplannedSteps, NoBuildSteps, PreparedBuildable, BuildBegins DEF PNext

\* Every program is its carrier with exactly the planned patches, and its
\* reports chain.
THEOREM ProgramCorrect == PSpec => []ProgramAsPlanned
<1>1. BuildInv => ProgramAsPlanned
  BY DEF BuildInv
<1> QED
  BY <1>1, ReviewInit, ReviewStep, BuildInit, BuildStep, PTL DEF PSpec

-----------------------------------------------------------------------------
(* Plans: what is selected for a node.                                     *)

\* A set of natural numbers has a least member.
LEMMA SmallestOf ==
  ASSUME NEW T \in SUBSET Nat, T # {}
  PROVE  \E x \in T : \A y \in T : x <= y
<1> DEFINE Less == {ss \in Nat \X Nat : ss[1] < ss[2]}
<1>1. IsWellFoundedOn(Less, Nat)
  BY NatLessThanWellFounded DEF OpToRel
<1>2. \A a, b \in Nat : a < b => <<a, b>> \in Less
  OBVIOUS
<1> HIDE DEF Less
<1>3. PICK x \in T : \A y \in T : ~(<<y, x>> \in Less)
  BY <1>1, WFMin
<1>4. ASSUME NEW y \in T PROVE x <= y
  <2>1. x \in Nat /\ y \in Nat
    OBVIOUS
  <2>2. ~(y < x)
    BY <1>2, <1>3, <2>1, Zenon
  <2> QED
    BY <2>1, <2>2
<1> QED
  BY <1>4

\* One step of flattening.
Joined(seqs, f, i) == IF i = 1 THEN seqs[i] ELSE f[i - 1] \o seqs[i]
Flattens(seqs, f, n) == f = [i \in 1..n |-> Joined(seqs, f, i)]

\* The recursion of FlattenSeq has a solution.
LEMMA FlattenDefined ==
  ASSUME NEW seqs, NEW N \in Nat
  PROVE  \E f : Flattens(seqs, f, N)
<1> DEFINE Open == {n \in Nat : ~\E f : Flattens(seqs, f, n)}
<1>1. SUFFICES ASSUME Open # {} PROVE FALSE
  OBVIOUS
<1>2. PICK n \in Open : \A m \in Open : n <= m
  BY <1>1, SmallestOf
<1>3. n # 0
  <2>1. Flattens(seqs, <<>>, 0)
    BY DEF Flattens
  <2> QED BY <2>1
<1>4. n - 1 \in Nat /\ n - 1 \notin Open
  BY <1>2, <1>3
<1>5. PICK g : Flattens(seqs, g, n - 1)
  BY <1>4
<1> DEFINE f == [i \in 1..n |-> Joined(seqs, g, i)]
<1>6. \A i \in 1..(n - 1) : f[i] = g[i]
  BY <1>4, <1>5 DEF Flattens
<1>7. ASSUME NEW i \in 1..n PROVE Joined(seqs, g, i) = Joined(seqs, f, i)
  <2>1. CASE i = 1
    BY <2>1 DEF Joined
  <2>2. CASE i # 1
    <3>1. i - 1 \in 1..(n - 1)
      BY <2>2
    <3> HIDE DEF f
    <3> QED BY <1>6, <2>2, <3>1 DEF Joined
  <2> QED BY <2>1, <2>2
<1>8. Flattens(seqs, f, n)
  <2>1. DOMAIN f = 1..n /\ \A i \in 1..n : f[i] = Joined(seqs, f, i)
    BY <1>7
  <2>2. f = [i \in 1..n |-> f[i]]
    OBVIOUS
  <2> HIDE DEF f
  <2> QED BY <2>1, <2>2 DEF Flattens
<1> QED
  BY <1>8

\* Flattening keeps the members, and all of the last sequence.
LEMMA FlattenTyped ==
  ASSUME NEW T, NEW seqs \in Seq(Seq(T))
  PROVE  /\ FlattenSeq(seqs) \in Seq(T)
         /\ seqs # <<>> => Len(FlattenSeq(seqs)) >= Len(seqs[Len(seqs)])
<1>1. CASE seqs = <<>>
  BY <1>1 DEF FlattenSeq
<1>2. CASE seqs # <<>>
  <2> DEFINE N == Len(seqs)
             flatten == CHOOSE f : f = [i \in 1..N |-> IF i = 1 THEN seqs[i] ELSE f[i - 1] \o seqs[i]]
  <2>1. N \in Nat \ {0} /\ \A i \in 1..N : seqs[i] \in Seq(T)
    BY <1>2
  <2>2. FlattenSeq(seqs) = flatten[N]
    BY <2>1 DEF FlattenSeq
  <2>3. Flattens(seqs, flatten, N)
    <3>1. \E f : f = [i \in 1..N |-> IF i = 1 THEN seqs[i] ELSE f[i - 1] \o seqs[i]]
      BY <2>1, FlattenDefined DEF Flattens, Joined
    <3> QED BY <3>1 DEF Flattens, Joined
  <2> HIDE DEF flatten
  <2>4. \A i \in 1..N : flatten[i] = Joined(seqs, flatten, i)
    <3> DEFINE body == [i \in 1..N |-> Joined(seqs, flatten, i)]
    <3>1. flatten = body
      BY <2>3 DEF Flattens
    <3>2. \A i \in 1..N : body[i] = Joined(seqs, flatten, i)
      OBVIOUS
    <3> HIDE DEF body
    <3> QED BY <3>1, <3>2
  <2> HIDE DEF N
  <2>5. ASSUME NEW i \in 1..N, i = 1 \/ flatten[i - 1] \in Seq(T)
        PROVE  flatten[i] \in Seq(T) /\ Len(flatten[i]) >= Len(seqs[i])
    <3>1. seqs[i] \in Seq(T)
      BY <2>1
    <3>2. CASE i = 1
      <4>1. flatten[i] = seqs[i]
        BY <2>4, <3>2 DEF Joined
      <4> QED BY <3>1, <4>1
    <3>3. CASE i # 1
      <4>1. flatten[i] = flatten[i - 1] \o seqs[i]
        BY <2>4, <3>3 DEF Joined
      <4> DEFINE s == flatten[i - 1]
                 t == seqs[i]
      <4>2. s \in Seq(T) /\ t \in Seq(T)
        BY <2>5, <3>1, <3>3
      <4> HIDE DEF s, t
      <4>3. s \o t \in Seq(T) /\ Len(s \o t) >= Len(t)
        BY <4>2
      <4> QED BY <4>1, <4>3 DEF s, t
    <3> QED BY <3>2, <3>3
  <2>6. ASSUME NEW i \in 1..N PROVE flatten[i] \in Seq(T)
    <3> DEFINE Bad == {j \in 1..N : flatten[j] \notin Seq(T)}
    <3>1. SUFFICES ASSUME Bad # {} PROVE FALSE
      OBVIOUS
    <3>2. Bad \in SUBSET Nat
      OBVIOUS
    <3>3. PICK j \in Bad : \A k \in Bad : j <= k
      BY <3>1, <3>2, SmallestOf
    <3>4. j \in 1..N /\ j # 1
      BY <2>5
    <3>5. j - 1 \in 1..N /\ j - 1 \notin Bad
      BY <2>1, <3>3, <3>4
    <3> QED BY <2>5, <3>3, <3>4, <3>5
  <2>7. N \in 1..N
    BY <2>1
  <2>8. flatten[N] \in Seq(T) /\ Len(flatten[N]) >= Len(seqs[N])
    <3>1. N = 1 \/ N - 1 \in 1..N
      BY <2>1
    <3> QED BY <2>5, <2>6, <2>7, <3>1
  <2> QED
    BY <2>2, <2>8 DEF N
<1> QED BY <1>1, <1>2

\* An interval is in order already.
LEMMA AscendingInterval ==
  ASSUME NEW a \in Nat, NEW b \in Nat, a <= b + 1
  PROVE  Ascending(a..b) = [k \in 1..(b - a + 1) |-> a + k - 1]
<1> DEFINE Below(n) == {m \in a..b : m < n}
<1>1. Cardinality(a..b) = b - a + 1
  BY FS_Interval
<1>2. ASSUME NEW n \in a..b PROVE Cardinality(Below(n)) = n - a
  <2>1. Below(n) = a..(n - 1)
    OBVIOUS
  <2>2. Cardinality(a..(n - 1)) = n - a
    <3> DEFINE last == n - 1
    <3>1. a \in Int /\ last \in Int
      OBVIOUS
    <3>2. Cardinality(a..last) = IF a > last THEN 0 ELSE last - a + 1
      <4> HIDE DEF last
      <4> QED BY <3>1, FS_Interval, Zenon
    <3> QED BY <3>2
  <2> QED BY <2>1, <2>2
<1>3. ASSUME NEW k \in 1..(b - a + 1)
      PROVE  (CHOOSE n \in a..b : Cardinality(Below(n)) = k - 1) = a + k - 1
  <2>1. a + k - 1 \in a..b
    OBVIOUS
  <2> HIDE DEF Below
  <2>2. Cardinality(Below(a + k - 1)) = k - 1
    BY <1>2, <2>1
  <2>3. \A n \in a..b : Cardinality(Below(n)) = k - 1 => n = a + k - 1
    BY <1>2
  <2> QED BY <2>1, <2>2, <2>3
<1>4. Ascending(a..b) = [k \in 1..Cardinality(a..b) |-> CHOOSE n \in a..b : Cardinality(Below(n)) = k - 1]
  BY DEF Ascending
<1> HIDE DEF Below
<1> QED
  BY <1>1, <1>3, <1>4

HasTensors(t) == t.tensors \in Seq(Range(t.tensors))

LEMMA TensorsSequence ==
  ASSUME NEW t, NEW role, HasTensors(t)
  PROVE  \E n \in Nat : DOMAIN Tensors(t, role) = 1..n
<1> DEFINE S == {i \in DOMAIN t.tensors : t.tensors[i].role = role}
<1>1. IsFiniteSet(S)
  <2>1. DOMAIN t.tensors = 1..Len(t.tensors) /\ Len(t.tensors) \in Nat
    BY DEF HasTensors
  <2>2. IsFiniteSet(1..Len(t.tensors))
    BY <2>1, FS_Interval
  <2> QED BY <2>1, <2>2, FS_Subset
<1>2. Cardinality(S) \in Nat
  BY <1>1, FS_CardinalityType
<1>3. DOMAIN Tensors(t, role) = DOMAIN Ascending(S)
  BY DEF Tensors
<1>4. DOMAIN Ascending(S) = 1..Cardinality(S)
  BY DEF Ascending
<1> QED
  BY <1>2, <1>3, <1>4

LEMMA InputsSequence ==
  ASSUME NEW t, HasTensors(t)
  PROVE  Len(Inputs(t)) \in Nat /\ DOMAIN Inputs(t) = 1..Len(Inputs(t))
<1>1. PICK n \in Nat : DOMAIN Inputs(t) = 1..n
  BY TensorsSequence DEF Inputs
<1> QED BY <1>1

\* The positions of the scalar inputs of a target, and what they are if they
\* lie together.
ScalarPositions(t) == {i \in DOMAIN Inputs(t) : Inputs(t)[i].count = 1 /\ Output(t).count > 1}

LEMMA ScalarsTogether ==
  ASSUME NEW t, NEW a \in Nat, NEW b \in Nat, a <= b + 1, ScalarPositions(t) = a..b
  PROVE  ScalarInputs(t) = [k \in 1..(b - a + 1) |-> Inputs(t)[a + k - 1].index]
<1> DEFINE order == Ascending(a..b)
<1>1. ScalarInputs(t) = [k \in DOMAIN order |-> Inputs(t)[order[k]].index]
  BY DEF ScalarInputs, ScalarPositions
<1>2. order = [k \in 1..(b - a + 1) |-> a + k - 1]
  BY AscendingInterval
<1> HIDE DEF order
<1>3. DOMAIN order = 1..(b - a + 1) /\ \A k \in 1..(b - a + 1) : order[k] = a + k - 1
  BY <1>2
<1> QED
  BY <1>1, <1>3

\* A record of version 1 says of the tensors what version 2 said.
LEMMA LegacyTruthful ==
  ASSUME NEW t, HasTensors(t), NEW x \in LegacyTarget(t)
  PROVE  /\ x.v = 1 /\ x.inv = t.inv /\ x.rng = t.rng /\ x.inputs = Len(Inputs(t))
         /\ LegacyDtype(x) = Output(t).dtype /\ Output(t).dtype # "none"
         /\ \A i \in DOMAIN Inputs(t) : Inputs(t)[i].dtype = Output(t).dtype
         /\ LegacyScalars(x) = ScalarInputs(t)
<1> DEFINE in == Inputs(t)
           out == Output(t)
           scalar == Len(in) = 2 /\ in[2].count = 1 /\ out.count > 1
           S == ScalarPositions(t)
           flags == {IF out.dtype = "f16" THEN "fp16" ELSE "fp32"} \cup (IF scalar THEN {"scalar"} ELSE {})
<1>1. /\ Len(in) \in {1, 2} /\ \A i \in DOMAIN in : in[i].index = i - 1 /\ in[i].dtype = out.dtype
      /\ out.dtype \in {"f16", "f32"} /\ in[1].count = out.count
      /\ x = [v |-> 1, inv |-> t.inv, rng |-> t.rng, inputs |-> Len(in),
              count |-> out.count, span |-> out.span, flags |-> flags]
  BY DEF LegacyTarget, Output, Require
<1>2. DOMAIN in = 1..Len(in)
  BY InputsSequence
<1>3. x.v = 1 /\ x.inv = t.inv /\ x.rng = t.rng /\ x.inputs = Len(in) /\ x.flags = flags
  BY <1>1
<1>4. LegacyDtype(x) = out.dtype
  BY <1>1, <1>3 DEF LegacyDtype
<1>5. LegacyScalars(x) = IF scalar THEN <<1>> ELSE <<>>
  BY <1>3 DEF LegacyScalars
<1>6. LegacyScalars(x) = ScalarInputs(t)
  <2>1. CASE scalar
    <3>1. S = 2..2
      <4>1. 1 \notin S
        BY <1>1, <2>1 DEF ScalarPositions
      <4>2. 2 \in S /\ S \subseteq 1..2
        BY <1>2, <2>1 DEF ScalarPositions
      <4> HIDE DEF S
      <4>3. \A i : i \in S <=> i = 2
        <5>1. \A i \in 1..2 : i = 1 \/ i = 2
          OBVIOUS
        <5> QED BY <4>1, <4>2, <5>1, Zenon
      <4>4. 2..2 = {2}
        OBVIOUS
      <4>5. S = {2}
        BY <4>3, Zenon
      <4> QED BY <4>4, <4>5
    <3>2. ScalarInputs(t) = [k \in 1..(2 - 2 + 1) |-> in[2 + k - 1].index]
      <4>1. 2 \in Nat /\ 2 <= 2 + 1
        OBVIOUS
      <4> QED BY <3>1, <4>1, ScalarsTogether, Zenon
    <3>3. in[2].index = 1
      BY <1>1, <1>2, <2>1
    <3> HIDE DEF in
    <3>4. [k \in 1..(2 - 2 + 1) |-> in[2 + k - 1].index] = <<1>>
      BY <3>3
    <3> QED BY <1>5, <2>1, <3>2, <3>4
  <2>2. CASE ~scalar
    <3>1. S = 1..0
      <4>1. 1 \notin S
        BY <1>1 DEF ScalarPositions
      <4>2. 2 \notin S
        BY <1>1, <1>2, <2>2 DEF ScalarPositions
      <4>3. S \subseteq 1..2
        BY <1>1, <1>2 DEF ScalarPositions
      <4> HIDE DEF S
      <4> QED BY <4>1, <4>2, <4>3
    <3>2. ScalarInputs(t) = [k \in 1..(0 - 1 + 1) |-> in[1 + k - 1].index]
      <4> DEFINE a == 1
                 b == 0
      <4>1. a \in Nat /\ b \in Nat /\ a <= b + 1 /\ S = a..b
        BY <3>1
      <4> HIDE DEF a, b
      <4>2. ScalarInputs(t) = [k \in 1..(b - a + 1) |-> in[a + k - 1].index]
        BY <4>1, ScalarsTogether, Zenon
      <4> QED BY <4>2 DEF a, b
    <3> HIDE DEF in
    <3>3. [k \in 1..(0 - 1 + 1) |-> in[1 + k - 1].index] = <<>>
      OBVIOUS
    <3> QED BY <1>5, <2>2, <3>2, <3>3
  <2> QED BY <2>1, <2>2
<1> QED
  BY <1>1, <1>3, <1>4, <1>6

\* Targets that are projected to version 1 still compute what the node declares,
\* and are the same invocations.
LEMMA LegacyKeeps ==
  ASSUME NEW in, NEW outs, NEW targets, targets \in Seq(Range(targets)), Version(targets, 2),
         \A i \in DOMAIN targets : HasTensors(targets[i]),
         TargetsMatch(in, outs, targets, FALSE), NEW legacy \in LegacyTargets(targets)
  PROVE  TargetsMatch(in, outs, legacy, FALSE) /\ Invocations(legacy) = Invocations(targets)
<1> DEFINE d == outs[1].dtype
           dtypes == [i \in DOMAIN in |-> in[i].dtype]
           scalars == CustomScalarInputIndices(in, outs[1])
<1>1. /\ DOMAIN legacy = DOMAIN targets
      /\ \A i \in DOMAIN targets : legacy[i] \in LegacyTarget(targets[i])
  BY DEF LegacyTargets
<1>2. DOMAIN targets = 1..Len(targets) /\ 1 \in DOMAIN targets /\ Len(outs) = 1
  BY DEF TargetsMatch
<1>3. \A i \in DOMAIN targets : /\ InputDtypes(targets[i]) = dtypes
                                /\ Output(targets[i]).dtype = d
                                /\ ScalarInputs(targets[i]) = scalars
  <2>1. ~Version(targets, 1)
    BY <1>2 DEF Version
  <2> QED BY <2>1 DEF TargetsMatch, ContractMatch
<1>4. \A i \in DOMAIN targets :
        LET t == targets[i]
            x == legacy[i]
        IN /\ x.v = 1 /\ x.inv = t.inv /\ x.rng = t.rng /\ x.inputs = Len(Inputs(t))
           /\ LegacyDtype(x) = Output(t).dtype /\ Output(t).dtype # "none"
           /\ \A k \in DOMAIN Inputs(t) : Inputs(t)[k].dtype = Output(t).dtype
           /\ LegacyScalars(x) = ScalarInputs(t)
  BY <1>1, LegacyTruthful
<1>5. Invocations(legacy) = Invocations(targets)
  <2>1. \A i \in DOMAIN targets : <<legacy[i].inv, legacy[i].rng>> = <<targets[i].inv, targets[i].rng>>
    BY <1>4
  <2> QED BY <1>1, <2>1 DEF Invocations
<1>6. ASSUME NEW i \in DOMAIN targets
      PROVE  /\ legacy[i].inputs = Len(in) /\ LegacyDtype(legacy[i]) = d /\ d # "none"
             /\ \A k \in DOMAIN in : in[k].dtype = d
             /\ LegacyScalars(legacy[i]) = scalars
  <2> DEFINE t == targets[i]
             ins == Inputs(t)
             seen == [k \in DOMAIN ins |-> ins[k].dtype]
  <2>1. seen = dtypes
    BY <1>3 DEF InputDtypes
  <2>2. DOMAIN ins = DOMAIN in
    <3>1. DOMAIN seen = DOMAIN ins /\ DOMAIN dtypes = DOMAIN in
      OBVIOUS
    <3> QED BY <2>1, <3>1
  <2>3. \A k \in DOMAIN in : in[k].dtype = ins[k].dtype
    <3>1. \A k \in DOMAIN in : dtypes[k] = in[k].dtype /\ seen[k] = ins[k].dtype
      BY <2>2
    <3> QED BY <2>1, <3>1
  <2>4. Len(in) = Len(ins)
    BY <2>2, InputsSequence
  <2>5. d # "none" /\ \A k \in DOMAIN ins : ins[k].dtype = d
    BY <1>3, <1>4
  <2>6. legacy[i].inputs = Len(ins) /\ LegacyDtype(legacy[i]) = d /\ LegacyScalars(legacy[i]) = scalars
    BY <1>3, <1>4
  <2> HIDE DEF ins, d, scalars
  <2> QED BY <2>2, <2>3, <2>4, <2>5, <2>6
<1>7. Version(legacy, 1)
  BY <1>1, <1>4 DEF Version
<1>8. d \in Stable(Each(legacy, LegacyDtype)) \ {"none"}
  <2>1. Each(legacy, LegacyDtype) = {d}
    <3>1. \A i \in DOMAIN legacy : LegacyDtype(legacy[i]) = d
      BY <1>1, <1>6
    <3>2. 1 \in DOMAIN legacy
      BY <1>1, <1>2
    <3> HIDE DEF d
    <3> QED BY <3>1, <3>2 DEF Each
  <2>2. Stable({d}) = {d}
    BY FS_Singleton DEF Stable
  <2>3. d # "none"
    BY <1>2, <1>6
  <2> QED BY <2>1, <2>2, <2>3
<1>9. \A x \in Range(dtypes) \cup {d} : x = d
  <2>1. \A k \in DOMAIN in : in[k].dtype = d
    BY <1>2, <1>6
  <2> HIDE DEF d
  <2>2. \A k \in DOMAIN dtypes : dtypes[k] = d
    BY <2>1
  <2> HIDE DEF dtypes
  <2> QED BY <2>2 DEF Range
<1>10. ContractMatch(in, outs, legacy)
  <2>1. \A i \in DOMAIN legacy : legacy[i].inputs = Len(in) /\ LegacyScalars(legacy[i]) = scalars
    BY <1>1, <1>6
  <2>2. \E e \in Stable(Each(legacy, LegacyDtype)) \ {"none"} : \A x \in Range(dtypes) \cup {outs[1].dtype} : x = e
    BY <1>8, <1>9
  <2> QED BY <1>7, <2>1, <2>2 DEF ContractMatch
<1>11. legacy # <<>>
  BY <1>1, <1>2
<1> QED
  BY <1>2, <1>5, <1>10, <1>11 DEF TargetsMatch

\* The one layout of four rows has the tensors that the node declares.
LEMMA HybridMatches ==
  ASSUME NEW T, NEW in, NEW outs, NEW groups \in Seq(Seq(T)), \A t \in T : t.v = 2,
         NEW targets \in CombinedHybrid(in, outs, groups)
  PROVE  TargetsMatch(in, outs, targets, FALSE) /\ targets = FlattenSeq(groups)
<1> DEFINE Tensor(role, k, n, seen) ==
             [role |-> role, index |-> k, dtype |-> "f16", count |-> n, span |-> 2 * n, seen |-> seen]
           expected == <<Tensor("input", 0, 4, 7), Tensor("input", 1, 4, 7), Tensor("input", 2, 1, 7),
                         Tensor("input", 3, 1, 7), Tensor("input", 4, 1, 7), Tensor("output", 0, 4, 15)>>
           shapes == <<<<4, 8>>, <<4, 8>>, <<4, 1>>, <<4, 1>>, <<4, 1>>>>
<1>1. /\ Len(groups) = 4 /\ \A i \in 1..4 : Len(groups[i]) = 4
      /\ outs = <<[shape |-> <<4, 8>>, dtype |-> "f16"]>>
      /\ [i \in DOMAIN in |-> in[i].shape] = shapes
      /\ \A i \in DOMAIN in : in[i].dtype = "f16"
      /\ \A i \in DOMAIN targets : targets[i].tensors = expected
      /\ targets = FlattenSeq(groups)
  BY DEF CombinedHybrid, Require
<1>2. targets \in Seq(T) /\ Len(targets) >= 4
  <2>1. targets \in Seq(T) /\ (groups # <<>> => Len(targets) >= Len(groups[Len(groups)]))
    BY <1>1, FlattenTyped
  <2>2. Len(groups) = 4 /\ Len(groups[4]) = 4
    BY <1>1
  <2>3. groups # <<>> /\ Len(targets) >= 4
    BY <2>1, <2>2
  <2> QED BY <2>1, <2>3
<1>3. Version(targets, 2) /\ targets # <<>>
  BY <1>2 DEF Version
<1>4. DOMAIN in = 1..5 /\ \A i \in 1..5 : in[i].shape = shapes[i]
  <2> DEFINE found == [i \in DOMAIN in |-> in[i].shape]
  <2>1. DOMAIN found = DOMAIN in /\ \A i \in DOMAIN in : found[i] = in[i].shape
    OBVIOUS
  <2>2. DOMAIN shapes = 1..5
    OBVIOUS
  <2>3. found = shapes
    BY <1>1
  <2> HIDE DEF found, shapes
  <2> QED BY <2>1, <2>2, <2>3
<1>5. CustomScalarInputIndices(in, outs[1]) = <<2, 3, 4>>
  <2>1. outs[1].shape = <<4, 8>> /\ Len(in) = 5
    BY <1>1, <1>4
  <2>2. /\ in[1].shape = <<4, 8>> /\ in[2].shape = <<4, 8>> /\ in[3].shape = <<4, 1>>
        /\ in[4].shape = <<4, 1>> /\ in[5].shape = <<4, 1>>
    BY <1>4
  <2>3. <<4, 8>> # <<1, 32>> /\ <<4, 8>> # <<4, 1>>
    OBVIOUS
  <2>4. \A i \in 1..(3 - 1) : in[i].shape = <<4, 8>>
    BY <2>2
  <2>5. \A i \in 3..5 : in[i].shape = <<4, 1>>
    BY <2>2
  <2>6. ~\A i \in 2..5 : in[i].shape = <<4, 1>>
    BY <2>2, <2>3
  <2> QED
    BY <2>1, <2>3, <2>4, <2>5, <2>6 DEF CustomScalarInputIndices
<1>6. ASSUME NEW t, t.tensors = expected
      PROVE  /\ DOMAIN Inputs(t) = 1..5 /\ \A i \in 1..5 : Inputs(t)[i] = expected[i]
             /\ Output(t) = expected[6]
  <2>1. {i \in DOMAIN expected : expected[i].role = "input"} = 1..5
    OBVIOUS
  <2>2. {i \in DOMAIN expected : expected[i].role = "output"} = 6..6
    OBVIOUS
  <2>3. Ascending(1..5) = [k \in 1..(5 - 1 + 1) |-> 1 + k - 1]
    <3>1. 1 \in Nat /\ 5 \in Nat /\ 1 <= 5 + 1
      OBVIOUS
    <3> QED BY <3>1, AscendingInterval, Zenon
  <2>4. Ascending(6..6) = [k \in 1..(6 - 6 + 1) |-> 6 + k - 1]
    <3>1. 6 \in Nat /\ 6 <= 6 + 1
      OBVIOUS
    <3> QED BY <3>1, AscendingInterval, Zenon
  <2> HIDE DEF expected
  <2>5. Inputs(t) = [k \in DOMAIN Ascending(1..5) |-> expected[Ascending(1..5)[k]]]
    BY <1>6, <2>1 DEF Inputs, Tensors
  <2>6. Output(t) = [k \in DOMAIN Ascending(6..6) |-> expected[Ascending(6..6)[k]]][1]
    BY <1>6, <2>2 DEF Output, Tensors
  <2>7. DOMAIN Ascending(1..5) = 1..5 /\ \A k \in 1..5 : Ascending(1..5)[k] = k
    BY <2>3
  <2>8. DOMAIN Ascending(6..6) = 1..1 /\ Ascending(6..6)[1] = 6
    BY <2>4
  <2> QED BY <2>5, <2>6, <2>7, <2>8
<1>7. ASSUME NEW t, t.tensors = expected
      PROVE  /\ InputDtypes(t) = [i \in DOMAIN in |-> in[i].dtype]
             /\ Output(t).dtype = outs[1].dtype
             /\ ScalarInputs(t) = <<2, 3, 4>>
  <2>1. /\ DOMAIN Inputs(t) = 1..5 /\ \A i \in 1..5 : Inputs(t)[i] = expected[i]
        /\ Output(t) = expected[6]
    BY <1>6, <1>7
  <2>2. InputDtypes(t) = [i \in DOMAIN in |-> in[i].dtype]
    <3>1. \A i \in 1..5 : expected[i].dtype = "f16"
      OBVIOUS
    <3> HIDE DEF expected
    <3> QED BY <1>1, <1>4, <2>1, <3>1 DEF InputDtypes
  <2>3. ScalarPositions(t) = 3..5
    <3>1. expected[6].count > 1 /\ \A i \in 1..5 : expected[i].count = 1 <=> i \in 3..5
      OBVIOUS
    <3>2. 3..5 \subseteq 1..5
      OBVIOUS
    <3> HIDE DEF expected
    <3> QED BY <2>1, <3>1, <3>2 DEF ScalarPositions
  <2>4. ScalarInputs(t) = [k \in 1..(5 - 3 + 1) |-> Inputs(t)[3 + k - 1].index]
    <3> DEFINE a == 3
               b == 5
    <3>1. a \in Nat /\ b \in Nat /\ a <= b + 1 /\ ScalarPositions(t) = a..b
      BY <2>3
    <3> HIDE DEF a, b
    <3>2. ScalarInputs(t) = [k \in 1..(b - a + 1) |-> Inputs(t)[a + k - 1].index]
      BY <3>1, ScalarsTogether
    <3> QED BY <3>2 DEF a, b
  <2>5. Inputs(t)[3].index = 2 /\ Inputs(t)[4].index = 3 /\ Inputs(t)[5].index = 4
    BY <2>1
  <2>6. [k \in 1..(5 - 3 + 1) |-> Inputs(t)[3 + k - 1].index] = <<2, 3, 4>>
    BY <2>5
  <2>7. Output(t).dtype = outs[1].dtype
    BY <1>1, <2>1
  <2> QED BY <2>2, <2>4, <2>6, <2>7
<1>8. ContractMatch(in, outs, targets)
  <2> HIDE DEF expected
  <2> QED BY <1>1, <1>3, <1>5, <1>7 DEF ContractMatch
<1>9. Len(outs) = 1
  BY <1>1
<1> QED
  BY <1>1, <1>3, <1>8, <1>9 DEF TargetsMatch

\* What a node gets from some groups is made of their targets and computes
\* what the node declares.
LEMMA SelectedSound ==
  ASSUME NEW T, NEW in, NEW outs, NEW groups \in Seq(Seq(T)), NEW targets \in Selected(in, outs, groups)
  PROVE  /\ targets \in Seq(T)
         /\ TargetsMatch(in, outs, targets, Len(groups) > 1 /\ Version(targets, 1))
         /\ Len(groups) = 1 => TargetsMatch(in, outs, targets, FALSE)
<1>1. CASE Len(groups) = 1
  <2>1. targets = groups[1] /\ TargetsMatch(in, outs, targets, FALSE)
    BY <1>1 DEF Selected, Require
  <2>2. (Len(groups) > 1 /\ Version(targets, 1)) = FALSE
    BY <1>1
  <2>3. targets \in Seq(T)
    <3>1. 1 \in DOMAIN groups
      BY <1>1
    <3> QED BY <2>1, <3>1
  <2> QED BY <2>1, <2>2, <2>3, Zenon
<1>2. CASE Len(groups) # 1 /\ targets \in CombinedCustomTargets(in, outs, groups)
  <2>1. targets = FlattenSeq(groups) /\ TargetsMatch(in, outs, targets, TRUE)
    BY <1>2 DEF CombinedCustomTargets, Require
  <2>2. \A cover \in BOOLEAN : TargetsMatch(in, outs, targets, cover)
    BY <2>1 DEF TargetsMatch
  <2>3. (Len(groups) > 1 /\ Version(targets, 1)) \in BOOLEAN
    BY Zenon DEF Version
  <2>4. targets \in Seq(T)
    BY <2>1, FlattenTyped
  <2> QED BY <1>2, <2>2, <2>3, <2>4, Zenon
<1>3. CASE /\ Len(groups) # 1 /\ targets \in CombinedHybrid(in, outs, groups)
           /\ \A i \in DOMAIN groups : Version(groups[i], 2)
  <2> DEFINE V == {t \in T : t.v = 2}
  <2>1. groups \in Seq(Seq(V))
    <3>1. ASSUME NEW i \in DOMAIN groups PROVE groups[i] \in Seq(V)
      <4> DEFINE s == groups[i]
      <4>1. s \in Seq(T) /\ \A j \in DOMAIN s : s[j].v = 2
        BY <1>3 DEF Version
      <4> HIDE DEF s
      <4>2. \A j \in DOMAIN s : s[j] \in V
        BY <4>1
      <4> HIDE DEF V
      <4>3. s \in Seq(V)
        BY <4>1, <4>2
      <4> QED BY <4>3 DEF s
    <3> HIDE DEF V
    <3> QED BY <3>1
  <2>2. \A t \in V : t.v = 2
    OBVIOUS
  <2>3. V \subseteq T
    OBVIOUS
  <2> HIDE DEF V
  <2>4. TargetsMatch(in, outs, targets, FALSE) /\ targets = FlattenSeq(groups)
    <3>1. targets \in CombinedHybrid(in, outs, groups)
      BY <1>3
    <3> QED BY <2>1, <2>2, <3>1, HybridMatches
  <2>5. targets \in Seq(V)
    BY <2>1, <2>4, FlattenTyped
  <2>6. ~Version(targets, 1)
    <3>1. targets # <<>>
      BY <2>4 DEF TargetsMatch
    <3>2. 1 \in DOMAIN targets
      BY <2>5, <3>1
    <3>3. targets[1].v = 2
      BY <2>2, <2>5, <3>2
    <3> QED BY <3>2, <3>3 DEF Version
  <2>7. targets \in Seq(T)
    BY <2>3, <2>5
  <2> QED BY <1>3, <2>4, <2>6, <2>7
<1> QED
  BY <1>1, <1>2, <1>3 DEF Selected

\* The groups of a prepared graph are those that discovery lists, or none.
LEMMA GroupsDiscovered ==
  ASSUME NEW p, Discovered(p.blob.layout.groups)
  PROVE  Discovered(Groups(p)) /\ InvocationsOf(Groups(p)) \subseteq InvocationsOf(p.blob.layout.groups)
<1>1. CASE Groups(p) = <<>>
  <2>1. Range(<<>>) = {} /\ DOMAIN <<>> = {}
    BY DEF Range
  <2>2. Discovered(<<>>)
    BY <2>1 DEF Discovered
  <2>3. InvocationsOf(<<>>) = {}
    BY <2>1 DEF InvocationsOf
  <2> QED BY <1>1, <2>2, <2>3
<1>2. CASE Groups(p) = p.blob.layout.groups
  BY <1>2
<1> QED
  BY <1>1, <1>2 DEF Groups

\* The invocations of the groups with some indices.
InvocationsAt(groups, is) == UNION {Invocations(groups[i + 1]) : i \in is}

LEMMA TargetsSound ==
  ASSUME NEW p, NEW k, NEW indices, p.graph.embedded = {}, Discovered(p.blob.layout.groups),
         NEW t \in TargetsOf(p, k, indices)
  PROVE  LET g == p.graph.g
             n == Customs(p.graph)[k]
         IN /\ indices \in Seq(0..(Len(Groups(p)) - 1))
            /\ TargetsMatch(InSpecs(g, n), g[n].specs, t, Len(indices) > 1 /\ Version(t, 1))
            /\ Invocations(t) \subseteq InvocationsAt(Groups(p), Range(indices))
<1> DEFINE n == Customs(p.graph)[k]
           in == InSpecs(p.graph.g, n)
           outs == p.graph.g[n].specs
           G == Groups(p)
           all == UNION {Range(group) : group \in Range(G)}
           T == UNION {Range(G[i + 1]) : i \in Range(indices)}
           groups == [i \in DOMAIN indices |-> G[indices[i] + 1]]
<1>1. G \in Seq(Seq(all)) /\ \A x \in all : x.v = 2 => HasTensors(x)
  <2>1. Discovered(G)
    BY GroupsDiscovered
  <2> HIDE DEF G
  <2> QED BY <2>1 DEF Discovered, HasTensors
<1> DEFINE chosen == IF indices \in Seq(0..(Len(G) - 1)) THEN Selected(in, outs, groups) ELSE {}
<1>2. PICK c \in chosen : t \in IF Len(groups) = 1 /\ Version(c, 2) THEN OrElse(LegacyTargets(c), c) ELSE {c}
  BY DEF TargetsOf
<1>3. indices \in Seq(0..(Len(G) - 1)) /\ c \in Selected(in, outs, groups)
  BY <1>2
<1>4. groups \in Seq(Seq(T)) /\ Len(groups) = Len(indices) /\ T \subseteq all
  <2>1. ASSUME NEW i \in DOMAIN indices
        PROVE  /\ indices[i] + 1 \in DOMAIN G /\ G[indices[i] + 1] \in Seq(T)
               /\ Range(G[indices[i] + 1]) \subseteq all
    <3> DEFINE j == indices[i] + 1
               s == G[j]
    <3>1. indices[i] \in 0..(Len(G) - 1) /\ indices[i] \in Range(indices)
      BY <1>3 DEF Range
    <3>2. j \in DOMAIN G
      BY <1>1, <3>1
    <3>3. s \in Seq(all)
      BY <1>1, <3>2
    <3>4. Range(s) \subseteq T
      BY <3>1
    <3>5. s \in Range(G)
      BY <3>2 DEF Range
    <3>6. Range(s) \subseteq all
      BY <3>5
    <3> HIDE DEF T, s, all
    <3>7. \A m \in DOMAIN s : s[m] \in T
      BY <3>4 DEF Range
    <3>8. s \in Seq(T)
      BY <3>3, <3>7
    <3> QED BY <3>2, <3>6, <3>8 DEF s
  <2>2. DOMAIN indices = 1..Len(indices) /\ Len(indices) \in Nat
    BY <1>3
  <2>3. T \subseteq all
    <3>1. ASSUME NEW x \in T PROVE x \in all
      <4>1. PICK i \in DOMAIN indices : x \in Range(G[indices[i] + 1])
        BY DEF Range
      <4> QED BY <2>1, <4>1
    <3> QED BY <3>1
  <2> HIDE DEF T, G
  <2>4. \A i \in DOMAIN indices : groups[i] \in Seq(T)
    BY <2>1
  <2>5. groups = [i \in 1..Len(indices) |-> groups[i]]
    BY <2>2
  <2> HIDE DEF groups
  <2> QED BY <2>2, <2>3, <2>4, <2>5
<1> HIDE DEF in, outs, T, groups, chosen
<1>5. /\ c \in Seq(T) /\ TargetsMatch(in, outs, c, Len(indices) > 1 /\ Version(c, 1))
      /\ Len(indices) = 1 => TargetsMatch(in, outs, c, FALSE)
  BY <1>3, <1>4, SelectedSound
<1>6. Invocations(c) \subseteq InvocationsAt(G, Range(indices))
  <2>1. ASSUME NEW x \in T PROVE <<x.inv, x.rng>> \in InvocationsAt(G, Range(indices))
    <3>1. PICK i \in Range(indices) : x \in Range(G[i + 1])
      BY DEF T
    <3>2. <<x.inv, x.rng>> \in Invocations(G[i + 1])
      <4> DEFINE s == G[i + 1]
      <4>1. PICK m \in DOMAIN s : x = s[m]
        BY <3>1 DEF Range
      <4> HIDE DEF s
      <4>2. <<x.inv, x.rng>> \in Invocations(s)
        BY <4>1 DEF Invocations
      <4> QED BY <4>2 DEF s
    <3> QED BY <3>1, <3>2 DEF InvocationsAt
  <2>2. \A i \in DOMAIN c : c[i] \in T
    BY <1>5
  <2> QED BY <2>1, <2>2 DEF Invocations
<1>7. CASE t = c
  BY <1>3, <1>5, <1>6, <1>7 DEF in, outs
<1>8. CASE Len(groups) = 1 /\ Version(c, 2) /\ t \in LegacyTargets(c)
  <2>1. Len(indices) = 1
    BY <1>4, <1>8
  <2>2. c \in Seq(Range(c)) /\ \A i \in DOMAIN c : HasTensors(c[i])
    <3>1. \A i \in DOMAIN c : c[i] \in T /\ c[i].v = 2
      BY <1>5, <1>8 DEF Version
    <3>2. c \in Seq(Range(c))
      BY <1>5 DEF Range
    <3> QED BY <1>1, <1>4, <3>1, <3>2
  <2>3. TargetsMatch(in, outs, t, FALSE) /\ Invocations(t) = Invocations(c)
    BY <1>5, <1>8, <2>1, <2>2, LegacyKeeps
  <2>4. (Len(indices) > 1 /\ Version(t, 1)) = FALSE
    BY <2>1
  <2> QED BY <1>3, <1>6, <2>3, <2>4 DEF in, outs
<1> QED
  BY <1>2, <1>7, <1>8 DEF OrElse

\* Groups with different indices have no invocation in common.
LEMMA InvocationsApart ==
  ASSUME NEW groups, Discovered(groups), NEW is, NEW js,
         is \subseteq 0..(Len(groups) - 1), js \subseteq 0..(Len(groups) - 1), is \cap js = {}
  PROVE  InvocationsAt(groups, is) \cap InvocationsAt(groups, js) = {}
<1> SUFFICES ASSUME NEW x \in InvocationsAt(groups, is), x \in InvocationsAt(groups, js) PROVE FALSE
  OBVIOUS
<1>1. PICK i \in is : x \in Invocations(groups[i + 1])
  BY DEF InvocationsAt
<1>2. PICK j \in js : x \in Invocations(groups[j + 1])
  BY DEF InvocationsAt
<1>3. i # j /\ i \in 0..(Len(groups) - 1) /\ j \in 0..(Len(groups) - 1)
  OBVIOUS
<1>4. PICK u \in DOMAIN groups[i + 1] : x = <<groups[i + 1][u].inv, groups[i + 1][u].rng>>
  BY <1>1 DEF Invocations
<1>5. PICK v \in DOMAIN groups[j + 1] : x = <<groups[j + 1][v].inv, groups[j + 1][v].rng>>
  BY <1>2 DEF Invocations
<1>6. i + 1 \in DOMAIN groups /\ j + 1 \in DOMAIN groups /\ i + 1 # j + 1
  <2>1. DOMAIN groups = 1..Len(groups) /\ Len(groups) \in Nat
    BY DEF Discovered
  <2> QED BY <1>3, <2>1
<1>7. groups[i + 1][u].inv = groups[j + 1][v].inv
  BY <1>4, <1>5
<1> QED
  BY <1>4, <1>5, <1>6, <1>7 DEF Discovered

-----------------------------------------------------------------------------
(* Plans: the invariant.                                                   *)

\* What PlanSound asks of a plan.
PlannedWell(pl) ==
  LET gr == pl.prep.graph
  IN gr.embedded = {} =>
       /\ DOMAIN pl.targets = Nodes(gr)
       /\ InvocationsOf(Groups(pl.prep)) \subseteq InvocationsOf(pl.prep.blob.layout.groups)
       /\ \A k \in Nodes(gr) :
            /\ \A j \in Nodes(gr) \ {k} : Invocations(pl.targets[j]) \cap Invocations(pl.targets[k]) = {}
            /\ Invocations(pl.targets[k]) \subseteq InvocationsOf(Groups(pl.prep))
            /\ LET n == Customs(gr)[k]
               IN TargetsMatch(InSpecs(gr.g, n), gr.g[n].specs, pl.targets[k],
                               Len(pl.indices[k]) > 1 /\ Version(pl.targets[k], 1))

\* What it asks of a program.
PatchedWell(prog) ==
  LET patched(k) == Invocations(prog.blob.patches[k][1])
  IN prog.plan.prep.graph.embedded = {} =>
       \A k \in DOMAIN prog.blob.patches :
         /\ \A j \in DOMAIN prog.blob.patches \ {k} : patched(j) \cap patched(k) = {}
         /\ patched(k) \subseteq InvocationsOf(prog.blob.native.layout.groups)

\* The targets of a binding are of the carrier that it was reviewed for.
BoundWell(b) ==
  b.prep.graph.embedded = {} => Invocations(b.targets) \subseteq InvocationsOf(b.prep.blob.layout.groups)

PlanInv ==
  /\ "kind" \in DOMAIN held
  /\ prepared # None => Discovered(prepared.blob.layout.groups)
  /\ plan # None => PlannedWell(plan)
  /\ Holds("build") => PlannedWell(held.plan)
  /\ Holds("binding") => BoundWell(held)
  /\ Holds("program") => PatchedWell(held)
  /\ Holds("bundle") => DOMAIN held = BundleFields /\ Discovered(held.carrier.layout.groups)

\* Whatever is planned for a discovered layout is planned well.
LEMMA PlanOfWell ==
  ASSUME NEW p, NEW bindings, NEW compiled, Discovered(p.blob.layout.groups), NEW pl \in PlanOf(p, bindings, compiled)
  PROVE  PlannedWell(pl)
<1> DEFINE gr == p.graph
           G == Groups(p)
<1>1. PICK r \in Resolve(p, bindings) : pl.prep = p /\ pl.indices = r.indices /\ pl.targets = r.targets
  BY DEF PlanOf
<1>2. SUFFICES ASSUME gr.embedded = {} PROVE PlannedWell(pl)
  BY <1>1 DEF PlannedWell
<1>3. Discovered(G) /\ InvocationsOf(G) \subseteq InvocationsOf(p.blob.layout.groups)
  BY GroupsDiscovered
<1>4. /\ DOMAIN r.indices = Nodes(gr) /\ DOMAIN r.targets = Nodes(gr) /\ NoGroupTwice(r.indices)
      /\ \A k \in Nodes(gr) : r.targets[k] \in TargetsOf(p, k, r.indices[k])
  BY <1>2, ResolvedFrom
<1>5. ASSUME NEW k \in Nodes(gr)
      PROVE  LET n == Customs(gr)[k]
             IN /\ r.indices[k] \in Seq(0..(Len(G) - 1))
                /\ TargetsMatch(InSpecs(gr.g, n), gr.g[n].specs, r.targets[k],
                                Len(r.indices[k]) > 1 /\ Version(r.targets[k], 1))
                /\ Invocations(r.targets[k]) \subseteq InvocationsAt(G, Range(r.indices[k]))
  BY <1>2, <1>4, TargetsSound
<1> HIDE DEF gr, G
<1>6. ASSUME NEW k \in Nodes(gr) PROVE Range(r.indices[k]) \subseteq 0..(Len(G) - 1)
  BY <1>5 DEF Range
<1>7. ASSUME NEW k \in Nodes(gr), NEW j \in Nodes(gr) \ {k}
      PROVE  Invocations(r.targets[j]) \cap Invocations(r.targets[k]) = {}
  <2>1. Range(r.indices[j]) \cap Range(r.indices[k]) = {}
    BY <1>4 DEF NoGroupTwice
  <2>2. InvocationsAt(G, Range(r.indices[j])) \cap InvocationsAt(G, Range(r.indices[k])) = {}
    BY <1>3, <1>6, <2>1, InvocationsApart
  <2> QED BY <1>5, <2>2
<1>8. ASSUME NEW k \in Nodes(gr) PROVE Invocations(r.targets[k]) \subseteq InvocationsOf(G)
  <2>1. ASSUME NEW i \in Range(r.indices[k]) PROVE G[i + 1] \in Range(G)
    <3>1. i \in 0..(Len(G) - 1)
      BY <1>6
    <3>2. i + 1 \in DOMAIN G
      BY <1>3, <3>1 DEF Discovered
    <3> QED BY <3>2 DEF Range
  <2>2. InvocationsAt(G, Range(r.indices[k])) \subseteq InvocationsOf(G)
    BY <2>1 DEF InvocationsAt, InvocationsOf
  <2> QED BY <1>5, <2>2
<1>9. pl.prep.graph = gr /\ Groups(pl.prep) = G
  BY <1>1 DEF gr, G
<1> QED
  BY <1>1, <1>3, <1>4, <1>5, <1>7, <1>8, <1>9 DEF PlannedWell

LEMMA PlanInit == PInit => PlanInv
BY DEF PInit, PlanInv, Nothing, Holds

LEMMA PlanFrame == PlanInv /\ Unplanned => PlanInv'
BY DEF PlanInv, Unplanned, Holds

LEMMA PreparedDiscovered ==
  ASSUME NEW gr \in Graphs, NEW flags, NEW layout \in Layouts(gr), NEW p \in PreparedFor(gr, flags, layout)
  PROVE  Discovered(p.blob.layout.groups)
<1>1. p.blob.layout = layout
  BY DEF PreparedFor, NewPrepared, Blob
<1> QED
  BY <1>1, PreparedAssumption

LEMMA PlanPrepares ==
  ASSUME PlanInv,
         \/ \E gr \in Graphs : \E l \in Layouts(gr), f \in Flags(gr) : Prepare(gr, f, l)
         \/ \E gr \in Graphs : Load(gr)
  PROVE  PlanInv'
<1>1. plan' = None /\ UNCHANGED held
  BY DEF Prepare, Load
<1>2. Discovered(prepared'.blob.layout.groups)
  <2>1. ASSUME NEW gr \in Graphs, NEW l \in Layouts(gr), NEW f \in Flags(gr), Prepare(gr, f, l)
        PROVE  Discovered(prepared'.blob.layout.groups)
    BY <2>1, PreparedDiscovered DEF Prepare
  <2>2. ASSUME NEW gr \in Graphs, Load(gr)
        PROVE  Discovered(prepared'.blob.layout.groups)
    <3>1. prepared' \in LoadPrepared(held, gr) /\ Discovered(held.carrier.layout.groups)
      BY <2>2 DEF Load, PlanInv
    <3>2. prepared'.blob = held.carrier
      BY <3>1, LoadedCarrier
    <3> QED BY <3>1, <3>2
  <2> QED BY <2>1, <2>2
<1> QED
  BY <1>1, <1>2 DEF PlanInv, Discovered, Holds

LEMMA PlanBegins ==
  ASSUME PlanInv,
         \/ \E gr \in Graphs : \E l \in Layouts(gr), f \in Flags(gr) : CompileGraph(gr, f, l)
         \/ StartBuild \/ BuildPrepared
  PROVE  PlanInv'
<1>1. UNCHANGED <<prepared, plan>>
  BY DEF CompileGraph, StartBuild, BuildPrepared
<1>2. \E pl : held' = Building(pl) /\ PlannedWell(pl)
  <2>1. ASSUME NEW gr \in Graphs, NEW l \in Layouts(gr), NEW f \in Flags(gr), CompileGraph(gr, f, l)
        PROVE  \E pl : held' = Building(pl) /\ PlannedWell(pl)
    <3>1. PICK p \in PreparedFor(gr, f, l) : \E pl \in PlanOf(p, <<>>, {}) : held' = Building(pl)
      BY <2>1 DEF CompileGraph
    <3> QED BY <3>1, PreparedDiscovered, PlanOfWell
  <2>2. ASSUME StartBuild PROVE \E pl : held' = Building(pl) /\ PlannedWell(pl)
    BY <2>2 DEF StartBuild, PlanInv
  <2>3. ASSUME BuildPrepared PROVE \E pl : held' = Building(pl) /\ PlannedWell(pl)
    BY <2>3, PlanOfWell DEF BuildPrepared, PlanInv
  <2> QED BY <2>1, <2>2, <2>3
<1>3. "kind" \in DOMAIN held' /\ held'.kind = "build" /\ PlannedWell(held'.plan)
  BY <1>2 DEF Building
<1> QED
  BY <1>1, <1>3 DEF PlanInv, PlannedWell, Holds

\* Compiling and patching do not change the plan.
LEMMA PlanBuilds ==
  ASSUME PlanInv, NEW n \in Nat, BuiltTo(held, n), CompileKernel \/ PatchKernel
  PROVE  PlanInv'
<1>1. DOMAIN held = BuildFields /\ held.kind = "build" /\ UNCHANGED <<prepared, plan>>
  BY DEF BuiltTo, CompileKernel, PatchKernel
<1>2. "kind" \in DOMAIN held' /\ held'.kind = "build" /\ held'.plan = held.plan
  <2>1. CASE CompileKernel
    BY <1>1, <2>1 DEF CompileKernel, BuildFields
  <2>2. CASE PatchKernel
    BY <1>1, <2>2 DEF PatchKernel, BuildFields
  <2> QED BY <2>1, <2>2
<1>3. PlannedWell(held.plan)
  BY <1>1 DEF PlanInv, Holds
<1> QED
  BY <1>1, <1>2, <1>3 DEF PlanInv, PlannedWell, Holds

\* A finished program has the targets of its plan.
LEMMA PlanFinishes ==
  ASSUME PlanInv, NEW n \in Nat, BuiltTo(held, n), FinishBuild
  PROVE  PlanInv'
<1> DEFINE pl == held.plan
           patches == held'.blob.patches
<1>1. /\ "kind" \in DOMAIN held' /\ held'.kind = "program" /\ held'.plan = pl /\ held'.blob = held.blob
      /\ UNCHANGED <<prepared, plan>> /\ PlannedWell(pl)
  BY DEF FinishBuild, PlanInv, Holds
<1>2. patches = [k \in DOMAIN pl.targets |-> <<pl.targets[k], pl.kernels[k]>>]
  BY <1>1, FinishStep DEF ProgramAsPlanned, Holds
<1>3. held'.blob.native = pl.prep.blob
  BY <1>1 DEF BuiltTo, BlobAt
<1>4. DOMAIN patches = DOMAIN pl.targets /\ \A k \in DOMAIN pl.targets : patches[k][1] = pl.targets[k]
  BY <1>2
<1>5. ASSUME pl.prep.graph.embedded = {}, NEW k \in DOMAIN patches
      PROVE  /\ \A j \in DOMAIN patches \ {k} : Invocations(patches[j][1]) \cap Invocations(patches[k][1]) = {}
             /\ Invocations(patches[k][1]) \subseteq InvocationsOf(held'.blob.native.layout.groups)
  <2>1. /\ k \in Nodes(pl.prep.graph) /\ DOMAIN patches = Nodes(pl.prep.graph)
        /\ \A j \in DOMAIN patches : patches[j][1] = pl.targets[j]
    BY <1>1, <1>4, <1>5 DEF PlannedWell
  <2> HIDE DEF pl, patches
  <2>2. /\ \A j \in Nodes(pl.prep.graph) \ {k} : Invocations(pl.targets[j]) \cap Invocations(pl.targets[k]) = {}
        /\ Invocations(pl.targets[k]) \subseteq InvocationsOf(pl.prep.blob.layout.groups)
    BY <1>1, <1>5, <2>1 DEF PlannedWell
  <2>3. \A j \in DOMAIN patches \ {k} : Invocations(patches[j][1]) \cap Invocations(patches[k][1]) = {}
    BY <2>1, <2>2
  <2> QED
    BY <1>3, <2>1, <2>2, <2>3
<1>6. PatchedWell(held')
  BY <1>1, <1>5 DEF PatchedWell
<1> QED
  BY <1>1, <1>6 DEF PlanInv, PatchedWell, Holds

\* A program made from a reviewed binding has the reviewed targets and carrier.
LEMMA PlanBuildsIr ==
  ASSUME PlanInv, NEW layout, NEW k, BuildIr(layout, k)
  PROVE  PlanInv'
<1>1. /\ held'.blob.native = held.prep.blob /\ held'.plan.prep = held.prep
      /\ held'.plan.targets = <<held.targets>> /\ held'.kind = "program" /\ "kind" \in DOMAIN held'
      /\ UNCHANGED <<prepared, plan>> /\ BoundWell(held)
  BY DEF BuildIr, CarrierReviewed, PlanInv
<1>2. DOMAIN held'.blob.patches = {1} /\ held'.blob.patches[1][1] = held.targets
  BY DEF BuildIr
<1>3. PatchedWell(held')
  BY <1>1, <1>2 DEF PatchedWell, BoundWell
<1> QED
  BY <1>1, <1>3 DEF PlanInv, PatchedWell, Holds

LEMMA PlanReviewsIr ==
  ASSUME PlanInv, NEW k, ReviewIr(k)
  PROVE  PlanInv'
<1>1. /\ held' = [kind |-> "binding", prep |-> plan.prep, targets |-> plan.targets[k]]
      /\ UNCHANGED <<prepared, plan>> /\ plan # None /\ k \in DOMAIN plan.targets
  BY DEF ReviewIr
<1>2. PlannedWell(plan)
  BY <1>1 DEF PlanInv
<1>3. BoundWell(held')
  BY <1>1, <1>2 DEF BoundWell, PlannedWell
<1> QED
  BY <1>1, <1>3 DEF PlanInv, BoundWell, Holds

\* A bundle keeps the carrier of the prepared graph.
LEMMA PlanBundles ==
  ASSUME PlanInv, (\E withPlan \in BOOLEAN : Export(withPlan)) \/ DamageBundle \/ EditManifest
  PROVE  PlanInv'
<1>1. /\ UNCHANGED <<prepared, plan>> /\ DOMAIN held' = BundleFields /\ held'.kind = "bundle"
      /\ Discovered(held'.carrier.layout.groups)
  <2>1. ASSUME NEW withPlan \in BOOLEAN, Export(withPlan)
        PROVE  /\ UNCHANGED <<prepared, plan>> /\ DOMAIN held' = BundleFields /\ held'.kind = "bundle"
               /\ held'.carrier = prepared.blob /\ prepared # None
    BY <2>1 DEF Export, BundleFields
  <2>2. CASE DamageBundle \/ EditManifest
    <3>1. Holds("bundle") /\ DOMAIN held = BundleFields /\ Discovered(held.carrier.layout.groups)
      BY <2>2 DEF DamageBundle, EditManifest, PlanInv
    <3> QED BY <2>2, <3>1, BundleEdits DEF Holds
  <2> QED BY <2>1, <2>2 DEF PlanInv
<1> QED
  BY <1>1 DEF PlanInv, Discovered, BundleFields, Holds

LEMMA PlanStep == BuildInv /\ PlanInv /\ [PNext]_pvars => PlanInv'
<1> SUFFICES ASSUME BuildInv, PlanInv, [PNext]_pvars PROVE PlanInv'
  OBVIOUS
<1>1. "kind" \in DOMAIN held
  BY DEF PlanInv
<1>2. ASSUME NEW b, NEW c, Plan(b, c) PROVE PlanInv'
  <2>1. plan' \in PlanOf(prepared, b, c) /\ prepared # None /\ UNCHANGED <<prepared, held>>
    BY <1>2 DEF Plan
  <2>2. PlannedWell(plan')
    BY <2>1, PlanOfWell DEF PlanInv
  <2> QED
    BY <2>1, <2>2 DEF PlanInv, PlannedWell, Holds
<1>3. ASSUME CompileKernel \/ PatchKernel \/ FinishBuild PROVE PlanInv'
  <2>1. PICK n \in Nat : BuiltTo(held, n)
    BY <1>3 DEF CompileKernel, PatchKernel, FinishBuild, BuildInv
  <2> QED BY <1>3, <2>1, PlanBuilds, PlanFinishes
<1>4. ASSUME Unplanned PROVE PlanInv'
  BY <1>4, PlanFrame
<1> QED
  BY <1>1, <1>2, <1>3, <1>4, UnplannedSteps, PlanPrepares, PlanBegins, PlanBuildsIr, PlanReviewsIr, PlanBundles
     DEF PNext

\* No way of planning lets two nodes patch the same invocation, what each of
\* them patches computes what it declares, and a program patches no invocation
\* twice and only those of its carrier.
THEOREM PlanCorrect == PSpec => []PlanSound
<1>1. PlanInv => PlanSound
  BY DEF PlanInv, PlannedWell, PatchedWell, PlanSound
<1>2. ReviewInv /\ BuildInv /\ PlanInv /\ [PNext]_pvars => (ReviewInv /\ BuildInv /\ PlanInv)'
  BY ReviewStep, BuildStep, PlanStep
<1> QED
  BY <1>1, <1>2, ReviewInit, BuildInit, PlanInit, PTL DEF PSpec

-----------------------------------------------------------------------------
(* Bundles: what contracts, evidence and reviews keep.                     *)

\* Targets of one contract agree on everything that a contract says.
Uniform(targets) ==
  /\ DOMAIN targets = 1..Len(targets) /\ 1 \in DOMAIN targets
  /\ \A i, j \in DOMAIN targets : SameContract(targets[i], targets[j])
  /\ \A i \in DOMAIN targets : targets[i].v # 2 => targets[i].inputs \in 1..8 /\ LegacyDtype(targets[i]) # "none"

\* One value is agreed on.
LEMMA StableSingle == ASSUME NEW x PROVE Stable({x}) = {x}
BY FS_Singleton DEF Stable

\* A group with one contract keeps the contract that a client reads off it.
LEMMA ContractKept ==
  ASSUME NEW targets, Uniform(targets)
  PROVE  GroupKeepsContract(ContractOf(targets), targets)
<1> DEFINE t == targets[1]
<1>1. targets # <<>> /\ 1 \in DOMAIN targets
  BY DEF Uniform
<1>2. CASE t.v = 2
  <2>1. ASSUME NEW i \in DOMAIN targets PROVE targets[i].v = 2 /\ targets[i].tensors = t.tensors
    BY <1>1, <1>2, <2>1 DEF Uniform, SameContract
  <2>2. Version(targets, 2)
    BY <2>1 DEF Version
  <2>3. ASSUME NEW i \in DOMAIN targets
        PROVE  Inputs(targets[i]) = Inputs(t) /\ Output(targets[i]) = Output(t)
    BY <2>1 DEF Inputs, Output, Tensors
  <2>4. GroupInputDtypes(targets) = {InputDtypes(t)}
    <3>1. \A i \in DOMAIN targets : InputDtypes(targets[i]) = InputDtypes(t)
      BY <2>3 DEF InputDtypes
    <3>2. Each(targets, InputDtypes) = {InputDtypes(t)}
      BY <1>1, <3>1 DEF Each
    <3>3. GroupInputDtypes(targets) = Stable(Each(targets, InputDtypes))
      BY <1>1, <2>2 DEF GroupInputDtypes
    <3> QED BY <3>2, <3>3, StableSingle
  <2>5. GroupOutputDtype(targets) = {Output(t).dtype}
    <3>1. {Output(targets[i]).dtype : i \in DOMAIN targets} = {Output(t).dtype}
      BY <1>1, <2>3
    <3> QED BY <1>1, <2>2, <3>1, StableSingle DEF GroupOutputDtype, Each
  <2>6. GroupInputCounts(targets) = {InputCounts(t)}
    <3>1. \A i \in DOMAIN targets : InputCounts(targets[i]) = InputCounts(t)
      BY <2>3 DEF InputCounts
    <3>2. Each(targets, InputCounts) = {InputCounts(t)}
      BY <1>1, <3>1 DEF Each
    <3>3. GroupInputCounts(targets) = Stable(Each(targets, InputCounts))
      BY <2>2 DEF GroupInputCounts
    <3> QED BY <3>2, <3>3, StableSingle
  <2>7. GroupOutputCount(targets) = {Output(t).count}
    <3>1. {IF targets[i].v = 2 THEN Output(targets[i]).count ELSE targets[i].count : i \in DOMAIN targets} = {Output(t).count}
      BY <1>1, <2>1, <2>3
    <3> QED BY <3>1, StableSingle DEF GroupOutputCount, Each
  <2> QED
    BY <2>4, <2>5, <2>6, <2>7 DEF GroupKeepsContract, ContractOf
<1>3. CASE t.v # 2
  <2>1. ASSUME NEW i \in DOMAIN targets
        PROVE  /\ targets[i].v = 1 /\ targets[i].inputs = t.inputs /\ targets[i].count = t.count
               /\ targets[i].flags = t.flags
    BY <1>1, <1>3, <2>1 DEF Uniform, SameContract
  <2>2. ~Version(targets, 2) /\ t.inputs \in 1..8 /\ LegacyDtype(t) # "none"
    BY <1>1, <1>3 DEF Version, Uniform
  <2>3. Stable(Each(targets, LegacyDtype)) \ {"none"} = {LegacyDtype(t)}
    <3>1. \A i \in DOMAIN targets : LegacyDtype(targets[i]) = LegacyDtype(t)
      BY <2>1 DEF LegacyDtype
    <3>2. Each(targets, LegacyDtype) = {LegacyDtype(t)}
      BY <1>1, <3>1 DEF Each
    <3> QED BY <2>2, <3>2, StableSingle
  <2>4. GroupInputDtypes(targets) = {[i \in 1..t.inputs |-> LegacyDtype(t)]}
    <3>1. \A i \in DOMAIN targets : InputNumber(targets[i]) = InputNumber(t)
      BY <2>1 DEF InputNumber
    <3>2. Stable(Each(targets, InputNumber)) = {InputNumber(t)}
      <4>1. Each(targets, InputNumber) = {InputNumber(t)}
        BY <1>1, <3>1 DEF Each
      <4> QED BY <4>1, StableSingle
    <3> DEFINE N == Stable(Each(targets, InputNumber))
               D == Stable(Each(targets, LegacyDtype)) \ {"none"}
    <3>3. GroupInputDtypes(targets) = UNION {{[i \in 1..n |-> d] : n \in N} : d \in D}
      BY <2>2 DEF GroupInputDtypes
    <3>4. N = {t.inputs} /\ D = {LegacyDtype(t)}
      BY <2>3, <3>2 DEF InputNumber
    <3> HIDE DEF N, D
    <3> QED BY <3>3, <3>4
  <2>5. GroupOutputDtype(targets) = {LegacyDtype(t)}
    BY <2>2, <2>3 DEF GroupOutputDtype
  <2>6. GroupInputCounts(targets) = {LegacyCounts(t)}
    <3>1. ~\E i \in DOMAIN targets : targets[i].inputs \notin 1..8
      BY <2>1, <2>2
    <3>2. \A i \in DOMAIN targets : LegacyCounts(targets[i]) = LegacyCounts(t)
      BY <2>1 DEF LegacyCounts
    <3>3. Each(targets, LegacyCounts) = {LegacyCounts(t)}
      BY <1>1, <3>2 DEF Each
    <3>4. GroupInputCounts(targets) = Stable(Each(targets, LegacyCounts))
      BY <2>2, <3>1 DEF GroupInputCounts
    <3> QED BY <3>3, <3>4, StableSingle
  <2>7. GroupOutputCount(targets) = {t.count}
    <3>1. {IF targets[i].v = 2 THEN Output(targets[i]).count ELSE targets[i].count : i \in DOMAIN targets} = {t.count}
      BY <1>1, <2>1
    <3> QED BY <3>1, StableSingle DEF GroupOutputCount, Each
  <2> QED
    BY <2>4, <2>5, <2>6, <2>7 DEF GroupKeepsContract, ContractOf
<1> QED BY <1>2, <1>3

\* So does every group that discovery lists.
LEMMA CarrierKept ==
  ASSUME NEW p, NEW contracts, Discovered(Groups(p)), contracts = [i \in DOMAIN Groups(p) |-> ContractOf(Groups(p)[i])]
  PROVE  CarrierKeeps(contracts, p)
<1> DEFINE G == Groups(p)
           all == UNION {Range(group) : group \in Range(G)}
<1>1. G \in Seq(Seq(all) \ {<<>>}) /\ DOMAIN contracts = DOMAIN G
  BY DEF Discovered
<1>2. Len(G) = Len(contracts)
  BY <1>1
<1>3. ASSUME NEW i \in DOMAIN G PROVE Uniform(G[i])
  <2> DEFINE s == G[i]
  <2>1. s \in Seq(all) /\ s # <<>>
    BY <1>1
  <2>2. ASSUME NEW j \in DOMAIN s, s[j].v # 2 PROVE s[j].inputs \in 1..8 /\ LegacyDtype(s[j]) # "none"
    <3>1. s[j] \in all
      BY <2>1
    <3> QED BY <2>2, <3>1 DEF Discovered
  <2>3. \A u, v \in DOMAIN s : SameContract(s[u], s[v])
    BY DEF Discovered
  <2> HIDE DEF all, s
  <2>4. DOMAIN s = 1..Len(s) /\ 1 \in DOMAIN s
    BY <2>1
  <2>5. Uniform(s)
    BY <2>2, <2>3, <2>4 DEF Uniform
  <2> QED BY <2>5 DEF s
<1>4. ASSUME NEW i \in DOMAIN G PROVE GroupKeepsContract(contracts[i], G[i])
  BY <1>3, ContractKept
<1> QED
  BY <1>1, <1>2, <1>4 DEF CarrierKeeps

-----------------------------------------------------------------------------
(* Bundles: the invariant.                                                 *)

\* What the probes of one node look like, wherever they are kept.
Evidence(probes) ==
  /\ IsFiniteSet(probes) /\ Cardinality(probes) <= 8
  /\ \A q \in probes : q = [node |-> q.node, carrier |-> q.carrier, base |-> q.base, cand |-> q.cand]
  /\ \A q, u \in probes : Name(q) = Name(u) => q = u

\* A review that would be made again, with evidence that a bundle can hold.
ReviewMade(r, k, p) == r.kind \in Kinds /\ Evidence(r.probes) /\ r \in Review(p, k, r.probes, r.kind)

ReviewsMade(reviews, p) ==
  /\ IsFunction(reviews) /\ DOMAIN reviews = Nodes(p.graph)
  /\ \A k \in Nodes(p.graph) : reviews[k] # None => ReviewMade(reviews[k], k, p)

\* Groups that would be chosen again, when they were saved.
IndicesMade(indices, p) ==
  /\ IsFunction(indices) /\ DOMAIN indices = Nodes(p.graph)
  /\ NoGroupTwice(indices)
  /\ \A k \in Nodes(p.graph) : TargetsOf(p, k, indices[k]) # {}

PreparedMade(p) ==
  /\ Preparable(p.graph) /\ p.flags \in EffectiveBuildFlags(p.graph, p.flags)
  /\ ValidatedPositionalCompiler(p.graph, p.blob.driver)
  /\ ReviewsMade(p.reviews, p)

PlanMade(pl) ==
  pl.prep.graph.embedded = {} => IndicesMade(pl.indices, pl.prep) /\ ReviewsMade(pl.reviews, pl.prep)

\* The prepared graph of a bundle, without its bindings.
Bare(b) == NewPrepared(b.graph, b.flags, b.carrier, {}, NoReviews(b.graph))

BindingMade(s, b) ==
  /\ IndicesMade(s.indices, Bare(b)) /\ ReviewsMade(s.reviews, Bare(b))
  /\ \A k \in Nodes(b.graph) : s.reviews[k] # None =>
       /\ s.indices[k] = <<s.reviews[k].group>>
       /\ \A q \in s.reviews[k].probes : b.candidates[Name(q)] = q.cand

\* The manifest as it was exported.
ManifestMade(b) ==
  /\ Preparable(b.graph) /\ b.flags \in EffectiveBuildFlags(b.graph, b.flags)
  /\ b.device = "npu3720" /\ ValidatedPositionalCompiler(b.graph, b.driver)
  /\ b.groups = GroupsJson(Groups(Bare(b)))
  /\ b.bindings # {} => b.graph.embedded = {} /\ \E s \in b.bindings : b.bindings = {s} /\ BindingMade(s, b)

\* The probes of a bundle, also of one whose manifest was edited.
FiniteEvidence(s) == \A k \in DOMAIN s.reviews : s.reviews[k] # None => IsFiniteSet(s.reviews[k].probes)

BundleMade(b) ==
  /\ IsFunction(b.members)
  /\ IF b.whole THEN MembersIntact(b) ELSE ~MembersIntact(b)
  /\ \A s \in b.bindings : FiniteEvidence(s)
  /\ ~b.edited => ManifestMade(b)

\* The members of a saved program are its blob and its reports.
ArtifactIntact(a) ==
  /\ DOMAIN a.members = 0..Len(a.reports)
  /\ a.members[0] = a.blob
  /\ \A i \in DOMAIN a.reports : a.members[i] = a.reports[i]

ArtifactMade(a) ==
  /\ IsFunction(a.members) /\ a.reports \in Seq(Range(a.reports))
  /\ IF a.whole THEN ArtifactIntact(a) ELSE ~ArtifactIntact(a)

ArtifactFields == {"kind", "blob", "reports", "members", "whole"}

RoundInv ==
  /\ "kind" \in DOMAIN held
  /\ prepared # None => PreparedMade(prepared)
  /\ plan # None => PlanMade(plan)
  /\ Holds("evidence") => Evidence(held.probes)
  /\ Holds("review") => held.review.kind \in Kinds /\ Evidence(held.review.probes)
  /\ Holds("bundle") => DOMAIN held = BundleFields /\ BundleMade(held)
  /\ Holds("program") => held.reports \in Seq(Range(held.reports))
  /\ Holds("artifact") => DOMAIN held = ArtifactFields /\ ArtifactMade(held)

\* Reviews and targets depend on the graph and the carrier alone.
LEMMA SameCarrier ==
  ASSUME NEW p, NEW u, p.graph = u.graph, p.blob = u.blob
  PROVE  /\ Groups(p) = Groups(u)
         /\ \A k, probes, kind : Review(p, k, probes, kind) = Review(u, k, probes, kind)
         /\ \A k, indices : TargetsOf(p, k, indices) = TargetsOf(u, k, indices)
         /\ \A r, k : ReviewMade(r, k, p) <=> ReviewMade(r, k, u)
         /\ \A i : IndicesMade(i, p) <=> IndicesMade(i, u)
         /\ \A r : ReviewsMade(r, p) <=> ReviewsMade(r, u)
<1>1. Groups(p) = Groups(u)
  BY DEF Groups
<1>2. ASSUME NEW k, NEW probes, NEW kind PROVE Review(p, k, probes, kind) = Review(u, k, probes, kind)
  BY <1>1 DEF Review
<1>3. ASSUME NEW k, NEW indices PROVE TargetsOf(p, k, indices) = TargetsOf(u, k, indices)
  BY <1>1 DEF TargetsOf
<1>4. ASSUME NEW r, NEW k PROVE ReviewMade(r, k, p) <=> ReviewMade(r, k, u)
  BY <1>2 DEF ReviewMade
<1>5. ASSUME NEW i PROVE IndicesMade(i, p) <=> IndicesMade(i, u)
  BY <1>3 DEF IndicesMade
<1>6. ASSUME NEW r PROVE ReviewsMade(r, p) <=> ReviewsMade(r, u)
  BY <1>4 DEF ReviewsMade
<1> QED BY <1>1, <1>2, <1>3, <1>4, <1>5, <1>6

\* What is computed of finitely many things is finite.
LEMMA FiniteImage ==
  ASSUME NEW f, IsFunction(f), IsFiniteSet(DOMAIN f)
  PROVE  IsFiniteSet(Range(f)) /\ Cardinality(Range(f)) <= Cardinality(DOMAIN f)
<1>1. f \in [DOMAIN f -> Range(f)]
  BY DEF IsFunction, Range
<1>2. f \in Surjection(DOMAIN f, Range(f))
  BY <1>1 DEF Surjection, Range
<1> QED BY <1>2, FS_Surjection

\* What a review says, besides what is true of the carrier.
LEMMA ReviewParts ==
  ASSUME NEW p, NEW k, NEW probes, NEW kind, NEW r \in Review(p, k, probes, kind)
  PROVE  /\ r.probes = probes /\ r.kind = kind
         /\ \A q \in probes : q.node = k /\ q.base = p.blob
         /\ \E i \in Consistent(probes) :
              r = [node |-> k, group |-> i, kind |-> kind, base |-> p.blob, probes |-> probes]
BY DEF Review, Require

\* There is at most one review of the same probes, and it needs two of them.
LEMMA ReviewUnique ==
  ASSUME NEW p, NEW k, NEW probes, NEW kind, IsFiniteSet(probes),
         NEW r \in Review(p, k, probes, kind), NEW s \in Review(p, k, probes, kind)
  PROVE  r = s /\ Cardinality(probes) \in Nat /\ 2 <= Cardinality(probes)
<1> DEFINE accepted == {q \in probes : Accepted(q)}
           indices == {GroupOf(q) : q \in accepted}
<1>1. IsFiniteSet(accepted) /\ Cardinality(accepted) <= Cardinality(probes)
  BY FS_Subset
<1>2. IsFiniteSet(indices)
  <2> DEFINE f == [q \in accepted |-> GroupOf(q)]
  <2>1. IsFunction(f) /\ DOMAIN f = accepted /\ Range(f) = indices
    BY DEF IsFunction, Range
  <2> HIDE DEF f, indices, accepted
  <2> QED BY <1>1, <2>1, FiniteImage
<1>3. PICK i \in Consistent(probes) :
        r = [node |-> k, group |-> i, kind |-> kind, base |-> p.blob, probes |-> probes]
  BY ReviewParts
<1>4. PICK j \in Consistent(probes) :
        s = [node |-> k, group |-> j, kind |-> kind, base |-> p.blob, probes |-> probes]
  BY ReviewParts
<1>5. /\ Cardinality(accepted) >= 2 /\ Cardinality(indices) = 1 /\ i \in indices /\ j \in indices
  BY <1>3, <1>4 DEF Consistent, Stable
<1> HIDE DEF indices, accepted
<1>6. i = j
  BY <1>2, <1>5, FS_Singleton
<1>7. Cardinality(probes) \in Nat /\ Cardinality(accepted) \in Nat
  BY <1>1, FS_CardinalityType
<1> QED BY <1>1, <1>3, <1>4, <1>5, <1>6, <1>7

\* Probing every carrier at most once makes evidence that a bundle can hold.
LEMMA ProbesMade ==
  ASSUME NEW k, NEW failed, NEW layouts, ProbeCandidates(k, failed, layouts)
  PROVE  Evidence(held'.probes)
<1> DEFINE tried == Carriers \ failed
           f == [c \in tried |-> Probe(prepared, k, c, layouts[c])]
           probes == held'.probes
<1>1. probes = {Probe(prepared, k, c, layouts[c]) : c \in tried}
  BY DEF ProbeCandidates
<1>2. IsFiniteSet(tried) /\ Cardinality(tried) <= Cardinality(Carriers) /\ Cardinality(Carriers) \in 2..8
  BY PreparedAssumption, FS_Subset
<1>3. IsFunction(f) /\ DOMAIN f = tried /\ Range(f) = probes
  BY <1>1 DEF IsFunction, Range
<1>4. ASSUME NEW q \in probes
      PROVE  \E c \in tried : q = [node |-> k, carrier |-> c, base |-> prepared.blob,
                                   cand |-> Blob(prepared.graph, prepared.flags, <<k, c>>, layouts[c])]
  BY <1>1 DEF Probe
<1> HIDE DEF f, tried, probes
<1>5. IsFiniteSet(probes) /\ Cardinality(probes) <= Cardinality(tried)
  BY <1>2, <1>3, FiniteImage
<1>6. Cardinality(probes) \in Nat /\ Cardinality(tried) \in Nat
  BY <1>2, <1>5, FS_CardinalityType
<1>7. Cardinality(probes) <= 8
  BY <1>2, <1>5, <1>6
<1>8. ASSUME NEW q \in probes
      PROVE  q = [node |-> q.node, carrier |-> q.carrier, base |-> q.base, cand |-> q.cand]
  <2>1. PICK c \in tried : q = [node |-> k, carrier |-> c, base |-> prepared.blob,
                                cand |-> Blob(prepared.graph, prepared.flags, <<k, c>>, layouts[c])]
    BY <1>4
  <2> QED BY <2>1
<1>9. ASSUME NEW q \in probes, NEW u \in probes, Name(q) = Name(u) PROVE q = u
  <2>1. PICK c \in tried : q = [node |-> k, carrier |-> c, base |-> prepared.blob,
                                cand |-> Blob(prepared.graph, prepared.flags, <<k, c>>, layouts[c])]
    BY <1>4
  <2>2. PICK d \in tried : u = [node |-> k, carrier |-> d, base |-> prepared.blob,
                                cand |-> Blob(prepared.graph, prepared.flags, <<k, d>>, layouts[d])]
    BY <1>4
  <2>3. c = d
    BY <1>9, <2>1, <2>2 DEF Name
  <2> QED BY <2>1, <2>2, <2>3
<1> QED BY <1>5, <1>7, <1>8, <1>9 DEF Evidence, probes

\* Probes as a bundle gives them back.
Recovered(p, k, probes, members) ==
  {[node |-> k, carrier |-> q.carrier, base |-> p.blob, cand |-> members[Name(q)]] : q \in probes}

\* Whatever is made again from saved evidence can be saved.
LEMMA RestoredMade ==
  ASSUME NEW p, NEW k, NEW r, NEW members, NEW x \in Restored(p, k, r, members),
         r.kind \in Kinds, IsFiniteSet(r.probes), Cardinality(r.probes) <= 8,
         \A q \in r.probes : q.node = k
  PROVE  ReviewMade(x, k, p)
<1> DEFINE f == [q \in r.probes |-> [node |-> k, carrier |-> q.carrier, base |-> p.blob, cand |-> members[Name(q)]]]
           probes == Recovered(p, k, r.probes, members)
<1>1. x \in Review(p, k, probes, r.kind)
  BY DEF Restored, Recovered
<1>2. x.probes = probes /\ x.kind = r.kind
  BY <1>1, ReviewParts
<1>3. IsFunction(f) /\ DOMAIN f = r.probes /\ Range(f) = probes
  BY DEF IsFunction, Range, Recovered
<1>4. ASSUME NEW q \in probes
      PROVE  \E u \in r.probes : /\ q = [node |-> k, carrier |-> q.carrier, base |-> p.blob, cand |-> members[Name(u)]]
                                 /\ Name(u) = <<k, q.carrier>>
  <2>1. PICK u \in r.probes : q = [node |-> k, carrier |-> u.carrier, base |-> p.blob, cand |-> members[Name(u)]]
    BY DEF Recovered
  <2>2. q.carrier = u.carrier /\ Name(u) = <<k, u.carrier>>
    BY <2>1 DEF Name
  <2> QED BY <2>1, <2>2
<1> HIDE DEF f, probes
<1>5. IsFiniteSet(probes) /\ Cardinality(probes) <= Cardinality(r.probes)
  BY <1>3, FiniteImage
<1>6. Cardinality(probes) <= 8
  <2>1. Cardinality(probes) \in Nat /\ Cardinality(r.probes) \in Nat
    BY <1>5, FS_CardinalityType
  <2> QED BY <1>5, <2>1
<1>7. ASSUME NEW q \in probes
      PROVE  q = [node |-> q.node, carrier |-> q.carrier, base |-> q.base, cand |-> q.cand]
  BY <1>4
<1>8. ASSUME NEW q \in probes, NEW u \in probes, Name(q) = Name(u) PROVE q = u
  <2>1. q.carrier = u.carrier
    BY <1>8 DEF Name
  <2> DEFINE name == <<k, q.carrier>>
  <2>2. q = [node |-> k, carrier |-> q.carrier, base |-> p.blob, cand |-> members[name]]
    BY <1>4
  <2>3. u = [node |-> k, carrier |-> q.carrier, base |-> p.blob, cand |-> members[name]]
    BY <1>4, <2>1
  <2> QED BY <2>2, <2>3
<1> QED BY <1>1, <1>2, <1>5, <1>6, <1>7, <1>8 DEF ReviewMade, Evidence

\* A review that was made is made again from members that hold its candidates.
LEMMA RestoredSame ==
  ASSUME NEW p, NEW k, NEW r, NEW members, ReviewMade(r, k, p),
         \A q \in r.probes : members[Name(q)] = q.cand
  PROVE  /\ \A x \in Restored(p, k, r, members) : x = r
         /\ r \in Restored(p, k, r, members)
         /\ Cardinality(r.probes) \in 2..8
<1>1. /\ r \in Review(p, k, r.probes, r.kind) /\ IsFiniteSet(r.probes) /\ Cardinality(r.probes) <= 8
      /\ \A q \in r.probes : q = [node |-> q.node, carrier |-> q.carrier, base |-> q.base, cand |-> q.cand]
  BY DEF ReviewMade, Evidence
<1>2. \A q \in r.probes : q.node = k /\ q.base = p.blob
  BY <1>1, ReviewParts
<1>3. Recovered(p, k, r.probes, members) = r.probes
  <2>1. ASSUME NEW q \in r.probes
        PROVE  [node |-> k, carrier |-> q.carrier, base |-> p.blob, cand |-> members[Name(q)]] = q
    BY <1>1, <1>2
  <2> DEFINE R(q) == [node |-> k, carrier |-> q.carrier, base |-> p.blob, cand |-> members[Name(q)]]
             S == r.probes
  <2>2. Recovered(p, k, S, members) = {R(q) : q \in S} /\ \A q \in S : R(q) = q
    BY <2>1 DEF Recovered
  <2> HIDE DEF R, S
  <2>3. {R(q) : q \in S} = S
    BY <2>2
  <2> QED BY <2>2, <2>3 DEF S
<1>4. Restored(p, k, r, members) = Review(p, k, r.probes, r.kind)
  BY <1>3 DEF Restored, Recovered
<1>5. Cardinality(r.probes) \in Nat /\ 2 <= Cardinality(r.probes)
  BY <1>1, ReviewUnique
<1>6. \A x \in Restored(p, k, r, members) : x = r
  BY <1>1, <1>4, ReviewUnique
<1> QED BY <1>1, <1>4, <1>5, <1>6

\* The flags that a graph is built with need no further change.
LEMMA EffectiveAgain ==
  ASSUME NEW gr, NEW flags, NEW f \in EffectiveBuildFlags(gr, flags)
  PROVE  f \in EffectiveBuildFlags(gr, f)
<1>1. CASE NeedsAccuracy(gr)
  BY <1>1 DEF EffectiveBuildFlags, Require
<1>2. CASE ~NeedsAccuracy(gr)
  BY <1>2 DEF EffectiveBuildFlags
<1> QED BY <1>1, <1>2

LEMMA NothingReviewed ==
  ASSUME NEW p
  PROVE  ReviewsMade(NoReviews(p.graph), p)
BY DEF ReviewsMade, NoReviews, IsFunction

\* What prepare() returns.
LEMMA PreparedForMade ==
  ASSUME NEW gr, NEW flags, NEW layout, NEW p \in PreparedFor(gr, flags, layout)
  PROVE  PreparedMade(p)
<1>1. PICK f : /\ p = NewPrepared(gr, f, Blob(gr, f, <<>>, layout), {}, NoReviews(gr))
               /\ f \in EffectiveBuildFlags(gr, flags)
               /\ Preparable(gr) /\ ValidatedPositionalCompiler(gr, driver)
  BY DEF PreparedFor
<1>2. p.graph = gr /\ p.blob.driver = driver /\ p.flags = f /\ p.reviews = NoReviews(gr)
  BY <1>1 DEF NewPrepared, Blob
<1>3. p.flags \in EffectiveBuildFlags(p.graph, p.flags)
  BY <1>1, <1>2, EffectiveAgain
<1>4. ReviewsMade(p.reviews, p)
  BY <1>2, NothingReviewed
<1> QED BY <1>1, <1>2, <1>3, <1>4 DEF PreparedMade

\* What a plan chooses.
LEMMA ResolvedMade ==
  ASSUME NEW p, NEW bindings, p.graph.embedded = {}, ReviewsMade(p.reviews, p),
         \A k \in DOMAIN bindings : "probes" \in DOMAIN bindings[k] =>
           bindings[k].kind \in Kinds /\ Evidence(bindings[k].probes),
         NEW r \in Resolve(p, bindings)
  PROVE  IndicesMade(r.indices, p) /\ ReviewsMade(r.reviews, p)
<1> DEFINE nodes == Nodes(p.graph)
           reviews == [k \in nodes |-> ReviewOf(p, bindings, k)]
<1>1. /\ DOMAIN r.indices = nodes /\ NoGroupTwice(r.indices) /\ IsFunction(r.indices)
      /\ \A k \in nodes : r.indices[k] \in Indices(p, bindings, k) /\ TargetsOf(p, k, r.indices[k]) # {}
      /\ r.reviews = reviews
  BY ResolvedFrom
<1>2. ASSUME NEW k \in nodes, ReviewOf(p, bindings, k) # None
      PROVE  ReviewMade(ReviewOf(p, bindings, k), k, p)
  <2>1. CASE k \in DOMAIN bindings
    <3> DEFINE v == bindings[k]
    <3>1. "probes" \in DOMAIN v /\ ReviewOf(p, bindings, k) = v
      BY <1>2, <2>1 DEF ReviewOf
    <3>2. Normalized1(p, k, v) # {}
      BY <1>1, <2>1 DEF Indices
    <3>3. v \in Review(p, k, v.probes, v.kind)
      BY <3>1, <3>2 DEF Normalized1
    <3> QED BY <2>1, <3>1, <3>3 DEF ReviewMade
  <2>2. CASE k \notin DOMAIN bindings
    BY <1>2, <2>2 DEF ReviewOf, ReviewsMade
  <2> QED BY <2>1, <2>2
<1>3. ReviewsMade(reviews, p)
  BY <1>2 DEF ReviewsMade, IsFunction
<1> QED BY <1>1, <1>3 DEF IndicesMade

LEMMA PlanOfMade ==
  ASSUME NEW p, NEW bindings, NEW compiled, ReviewsMade(p.reviews, p),
         \A k \in DOMAIN bindings : "probes" \in DOMAIN bindings[k] =>
           bindings[k].kind \in Kinds /\ Evidence(bindings[k].probes),
         NEW pl \in PlanOf(p, bindings, compiled)
  PROVE  PlanMade(pl)
<1>1. PICK r \in Resolve(p, bindings) : pl.prep = p /\ pl.indices = r.indices /\ pl.reviews = r.reviews
  BY DEF PlanOf
<1> QED
  BY <1>1, ResolvedMade DEF PlanMade

\* What load_prepared() returns.
LEMMA LoadedMade ==
  ASSUME NEW b, NEW gr, BundleCarrier(b), SavedEvidence(b), BundleMade(b), NEW p \in LoadPrepared(b, gr)
  PROVE  PreparedMade(p)
<1>1. MembersIntact(b) /\ PreparedBindings(b, gr) /\ SameIdentity(b, gr) /\ Preparable(gr)
  BY DEF LoadPrepared
<1>2. p.graph = gr /\ p.flags = b.flags /\ p.blob = b.carrier /\ b.carrier.driver = b.driver
  BY LoadedCarrier DEF BundleCarrier
<1>3. /\ Preparable(p.graph) /\ p.flags \in EffectiveBuildFlags(p.graph, p.flags)
      /\ ValidatedPositionalCompiler(p.graph, p.blob.driver)
  BY <1>1, <1>2 DEF SameIdentity
<1>4. ReviewsMade(p.reviews, p)
  <2>1. CASE b.bindings = {}
    <3>1. p.reviews = NoReviews(gr)
      BY <2>1 DEF LoadPrepared, NewPrepared
    <3> QED BY <1>2, <3>1, NothingReviewed
  <2>2. CASE b.bindings # {}
    <3> DEFINE saved == CHOOSE s \in b.bindings : TRUE
               bare == NewPrepared(gr, b.flags, b.members[CarrierName], {saved.indices}, NoReviews(gr))
               Again(k) == {r \in Restored(bare, k, saved.reviews[k], b.members) : saved.indices[k] = <<r.group>>}
               reviews == [k \in Nodes(gr) |-> IF saved.reviews[k] = None THEN None ELSE CHOOSE r \in Again(k) : TRUE]
    <3>1. /\ p = [bare EXCEPT !.reviews = reviews]
          /\ \A k \in Nodes(gr) : saved.reviews[k] # None => Again(k) # {}
      BY <2>2 DEF LoadPrepared, Require
    <3>2. /\ saved \in b.bindings /\ BindingSaved(saved, b) /\ DOMAIN saved.indices = Nodes(gr)
          /\ FiniteEvidence(saved)
      BY <1>1, <2>2 DEF SavedEvidence, PreparedBindings, BundleMade
    <3>3. p.reviews = reviews /\ p.graph = bare.graph /\ p.blob = bare.blob /\ bare.graph = gr
      BY <3>1 DEF NewPrepared
    <3>4. ASSUME NEW k \in Nodes(gr), reviews[k] # None
          PROVE  ReviewMade(reviews[k], k, bare)
      <4> DEFINE r == saved.reviews[k]
      <4>1. r # None /\ k \in DOMAIN saved.reviews
        BY <3>2, <3>4 DEF BindingSaved
      <4>2. reviews[k] \in Again(k)
        BY <3>1, <3>4, <4>1
      <4>3. reviews[k] \in Restored(bare, k, r, b.members)
        BY <4>2
      <4>4. /\ r.kind \in Kinds /\ Cardinality(r.probes) \in 2..8 /\ IsFiniteSet(r.probes)
            /\ \A q \in r.probes : q.node = k
        BY <1>1, <3>2, <4>1 DEF PreparedBindings, FiniteEvidence, BindingSaved
      <4> HIDE DEF saved, bare, Again, reviews, r
      <4>5. Cardinality(r.probes) <= 8
        BY <4>4
      <4> QED BY <4>3, <4>4, <4>5, RestoredMade
    <3>5. DOMAIN reviews = Nodes(gr) /\ IsFunction(reviews)
      BY DEF IsFunction
    <3> HIDE DEF saved, bare, Again, reviews
    <3>6. ReviewsMade(reviews, bare)
      BY <3>3, <3>4, <3>5 DEF ReviewsMade
    <3> QED BY <3>3, <3>6, SameCarrier
  <2> QED BY <2>1, <2>2
<1> QED BY <1>3, <1>4 DEF PreparedMade

\* A new bundle.
LEMMA ExportMade ==
  ASSUME NEW withPlan \in BOOLEAN, Export(withPlan), ReviewInv, BuildInv, RoundInv
  PROVE  BundleMade(held')
<1> DEFINE gr == prepared.graph
           saved == withPlan /\ gr.embedded = {}
           reviews == IF saved THEN plan.reviews ELSE NoReviews(gr)
           probes == UNION {Probes(reviews[k]) : k \in Nodes(gr)}
           names == {Name(q) : q \in probes}
           blobs == [n \in names |-> (CHOOSE q \in probes : Name(q) = n).cand]
           members == [n \in names \cup {CarrierName} |-> IF n = CarrierName THEN prepared.blob ELSE blobs[n]]
           binding == [indices |-> plan.indices, reviews |-> reviews]
<1>1. /\ prepared # None /\ (withPlan => plan # None /\ plan.prep = prepared)
      /\ held'.graph = gr /\ held'.flags = prepared.flags /\ held'.carrier = prepared.blob
      /\ held'.driver = prepared.blob.driver /\ held'.device = "npu3720"
      /\ held'.groups = GroupsJson(Groups(prepared))
      /\ held'.bindings = IF saved THEN {binding} ELSE {}
      /\ held'.candidates = blobs /\ held'.members = members
      /\ held'.whole = TRUE /\ held'.edited = FALSE
  BY DEF Export
<1>2. PreparedMade(prepared) /\ Buildable(prepared)
  BY <1>1 DEF RoundInv, BuildInv
<1>3. ASSUME saved
      PROVE  /\ PlanReviews(plan) /\ plan.prep = prepared /\ reviews = plan.reviews
             /\ IndicesMade(plan.indices, prepared) /\ ReviewsMade(reviews, prepared)
  BY <1>1, <1>3 DEF ReviewInv, RoundInv, PlanMade
<1>4. ASSUME NEW k \in Nodes(gr), NEW q \in Probes(reviews[k])
      PROVE  /\ saved /\ reviews[k] # None /\ q \in reviews[k].probes /\ q.node = k
             /\ q \in probes /\ Name(q) \in names
  <2>1. saved /\ reviews[k] # None /\ q \in reviews[k].probes
    BY <1>4 DEF Probes, NoReviews
  <2>2. q.node = k
    BY <1>3, <2>1 DEF PlanReviews, ReviewsFor, ReviewFor
  <2> QED BY <1>4, <2>1, <2>2
<1>5. CarrierName \notin names
  <2>1. SUFFICES ASSUME NEW q \in probes, Name(q) = CarrierName PROVE FALSE
    OBVIOUS
  <2>2. PICK k \in Nodes(gr) : q \in Probes(reviews[k])
    OBVIOUS
  <2>3. q.node = k
    BY <1>4, <2>2
  <2>4. k = 0
    BY <2>1, <2>3 DEF Name, CarrierName
  <2>5. k \in 1..Len(Customs(gr)) /\ Len(Customs(gr)) \in Nat
    BY <1>2, CustomsNumbered DEF Buildable
  <2> QED BY <2>4, <2>5
<1>6. ASSUME NEW k \in Nodes(gr), reviews[k] # None, NEW q \in reviews[k].probes
      PROVE  blobs[Name(q)] = q.cand
  <2>1. q \in Probes(reviews[k])
    BY <1>6 DEF Probes
  <2>2. saved /\ q.node = k /\ q \in probes /\ Name(q) \in names
    BY <1>4, <2>1
  <2>3. \A v \in probes : \E j \in Nodes(gr) : v \in Probes(reviews[j])
    OBVIOUS
  <2>4. Evidence(reviews[k].probes)
    BY <1>3, <1>6, <2>2 DEF ReviewsMade, ReviewMade
  <2>5. \A j \in Nodes(gr) : \A v \in Probes(reviews[j]) : v.node = j /\ v \in reviews[j].probes
    BY <1>4
  <2> DEFINE u == CHOOSE u \in probes : Name(u) = Name(q)
  <2>6. blobs[Name(q)] = u.cand
    BY <2>2
  <2> HIDE DEF reviews, probes, names, blobs
  <2>7. u \in probes /\ Name(u) = Name(q)
    BY <2>2
  <2> HIDE DEF u
  <2>8. PICK j \in Nodes(gr) : u \in Probes(reviews[j])
    BY <2>3, <2>7
  <2>9. u.node = j /\ u \in reviews[j].probes
    BY <2>5, <2>8
  <2>10. j = k
    BY <2>2, <2>7, <2>9 DEF Name
  <2>11. u = q
    BY <1>6, <2>4, <2>7, <2>9, <2>10 DEF Evidence
  <2> QED BY <2>6, <2>11
<1> HIDE DEF gr, saved, reviews, probes, names
<1>7. MembersIntact(held') /\ IsFunction(held'.members)
  <2>1. DOMAIN blobs = names /\ DOMAIN members = names \cup {CarrierName} /\ members[CarrierName] = prepared.blob
    OBVIOUS
  <2>2. \A n \in names : members[n] = blobs[n]
    BY <1>5
  <2>3. IsFunction(members)
    BY DEF IsFunction
  <2> HIDE DEF blobs, members
  <2> QED BY <1>1, <2>1, <2>2, <2>3 DEF MembersIntact
<1>8. Bare(held').graph = gr /\ Bare(held').blob = prepared.blob /\ gr = prepared.graph
  BY <1>1 DEF Bare, NewPrepared, gr
<1>9. ASSUME saved PROVE BindingMade(binding, held') /\ FiniteEvidence(binding)
  <2>1. binding.indices = plan.indices /\ binding.reviews = reviews
    OBVIOUS
  <2> HIDE DEF binding
  <2>2. IndicesMade(plan.indices, Bare(held')) /\ ReviewsMade(reviews, Bare(held'))
    BY <1>3, <1>8, <1>9, SameCarrier
  <2>3. ASSUME NEW k \in Nodes(gr), reviews[k] # None
        PROVE  /\ plan.indices[k] = <<reviews[k].group>>
               /\ \A q \in reviews[k].probes : blobs[Name(q)] = q.cand
    BY <1>3, <1>6, <1>8, <1>9, <2>3 DEF PlanReviews, ReviewsFor
  <2>4. DOMAIN reviews = Nodes(gr) /\ \A k \in Nodes(gr) : reviews[k] # None => IsFiniteSet(reviews[k].probes)
    BY <1>3, <1>8, <1>9 DEF ReviewsMade, ReviewMade, Evidence
  <2> HIDE DEF blobs
  <2> QED BY <1>1, <2>1, <2>2, <2>3, <2>4 DEF BindingMade, FiniteEvidence
<1> HIDE DEF binding, blobs, members
<1>10. ManifestMade(held')
  <2>1. saved => gr.embedded = {}
    BY DEF saved
  <2>2. held'.groups = GroupsJson(Groups(Bare(held')))
    BY <1>1, <1>8, SameCarrier
  <2>3. held'.bindings # {} => /\ held'.graph.embedded = {}
                               /\ \E s \in held'.bindings : held'.bindings = {s} /\ BindingMade(s, held')
    BY <1>1, <1>9, <2>1
  <2> QED BY <1>1, <1>2, <1>8, <2>2, <2>3 DEF ManifestMade, PreparedMade
<1>11. \A s \in held'.bindings : FiniteEvidence(s)
  BY <1>1, <1>9
<1> QED BY <1>1, <1>7, <1>10, <1>11 DEF BundleMade

\* A manifest is as it was when its fields are.
LEMMA SameManifest ==
  ASSUME NEW b, NEW c, ManifestMade(b), c.graph = b.graph, c.flags = b.flags, c.carrier = b.carrier,
         c.driver = b.driver, c.device = b.device, c.groups = b.groups, c.bindings = b.bindings,
         c.candidates = b.candidates
  PROVE  ManifestMade(c)
<1>1. Bare(c) = Bare(b)
  BY DEF Bare
<1>2. \A s : BindingMade(s, b) => BindingMade(s, c)
  BY <1>1 DEF BindingMade
<1> QED BY <1>1, <1>2 DEF ManifestMade

\* A damaged archive is never intact.
LEMMA DamageMade ==
  ASSUME DOMAIN held = BundleFields, BundleMade(held), DamageBundle
  PROVE  BundleMade(held')
<1>1. PICK m \in Damaged(held.members) : m # held.members /\ held' = [held EXCEPT !.members = m, !.whole = FALSE]
  BY DEF DamageBundle
<1>2. IsFunction(held.members) /\ MembersIntact(held)
  BY DEF DamageBundle, BundleMade
<1>3. IsFunction(m)
  <2> DEFINE M == held.members
             lost == {[n \in DOMAIN M \ {x} |-> M[n]] : x \in DOMAIN M}
             added == {[n \in DOMAIN M \cup {<<0, "extra">>} |-> IF n \in DOMAIN M THEN M[n] ELSE None]}
             Replaced(x) == {[M EXCEPT ![x] = y] : y \in Range(M) \cup {None}}
             replaced == UNION {Replaced(x) : x \in DOMAIN M}
  <2>1. CASE m \in lost
    BY <2>1 DEF IsFunction
  <2>2. CASE m \in added
    BY <2>2 DEF IsFunction
  <2>3. CASE \E x, y : m = [M EXCEPT ![x] = y]
    BY <1>2, <2>3 DEF IsFunction
  <2>4. ASSUME m \in replaced PROVE \E x, y : m = [M EXCEPT ![x] = y]
    <3>1. PICK x \in DOMAIN M : m \in Replaced(x)
      BY <2>4
    <3> QED BY <3>1
  <2>5. m \in UNION {lost, added, replaced}
    BY DEF Damaged
  <2> HIDE DEF lost, added, replaced
  <2> QED BY <2>1, <2>2, <2>3, <2>4, <2>5
<1>4. /\ held'.members = m /\ held'.whole = FALSE /\ held'.edited = held.edited /\ held'.graph = held.graph
      /\ held'.flags = held.flags /\ held'.carrier = held.carrier /\ held'.driver = held.driver
      /\ held'.device = held.device /\ held'.groups = held.groups /\ held'.bindings = held.bindings
      /\ held'.candidates = held.candidates
  BY <1>1 DEF BundleFields
<1>5. ~MembersIntact(held')
  <2>1. SUFFICES ASSUME MembersIntact(held') PROVE m = held.members
    BY <1>1
  <2>2. DOMAIN m = DOMAIN held.members /\ \A n \in DOMAIN m : m[n] = held.members[n]
    BY <1>2, <1>4, <2>1 DEF MembersIntact
  <2> QED BY <1>2, <1>3, <2>2 DEF IsFunction
<1>6. ~held'.edited => ManifestMade(held')
  BY <1>4, SameManifest DEF BundleMade
<1> QED BY <1>3, <1>4, <1>5, <1>6 DEF BundleMade

\* An edit of the manifest leaves finitely many probes.
LEMMA EditedFinite ==
  ASSUME NEW b, NEW s, NEW t \in EditedBindings(s), BindingSaved(s, b), FiniteEvidence(s)
  PROVE  FiniteEvidence(t)
<1> DEFINE reviewed == {k \in DOMAIN s.reviews : s.reviews[k] # None}
           Indexed(k) == {[s EXCEPT !.indices[k] = i] : i \in Offers \cup {<<>>, <<0, 0>>}}
           Kinded(k) == {[s EXCEPT !.reviews[k].kind = c] : c \in Kinds \cup {"other"}}
           Fewer(k) == {[s EXCEPT !.reviews[k].probes = @ \ {q}] : q \in s.reviews[k].probes}
           indices == UNION {Indexed(k) : k \in DOMAIN s.indices}
           kinds == UNION {Kinded(k) : k \in reviewed}
           probes == UNION {Fewer(k) : k \in reviewed}
<1>1. t \in (indices \cup kinds) \cup probes
  BY Zenon DEF EditedBindings
<1>2. CASE t \in indices
  <2>1. PICK k \in DOMAIN s.indices : t \in Indexed(k)
    BY <1>2
  <2> PICK i : t = [s EXCEPT !.indices[k] = i]
    BY <2>1
  <2>2. t.reviews = s.reviews
    BY <2>1 DEF BindingSaved
  <2> QED
    BY <2>2 DEF FiniteEvidence
<1>3. ASSUME NEW k \in reviewed, t \in Kinded(k) \/ t \in Fewer(k) PROVE FiniteEvidence(t)
  <2>1. DOMAIN t.reviews = DOMAIN s.reviews /\ \A j \in DOMAIN s.reviews \ {k} : t.reviews[j] = s.reviews[j]
    BY <1>3 DEF BindingSaved
  <2>2. t.reviews[k].probes \subseteq s.reviews[k].probes
    <3>1. DOMAIN s = {"indices", "reviews"} /\ DOMAIN s.reviews[k] = ReviewFields
      BY DEF BindingSaved
    <3>2. CASE t \in Kinded(k)
      <4>1. PICK c : t = [s EXCEPT !.reviews[k].kind = c]
        BY <3>2
      <4> QED BY <3>1, <4>1 DEF ReviewFields
    <3>3. CASE t \in Fewer(k)
      <4>1. PICK q : t = [s EXCEPT !.reviews[k].probes = @ \ {q}]
        BY <3>3
      <4> QED BY <3>1, <4>1 DEF ReviewFields
    <3> QED BY <1>3, <3>2, <3>3
  <2>3. IsFiniteSet(s.reviews[k].probes)
    BY DEF FiniteEvidence
  <2>4. IsFiniteSet(t.reviews[k].probes)
    BY <2>2, <2>3, FS_Subset
  <2> QED BY <2>1, <2>4 DEF FiniteEvidence
<1> HIDE DEF reviewed, Kinded, Fewer
<1>4. CASE t \in kinds \/ t \in probes
  BY <1>3, <1>4
<1> QED BY <1>1, <1>2, <1>4

\* Nor does it touch the archive.
LEMMA EditMade ==
  ASSUME DOMAIN held = BundleFields, BundleMade(held), SavedEvidence(held), EditManifest
  PROVE  BundleMade(held')
<1> DEFINE edits == UNION {EditedBindings(s) : s \in held.bindings}
           fields == {[held EXCEPT !.device = "other"], [held EXCEPT !.flags = {"fast"}],
                      [held EXCEPT !.groups = <<>>]}
           bindings == {[held EXCEPT !.bindings = {s}] : s \in edits}
           Untouched(b) == /\ DOMAIN b = BundleFields /\ b.members = held.members /\ b.whole = held.whole
                       /\ b.carrier = held.carrier /\ b.candidates = held.candidates
<1>1. held' \in {[b EXCEPT !.edited = TRUE] : b \in fields \cup bindings}
  BY DEF EditManifest
<1>2. \A s \in edits : FiniteEvidence(s)
  BY EditedFinite DEF SavedEvidence, BundleMade
<1>3. \A s \in held.bindings : FiniteEvidence(s)
  BY DEF BundleMade
<1>4. \A b \in fields : Untouched(b) /\ b.bindings = held.bindings
  BY DEF BundleFields
<1> HIDE DEF edits
<1>5. ASSUME NEW b \in bindings PROVE Untouched(b) /\ \A s \in b.bindings : s \in edits
  <2>1. PICK s \in edits : b = [held EXCEPT !.bindings = {s}]
    OBVIOUS
  <2> QED BY <2>1 DEF BundleFields
<1> HIDE DEF fields, bindings
<1>6. PICK b \in fields \cup bindings : held' = [b EXCEPT !.edited = TRUE]
  BY <1>1
<1>7. Untouched(b) /\ \A s \in b.bindings : FiniteEvidence(s)
  BY <1>2, <1>3, <1>4, <1>5
<1>8. /\ held'.members = held.members /\ held'.whole = held.whole /\ held'.carrier = held.carrier
      /\ held'.candidates = held.candidates /\ held'.bindings = b.bindings /\ held'.edited = TRUE
  BY <1>6, <1>7 DEF BundleFields
<1> QED BY <1>7, <1>8 DEF BundleMade, MembersIntact

\* A saved program holds its blob and its reports.
LEMMA ArtifactExported ==
  ASSUME ExportProgram, held.reports \in Seq(Range(held.reports))
  PROVE  DOMAIN held' = ArtifactFields /\ held'.kind = "artifact" /\ ArtifactMade(held')
<1> DEFINE members == [m \in 0..Len(held.reports) |-> IF m = 0 THEN held.blob ELSE held.reports[m]]
<1>1. /\ DOMAIN held' = ArtifactFields /\ held'.kind = "artifact" /\ held'.blob = held.blob
      /\ held'.reports = held.reports /\ held'.members = members /\ held'.whole = TRUE
  BY DEF ExportProgram, ArtifactFields
<1>2. Len(held.reports) \in Nat /\ DOMAIN held.reports = 1..Len(held.reports)
  OBVIOUS
<1>3. IsFunction(members) /\ DOMAIN members = 0..Len(held.reports) /\ members[0] = held.blob
  BY <1>2 DEF IsFunction
<1>4. \A i \in DOMAIN held.reports : members[i] = held.reports[i]
  BY <1>2
<1> HIDE DEF members
<1>5. ArtifactIntact(held')
  BY <1>1, <1>3, <1>4 DEF ArtifactIntact
<1> QED BY <1>1, <1>3, <1>5 DEF ArtifactMade

\* A damaged one is never intact.
LEMMA ArtifactDamaged ==
  ASSUME DOMAIN held = ArtifactFields, ArtifactMade(held), DamageArtifact
  PROVE  DOMAIN held' = ArtifactFields /\ held'.kind = "artifact" /\ ArtifactMade(held')
<1>1. PICK x \in DOMAIN held.members, lost \in BOOLEAN :
        LET members == [m \in DOMAIN held.members \ (IF lost THEN {x} ELSE {}) |->
                          IF m = x THEN None ELSE held.members[m]]
        IN members # held.members /\ held' = [held EXCEPT !.whole = FALSE, !.members = members]
  BY DEF DamageArtifact
<1> DEFINE members == [m \in DOMAIN held.members \ (IF lost THEN {x} ELSE {}) |->
                         IF m = x THEN None ELSE held.members[m]]
<1>2. /\ DOMAIN held' = ArtifactFields /\ held'.kind = "artifact" /\ held'.blob = held.blob
      /\ held'.reports = held.reports /\ held'.members = members /\ held'.whole = FALSE
      /\ members # held.members
  BY <1>1 DEF DamageArtifact, ArtifactFields, Holds
<1>3. ArtifactIntact(held) /\ IsFunction(held.members) /\ held.reports \in Seq(Range(held.reports))
  BY DEF DamageArtifact, ArtifactMade
<1>4. IsFunction(members)
  BY DEF IsFunction
<1> HIDE DEF members
<1>5. ~ArtifactIntact(held')
  <2>1. SUFFICES ASSUME ArtifactIntact(held') PROVE members = held.members
    BY <1>2
  <2>2. DOMAIN members = DOMAIN held.members /\ members[0] = held.members[0]
        /\ \A i \in DOMAIN held.reports : members[i] = held.members[i]
    BY <1>2, <1>3, <2>1 DEF ArtifactIntact
  <2>3. DOMAIN held.members = 0..Len(held.reports) /\ DOMAIN held.reports = 1..Len(held.reports)
        /\ Len(held.reports) \in Nat
    BY <1>3 DEF ArtifactIntact
  <2>4. \A n \in DOMAIN held.members : members[n] = held.members[n]
    BY <2>2, <2>3
  <2> QED BY <1>3, <1>4, <2>2, <2>4 DEF IsFunction
<1> QED BY <1>2, <1>3, <1>4, <1>5 DEF ArtifactMade

\* No group, no targets.
LEMMA NoGroupsNoTargets ==
  ASSUME NEW p, NEW k PROVE TargetsOf(p, k, <<>>) = {}
<1> DEFINE n == Customs(p.graph)[k]
           in == InSpecs(p.graph.g, n)
           outs == p.graph.g[n].specs
           groups == [i \in DOMAIN <<>> |-> Groups(p)[<<>>[i] + 1]]
           chosen == IF <<>> \in Seq(0..(Len(Groups(p)) - 1)) THEN Selected(in, outs, groups) ELSE {}
           Chosen(t) == IF Len(groups) = 1 /\ Version(t, 2) THEN OrElse(LegacyTargets(t), t) ELSE {t}
<1>1. TargetsOf(p, k, <<>>) = UNION {Chosen(t) : t \in chosen}
  BY DEF TargetsOf
<1>2. groups = <<>>
  OBVIOUS
<1> HIDE DEF in, outs, groups
<1>3. DOMAIN groups = {} /\ Len(groups) = 0
  BY <1>2
<1>4. Selected(in, outs, groups) = CombinedCustomTargets(in, outs, groups)
  BY <1>3 DEF Selected
<1>5. CombinedCustomTargets(in, outs, groups) = {}
  BY <1>3 DEF CombinedCustomTargets, Require
<1>6. chosen = {}
  BY <1>4, <1>5
<1> HIDE DEF Chosen, chosen
<1> QED BY <1>1, <1>6

LEMMA AllOfSome ==
  ASSUME NEW results, \A k \in DOMAIN results : results[k] # {}
  PROVE  AllOf(results) # {}
BY DEF AllOf

\* A prepared graph plans what it was loaded with.
LEMMA ResolveSaved ==
  ASSUME NEW p, NEW s, p.graph.embedded = {}, p.saved = {s}, IndicesMade(s, p)
  PROVE  /\ Resolve(p, <<>>) # {}
         /\ \A r \in Resolve(p, <<>>) :
              /\ r.indices = s
              /\ IsFunction(p.reviews) /\ DOMAIN p.reviews = Nodes(p.graph) => r.reviews = p.reviews
<1> DEFINE nodes == Nodes(p.graph)
           chosen == [k \in nodes |-> Indices(p, <<>>, k)]
           Targets(c) == [k \in nodes |-> TargetsOf(p, k, c[k])]
           reviews == [k \in nodes |-> ReviewOf(p, <<>>, k)]
           Made(c) == {[indices |-> c, targets |-> targets, reviews |-> reviews] : targets \in AllOf(Targets(c))}
           all == {c \in AllOf(chosen) : NoGroupTwice(c)}
<1>1. /\ IsFunction(s) /\ DOMAIN s = nodes /\ NoGroupTwice(s)
      /\ \A k \in nodes : TargetsOf(p, k, s[k]) # {}
  BY DEF IndicesMade
<1>2. DOMAIN <<>> = {}
  OBVIOUS
<1>3. ASSUME NEW k PROVE Indices(p, <<>>, k) = {s[k]} /\ ReviewOf(p, <<>>, k) = p.reviews[k]
  BY <1>2 DEF Indices, ReviewOf
<1>4. ASSUME NEW c, IsFunction(c), DOMAIN c = nodes, \A k \in nodes : c[k] \in Indices(p, <<>>, k) PROVE c = s
  <2>1. \A k \in nodes : c[k] = s[k]
    BY <1>3, <1>4
  <2> HIDE DEF nodes
  <2> QED BY <1>1, <1>4, <2>1 DEF IsFunction
<1>5. s \in all
  <2>1. DOMAIN chosen = nodes /\ \A k \in nodes : chosen[k] = Indices(p, <<>>, k) /\ chosen[k] # {}
    BY <1>3
  <2> HIDE DEF chosen
  <2>2. PICK c : c \in AllOf(chosen)
    BY <2>1, AllOfSome
  <2>3. c = s
    BY <1>4, <2>1, <2>2, AllOfEach
  <2> QED BY <1>1, <2>2, <2>3
<1>6. AllOf(Targets(s)) # {}
  <2> DEFINE results == Targets(s)
  <2>1. \A k \in DOMAIN results : results[k] # {}
    BY <1>1
  <2> HIDE DEF results
  <2> QED BY <2>1, AllOfSome DEF results
<1>7. Made(s) # {}
  <2> HIDE DEF Targets, reviews
  <2> QED BY <1>6
<1>8. Resolve(p, <<>>) = UNION {Made(c) : c \in all}
  BY DEF Resolve
<1>9. ASSUME NEW r \in Resolve(p, <<>>)
      PROVE  r.indices = s /\ (IsFunction(p.reviews) /\ DOMAIN p.reviews = nodes => r.reviews = p.reviews)
  <2>1. r.indices = s
    BY <1>4, ResolvedFrom
  <2>2. r.reviews = reviews
    BY ResolvedFrom
  <2>3. \A k \in nodes : reviews[k] = p.reviews[k]
    BY <1>3
  <2>4. DOMAIN reviews = nodes /\ IsFunction(reviews)
    BY DEF IsFunction
  <2> HIDE DEF reviews, nodes
  <2> QED BY <2>1, <2>2, <2>3, <2>4 DEF IsFunction
<1> HIDE DEF Made, all
<1> QED BY <1>5, <1>7, <1>8, <1>9

\* What a bundle with bindings loads as, when it is as it was exported.
LEMMA ReloadedBindings ==
  ASSUME NEW b, NEW s, SavedEvidence(b), BundleMade(b), b.whole, b.bindings = {s}, BindingMade(s, b),
         b.graph.embedded = {},
         Preparable(b.graph), PreparedBindings(b, b.graph), SameIdentity(b, b.graph)
  PROVE  /\ LoadPrepared(b, b.graph) # {}
         /\ \A p \in LoadPrepared(b, b.graph) : \A r \in Resolve(p, <<>>) :
              r.indices = s.indices /\ r.reviews = s.reviews
<1> DEFINE gr == b.graph
           saved == CHOOSE x \in b.bindings : TRUE
           bare == NewPrepared(gr, b.flags, b.members[CarrierName], {saved.indices}, NoReviews(gr))
           Again(k) == {r \in Restored(bare, k, saved.reviews[k], b.members) : saved.indices[k] = <<r.group>>}
           reviews == [k \in Nodes(gr) |-> IF saved.reviews[k] = None THEN None ELSE CHOOSE r \in Again(k) : TRUE]
           full == [bare EXCEPT !.reviews = reviews]
<1>1. saved = s
  OBVIOUS
<1>2. MembersIntact(b) /\ BindingSaved(s, b)
  BY DEF BundleMade, SavedEvidence
<1>3. bare.graph = gr /\ bare.blob = b.carrier /\ bare.saved = {s.indices}
  BY <1>1, <1>2 DEF NewPrepared, MembersIntact
<1>4. full.graph = gr /\ full.blob = b.carrier /\ full.saved = {s.indices} /\ full.reviews = reviews
  BY <1>3 DEF NewPrepared
<1>5. Bare(b).graph = gr /\ Bare(b).blob = b.carrier
  BY DEF Bare, NewPrepared
<1>6. LoadPrepared(b, gr) = IF \A k \in Nodes(gr) : saved.reviews[k] # None => Again(k) # {}
                            THEN Require(Resolve(full, <<>>) # {}, full) ELSE {}
  BY <1>2 DEF LoadPrepared
<1>7. ASSUME NEW k \in Nodes(gr), s.reviews[k] # None
      PROVE  Again(k) # {} /\ \A x \in Again(k) : x = s.reviews[k]
  <2> DEFINE r == s.reviews[k]
  <2>1. /\ ReviewMade(r, k, Bare(b)) /\ s.indices[k] = <<r.group>> /\ k \in DOMAIN s.reviews
        /\ \A q \in r.probes : b.candidates[Name(q)] = q.cand
    BY <1>5, <1>7 DEF BindingMade, ReviewsMade
  <2>2. \A q \in r.probes : Name(q) \in DOMAIN b.candidates
    BY <1>2, <1>7, <2>1 DEF BindingSaved
  <2>3. \A q \in r.probes : b.members[Name(q)] = q.cand
    BY <1>2, <2>1, <2>2 DEF MembersIntact
  <2>4. ReviewMade(r, k, bare)
    <3> HIDE DEF bare
    <3> QED BY <1>3, <1>5, <2>1, SameCarrier
  <2> HIDE DEF bare, r
  <2>5. r \in Restored(bare, k, r, b.members) /\ \A x \in Restored(bare, k, r, b.members) : x = r
    BY <2>3, <2>4, RestoredSame
  <2> QED BY <1>1, <2>1, <2>5 DEF r
<1> HIDE DEF bare, Again
<1>8. reviews = s.reviews
  <2>1. IsFunction(reviews) /\ DOMAIN reviews = Nodes(gr)
    BY DEF IsFunction
  <2>2. IsFunction(s.reviews) /\ DOMAIN s.reviews = Nodes(gr)
    BY <1>5 DEF BindingMade, ReviewsMade
  <2>3. ASSUME NEW k \in Nodes(gr) PROVE reviews[k] = s.reviews[k]
    <3>1. CASE s.reviews[k] = None
      BY <1>1, <3>1
    <3>2. CASE s.reviews[k] # None
      <4>1. reviews[k] = CHOOSE r \in Again(k) : TRUE
        BY <1>1, <3>2
      <4>2. reviews[k] \in Again(k)
        BY <1>7, <3>2, <4>1
      <4> QED BY <1>7, <3>2, <4>2
    <3> QED BY <3>1, <3>2
  <2> HIDE DEF reviews
  <2> QED BY <2>1, <2>2, <2>3 DEF IsFunction
<1>9. IndicesMade(s.indices, full)
  <2>1. IndicesMade(s.indices, Bare(b))
    BY DEF BindingMade
  <2> HIDE DEF full
  <2> QED BY <1>4, <1>5, <2>1, SameCarrier
<1> HIDE DEF full, reviews
<1>10. /\ Resolve(full, <<>>) # {}
       /\ \A r \in Resolve(full, <<>>) : r.indices = s.indices /\ r.reviews = s.reviews
  <2>1. IsFunction(full.reviews) /\ DOMAIN full.reviews = Nodes(full.graph) /\ full.reviews = s.reviews
    BY <1>4, <1>5, <1>8 DEF BindingMade, ReviewsMade
  <2> QED BY <1>4, <1>9, <2>1, ResolveSaved
<1>11. LoadPrepared(b, gr) = {full}
  BY <1>1, <1>6, <1>7, <1>10 DEF Require
<1> QED BY <1>10, <1>11

\* A bundle that is as it was exported loads, under the driver of its carrier.
LEMMA Reloaded ==
  ASSUME NEW b, SavedEvidence(b), BundleMade(b), b.whole, ~b.edited, b.driver = driver
  PROVE  /\ LoadPrepared(b, b.graph) # {}
         /\ \A p \in LoadPrepared(b, b.graph) : \A s \in b.bindings, r \in Resolve(p, <<>>) :
              r.indices = s.indices /\ r.reviews = s.reviews
<1> DEFINE gr == b.graph
<1>1. MembersIntact(b) /\ ManifestMade(b)
  BY DEF BundleMade
<1>2. SameIdentity(b, gr)
  <2> DEFINE p == NewPrepared(gr, b.flags, b.members[CarrierName], {}, NoReviews(gr))
  <2>1. p = Bare(b)
    BY <1>1 DEF Bare, MembersIntact
  <2> QED BY <1>1, <2>1 DEF ManifestMade, SameIdentity, PreparedIdentity, PreparedProvenance
<1>3. Preparable(gr)
  BY <1>1 DEF ManifestMade
<1>4. CASE b.bindings = {}
  BY <1>1, <1>2, <1>3, <1>4 DEF LoadPrepared, PreparedBindings
<1>5. CASE b.bindings # {}
  <2>1. PICK s : b.bindings = {s} /\ BindingMade(s, b) /\ gr.embedded = {}
    BY <1>1, <1>5 DEF ManifestMade
  <2>2. Bare(b).graph = gr
    BY DEF Bare, NewPrepared
  <2>3. /\ DOMAIN s.indices = Nodes(gr) /\ NoGroupTwice(s.indices)
        /\ \A k \in Nodes(gr) : TargetsOf(Bare(b), k, s.indices[k]) # {}
    BY <2>1, <2>2 DEF BindingMade, IndicesMade
  <2>4. ASSUME NEW k \in Nodes(gr), s.reviews[k] # None
        PROVE  /\ Len(s.indices[k]) = 1 /\ s.reviews[k].kind \in Kinds
               /\ Cardinality(s.reviews[k].probes) \in 2..8
    <3> DEFINE r == s.reviews[k]
    <3>1. /\ ReviewMade(r, k, Bare(b)) /\ s.indices[k] = <<r.group>>
          /\ \A q \in r.probes : b.candidates[Name(q)] = q.cand
      BY <2>1, <2>2, <2>4 DEF BindingMade, ReviewsMade
    <3>2. Cardinality(r.probes) \in 2..8
      BY <3>1, RestoredSame
    <3> QED BY <3>1, <3>2 DEF ReviewMade
  <2>5. ASSUME NEW k \in Nodes(gr) PROVE s.indices[k] # <<>> /\ Distinct(s.indices[k])
    BY <2>3, NoGroupsNoTargets DEF NoGroupTwice, NoGroupTwice_per_node
  <2>6. PreparedBindings(b, gr)
    BY <2>1, <2>3, <2>4, <2>5 DEF PreparedBindings
  <2> QED BY <1>2, <1>3, <2>1, <2>6, ReloadedBindings
<1> QED BY <1>4, <1>5

LEMMA RoundInit == PInit => RoundInv
BY DEF PInit, RoundInv, Nothing, Holds

\* The kinds of things that no bundle and no saved program is made of.
Passing(kind) == kind \notin {"evidence", "review", "bundle", "program", "artifact"}

Unsaved == /\ UNCHANGED <<prepared, plan>>
           /\ UNCHANGED held \/ ("kind" \in DOMAIN held /\ Passing(held.kind))'

LEMMA RoundFrame == RoundInv /\ Unsaved => RoundInv'
BY DEF RoundInv, Unsaved, Passing, Holds

LEMMA UnsavedSteps ==
  ASSUME "kind" \in DOMAIN held,
         \/ \E gr \in Graphs : \E l \in Layouts(gr), f \in Flags(gr) : CompileGraph(gr, f, l)
         \/ \E kinds : ReviewTopology(kinds)
         \/ ProposeTopology \/ BuildPrepared \/ StartBuild \/ CompileKernel \/ PatchKernel \/ Release
         \/ DriverUpdate \/ EditSource \/ UNCHANGED pvars
         \/ \E k : ReviewIr(k)
  PROVE  Unsaved
<1>1. CASE CompileKernel
  BY <1>1 DEF CompileKernel, Unsaved, Passing, Holds
<1>2. CASE PatchKernel
  BY <1>2 DEF PatchKernel, Unsaved, Passing, Holds
<1>3. ASSUME NEW k, ReviewIr(k) PROVE Unsaved
  BY <1>3 DEF ReviewIr, Unsaved, Passing
<1>4. ASSUME NEW kinds, ReviewTopology(kinds) PROVE Unsaved
  BY <1>4 DEF ReviewTopology, Unsaved, Passing
<1> QED
  BY <1>1, <1>2, <1>3, <1>4
     DEF CompileGraph, ProposeTopology, BuildPrepared, StartBuild, Building, Release, Nothing, DriverUpdate,
         EditSource, pvars, Unsaved, Passing

\* What prepares a graph, plans, probes, exports, and saves a program.
LEMMA RoundPrepares ==
  ASSUME CarrierInv, ReviewInv, RoundInv,
         \/ \E gr \in Graphs : \E l \in Layouts(gr), f \in Flags(gr) : Prepare(gr, f, l)
         \/ \E gr \in Graphs : Load(gr)
  PROVE  RoundInv'
<1>1. plan' = None /\ UNCHANGED held
  BY DEF Prepare, Load
<1>2. PreparedMade(prepared')
  <2>1. ASSUME NEW gr, NEW l, NEW f, Prepare(gr, f, l) PROVE PreparedMade(prepared')
    BY <2>1, PreparedForMade DEF Prepare
  <2>2. ASSUME NEW gr, Load(gr) PROVE PreparedMade(prepared')
    BY <2>2, LoadedMade DEF Load, CarrierInv, ReviewInv, RoundInv
  <2> QED BY <2>1, <2>2
<1> QED BY <1>1, <1>2 DEF RoundInv, Holds

LEMMA RoundPlans ==
  ASSUME RoundInv, NEW c, (\E b \in Bindings : Plan(b, c)) \/ Plan(<<>>, c)
  PROVE  RoundInv'
<1>1. prepared # None /\ UNCHANGED <<prepared, held>> /\ PreparedMade(prepared)
  BY DEF Plan, RoundInv
<1>2. PICK b \in Bindings : plan' \in PlanOf(prepared, b, c)
  BY DEF Plan, Bindings
<1>3. ASSUME NEW k \in DOMAIN b, "probes" \in DOMAIN b[k]
      PROVE  b[k].kind \in Kinds /\ Evidence(b[k].probes)
  BY <1>3, BindingsOffered DEF RoundInv
<1>4. PlanMade(plan')
  BY <1>1, <1>2, <1>3, PlanOfMade DEF PreparedMade
<1> QED BY <1>1, <1>4 DEF RoundInv, Holds

\* Evidence and reviews of it.
LEMMA RoundReviews ==
  ASSUME RoundInv,
         \/ \E k, failed, ls : ProbeCandidates(k, failed, ls)
         \/ \E k : \E kind \in Kinds : ReviewBinding(k, kind)
  PROVE  RoundInv'
<1>1. ASSUME NEW k, NEW failed, NEW ls, ProbeCandidates(k, failed, ls) PROVE RoundInv'
  <2>1. "kind" \in DOMAIN held' /\ held'.kind = "evidence" /\ UNCHANGED <<prepared, plan>>
    BY <1>1 DEF ProbeCandidates
  <2>2. Evidence(held'.probes)
    BY <1>1, ProbesMade
  <2> QED BY <2>1, <2>2 DEF RoundInv, Holds
<1>2. ASSUME NEW k, NEW kind \in Kinds, ReviewBinding(k, kind) PROVE RoundInv'
  <2>1. PICK r \in Review(prepared, k, held.probes, kind) : held' = [kind |-> "review", review |-> r]
    BY <1>2 DEF ReviewBinding
  <2>2. r.probes = held.probes /\ r.kind = kind
    BY ReviewParts
  <2>3. Evidence(held.probes) /\ UNCHANGED <<prepared, plan>>
    BY <1>2 DEF ReviewBinding, RoundInv
  <2>4. held'.kind = "review" /\ "kind" \in DOMAIN held' /\ held'.review = r
    BY <2>1
  <2> QED BY <2>2, <2>3, <2>4 DEF RoundInv, Holds
<1> QED BY <1>1, <1>2

LEMMA RoundBundles ==
  ASSUME ReviewInv, BuildInv, RoundInv, (\E withPlan \in BOOLEAN : Export(withPlan)) \/ DamageBundle \/ EditManifest
  PROVE  RoundInv'
<1>1. /\ UNCHANGED <<prepared, plan>> /\ DOMAIN held' = BundleFields /\ held'.kind = "bundle"
      /\ BundleMade(held')
  <2>1. ASSUME NEW withPlan \in BOOLEAN, Export(withPlan)
        PROVE  /\ UNCHANGED <<prepared, plan>> /\ DOMAIN held' = BundleFields /\ held'.kind = "bundle"
               /\ BundleMade(held')
    <3>1. BundleMade(held')
      BY <2>1, ExportMade
    <3> QED BY <2>1, <3>1 DEF Export, BundleFields
  <2>2. CASE DamageBundle \/ EditManifest
    <3>1. Holds("bundle") /\ DOMAIN held = BundleFields /\ BundleMade(held) /\ SavedEvidence(held)
      BY <2>2 DEF DamageBundle, EditManifest, RoundInv, ReviewInv
    <3>2. BundleMade(held')
      BY <2>2, <3>1, DamageMade, EditMade
    <3> QED BY <2>2, <3>1, <3>2, BundleEdits DEF Holds
  <2> QED BY <2>1, <2>2
<1>2. "kind" \in DOMAIN held'
  BY <1>1 DEF BundleFields
<1> QED BY <1>1, <1>2 DEF RoundInv, Holds

\* Programs and what they are saved as.
LEMMA RoundPrograms ==
  ASSUME BuildInv, RoundInv, FinishBuild \/ (\E l, k : BuildIr(l, k)) \/ ExportProgram \/ DamageArtifact
  PROVE  RoundInv'
<1>1. UNCHANGED <<prepared, plan>>
  BY DEF FinishBuild, BuildIr, ExportProgram, DamageArtifact
<1>2. CASE FinishBuild
  <2>1. PICK n \in Nat : BuiltTo(held, n)
    BY <1>2 DEF FinishBuild, BuildInv
  <2>2. held'.kind = "program" /\ "kind" \in DOMAIN held' /\ held'.reports = [k \in 1..n |-> ReportAt(held.plan, k)]
    BY <1>2, <2>1 DEF FinishBuild, BuiltTo
  <2> DEFINE reports == [k \in 1..n |-> ReportAt(held.plan, k)]
  <2>3. reports \in Seq(Range(reports))
    <3>1. \A k \in 1..n : reports[k] \in Range(reports)
      BY DEF Range
    <3>2. reports = [k \in 1..n |-> reports[k]]
      OBVIOUS
    <3> HIDE DEF reports
    <3> QED BY <3>1, <3>2
  <2> HIDE DEF reports
  <2>4. held'.reports \in Seq(Range(held'.reports))
    BY <2>2, <2>3 DEF reports
  <2> QED BY <1>1, <2>2, <2>4 DEF RoundInv, Holds
<1>3. ASSUME NEW l, NEW k, BuildIr(l, k) PROVE RoundInv'
  <2>1. \E r : held'.kind = "program" /\ "kind" \in DOMAIN held' /\ held'.reports = <<r>>
    BY <1>3 DEF BuildIr
  <2>2. \A r : <<r>> \in Seq(Range(<<r>>))
    BY DEF Range
  <2>3. held'.reports \in Seq(Range(held'.reports))
    BY <2>1, <2>2
  <2> QED BY <1>1, <2>1, <2>3 DEF RoundInv, Holds
<1>4. CASE ExportProgram \/ DamageArtifact
  <2>1. DOMAIN held' = ArtifactFields /\ held'.kind = "artifact" /\ ArtifactMade(held')
    BY <1>4, ArtifactExported, ArtifactDamaged DEF ExportProgram, DamageArtifact, RoundInv
  <2>2. "kind" \in DOMAIN held'
    BY <2>1 DEF ArtifactFields
  <2> QED BY <1>1, <2>1, <2>2 DEF RoundInv, Holds
<1> QED BY <1>2, <1>3, <1>4

LEMMA RoundStep == CarrierInv /\ ReviewInv /\ BuildInv /\ RoundInv /\ [PNext]_pvars => RoundInv'
<1> SUFFICES ASSUME CarrierInv, ReviewInv, BuildInv, RoundInv, [PNext]_pvars PROVE RoundInv'
  OBVIOUS
<1>1. "kind" \in DOMAIN held
  BY DEF RoundInv
<1>2. ASSUME Unsaved PROVE RoundInv'
  BY <1>2, RoundFrame
<1>3. ASSUME NEW gr \in Graphs,
             Load(gr) \/ \E l \in Layouts(gr), f \in Flags(gr) : Prepare(gr, f, l) \/ CompileGraph(gr, f, l)
      PROVE  RoundInv'
  BY <1>1, <1>2, <1>3, UnsavedSteps, RoundPrepares
<1>4. ASSUME NEW c, (\E b \in Bindings : Plan(b, c)) \/ Plan(<<>>, c) PROVE RoundInv'
  BY <1>4, RoundPlans
<1>5. ASSUME Export(TRUE) \/ Export(FALSE) \/ DamageBundle \/ EditManifest PROVE RoundInv'
  BY <1>5, RoundBundles
<1>6. ASSUME \/ \E k, failed, ls : ProbeCandidates(k, failed, ls)
             \/ \E k : \E kind \in Kinds : ReviewBinding(k, kind)
      PROVE  RoundInv'
  BY <1>6, RoundReviews
<1>7. ASSUME FinishBuild \/ (\E l, k : BuildIr(l, k)) \/ ExportProgram \/ DamageArtifact PROVE RoundInv'
  BY <1>7, RoundPrograms
<1>8. ASSUME \/ \E kinds : ReviewTopology(kinds)
             \/ ProposeTopology \/ BuildPrepared \/ StartBuild \/ CompileKernel \/ PatchKernel \/ Release
             \/ DriverUpdate \/ EditSource \/ UNCHANGED pvars
             \/ \E k : ReviewIr(k)
      PROVE  RoundInv'
  BY <1>1, <1>2, <1>8, UnsavedSteps
<1>9. CASE PNext
  BY <1>3, <1>4, <1>5, <1>6, <1>7, <1>8, <1>9 DEF PNext
<1> QED
  BY <1>8, <1>9

LEMMA Returns == PlanInv /\ ReviewInv /\ RoundInv => RoundTrip
<1> SUFFICES ASSUME PlanInv, ReviewInv, RoundInv PROVE RoundTrip
  OBVIOUS
<1>1. CASE Holds("bundle")
  <2> DEFINE b == held
             groups == Groups(NewPrepared(b.graph, b.flags, b.carrier, {}, NoReviews(b.graph)))
             contracts == [i \in DOMAIN groups |-> ContractOf(groups[i])]
             loaded == LoadPrepared(b, b.graph)
  <2>1. BundleMade(b) /\ SavedEvidence(b) /\ Discovered(b.carrier.layout.groups)
    BY <1>1 DEF RoundInv, ReviewInv, PlanInv
  <2>2. ASSUME ~b.whole PROVE loaded = {}
    BY <2>1, <2>2 DEF BundleMade, LoadPrepared
  <2>3. ASSUME NEW p \in loaded PROVE p.blob = b.carrier /\ CarrierKeeps(contracts, p)
    <3>1. p.graph = b.graph /\ p.blob = b.carrier
      BY LoadedCarrier
    <3>2. Bare(b).graph = b.graph /\ Bare(b).blob = b.carrier /\ groups = Groups(Bare(b))
      BY DEF Bare, NewPrepared
    <3> HIDE DEF groups
    <3>3. groups = Groups(p) /\ Discovered(Groups(p))
      BY <2>1, <3>1, <3>2, SameCarrier, GroupsDiscovered
    <3>4. contracts = [i \in DOMAIN Groups(p) |-> ContractOf(Groups(p)[i])]
      BY <3>3
    <3> HIDE DEF contracts
    <3> QED BY <3>1, <3>3, <3>4, CarrierKept
  <2>4. ASSUME b.whole, b.driver = driver, ~b.edited
        PROVE  /\ loaded # {}
               /\ \A p \in loaded : \A s \in b.bindings, r \in Resolve(p, <<>>) :
                    r.indices = s.indices /\ r.reviews = s.reviews
    BY <2>1, <2>4, Reloaded
  <2> HIDE DEF contracts, groups, loaded
  <2>5. IF ~b.whole THEN loaded = {}
        ELSE b.driver = driver /\ ~b.edited =>
               /\ loaded # {}
               /\ \A p \in loaded :
                    /\ p.blob = b.carrier /\ CarrierKeeps(contracts, p)
                    /\ \A s \in b.bindings, r \in Resolve(p, <<>>) :
                         r.indices = s.indices /\ r.reviews = s.reviews
    BY <2>2, <2>3, <2>4
  <2>6. ~Holds("artifact")
    BY <1>1 DEF Holds
  <2> QED BY <2>5, <2>6 DEF RoundTrip, contracts, groups, loaded
<1>2. CASE Holds("artifact")
  <2>1. ArtifactMade(held) /\ ~Holds("bundle")
    BY <1>2 DEF RoundInv, Holds
  <2> DEFINE reports == [i \in DOMAIN held.reports |-> held.members[i]]
  <2>2. ASSUME held.whole PROVE reports = held.reports /\ held.members[0] = held.blob
    <3>1. /\ held.reports \in Seq(Range(held.reports)) /\ held.members[0] = held.blob
          /\ \A i \in DOMAIN held.reports : held.members[i] = held.reports[i]
      BY <2>1, <2>2 DEF ArtifactMade, ArtifactIntact
    <3>2. reports = [i \in DOMAIN held.reports |-> held.reports[i]]
      BY <3>1
    <3> QED BY <3>1, <3>2
  <2>3. LoadArtifact(held) = IF ArtifactIntact(held) THEN {[blob |-> held.members[0], reports |-> reports]} ELSE {}
    BY DEF LoadArtifact, Require, ArtifactIntact
  <2> HIDE DEF reports
  <2>4. LoadArtifact(held) = IF held.whole THEN {[blob |-> held.blob, reports |-> held.reports]} ELSE {}
    BY <2>1, <2>2, <2>3 DEF ArtifactMade
  <2> QED BY <2>1, <2>4 DEF RoundTrip
<1>3. CASE ~Holds("bundle") /\ ~Holds("artifact")
  BY <1>3 DEF RoundTrip
<1> QED BY <1>1, <1>2, <1>3

\* An undamaged bundle of a prepared graph loads under its driver with the
\* carrier, the bindings and the reviews that were exported, a damaged one is
\* refused, and a saved program comes back as it was or not at all.
THEOREM RoundTripCorrect == PSpec => []RoundTrip
<1>1. CarrierInv /\ ReviewInv /\ BuildInv /\ PlanInv /\ RoundInv /\ [PNext]_pvars
        => (CarrierInv /\ ReviewInv /\ BuildInv /\ PlanInv /\ RoundInv)'
  BY CarrierStep, ReviewStep, BuildStep, PlanStep, RoundStep
<1> QED
  BY <1>1, Returns, CarrierInit, ReviewInit, BuildInit, PlanInit, RoundInit, PTL DEF PSpec
=============================================================================
