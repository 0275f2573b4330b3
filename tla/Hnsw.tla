-------------------------------- MODULE Hnsw --------------------------------
(***************************************************************************)
(* The HNSW application (contrib/hnsw): the construction of a navigable    *)
(* graph, its saved form, the search on the host, and the search of the    *)
(* ACT kernel on packed queries in buffers that live as long as the        *)
(* searcher.                                                               *)
(*                                                                         *)
(* Nodes are numbered from 0; a vector is a sequence of integers, and      *)
(* NonFinite stands for a NaN or an infinity.  A distance is the sum of    *)
(* the squares, and TooFar once it overflows; the rounding of floats, and  *)
(* with it the order of the additions, is left out.                        *)
(***************************************************************************)
EXTENDS Maybe, Integers, Sequences, FiniteSets, SequencesExt, FiniteSetsExt

CONSTANTS MaxHnswNodes,   \* MAX_NODES
          MaxDimensions,  \* MAX_DIMENSIONS
          MaxLevels,      \* MAX_LEVELS
          MaxM,           \* MAX_M
          MaxEf,          \* MAX_EF
          MaxK,           \* MAX_K
          HnswChunk,      \* CHUNK_ELEMENTS
          HnswReplicas,   \* REPLICAS
          MaxChunks,      \* MAX_CHUNKS_PER_INVOCATION
          TooFar,         \* the distance that stands for infinity
          NonFinite,
          Builds,         \* [vectors, m, ef_construction, max_levels] of the client
          Capacities,     \* batch capacities of the client
          Searches        \* [queries, k, ef_search, verify] of the client

QueryMagic == 1
GraphMagic == 2
HnswVersion == 4
QueryHeader == 8
GraphHeader == 8
NodeGraphElements == 1 + MaxLevels * (1 + MaxM)

ASSUME HnswAssumption ==
  /\ {MaxHnswNodes, MaxDimensions, MaxLevels, MaxM, MaxEf, MaxK, HnswReplicas, MaxChunks} \subseteq Nat \ {0}
  /\ HnswChunk \in Nat /\ TooFar \in Nat /\ NonFinite \notin Int

VARIABLES growing,    \* build_hnsw under way: its arguments and the graph so far, or None
          hindex,     \* the client's HnswIndex, or None
          archive,    \* the index saved last and what is in its file: [of, file], or None
          searcher,   \* the NpuHnsw object [index, graph, queries], or None
          found       \* what the last search_many did: [request, outcome, results], or None;
                      \* the request is None when it was refused

hvars == <<growing, hindex, archive, searcher, found>>

-----------------------------------------------------------------------------
(* Distances and orders.                                                   *)

Count(i) == Len(i.vectors)
Dimensions(i) == Len(i.vectors[1])
Vector(i, node) == i.vectors[node + 1]
AllFinite(vector) == \A c \in DOMAIN vector : vector[c] # NonFinite

\* _distance and _search_distance.
SquaredDistance(a, b) ==
  LET total == SumFunction([c \in DOMAIN a |-> (a[c] - b[c])^2]) IN IF total < TooFar THEN total ELSE TooFar
Distances(i, query) == [node \in 0..(Count(i) - 1) |-> SquaredDistance(query, Vector(i, node))]

\* _ordered, hnsw_better and hnsw_worse: by distance, then by node.
Ordered(distances) == [node \in DOMAIN distances |-> distances[node] * Cardinality(DOMAIN distances) + node]
Worst(keys, S) == CHOOSE n \in S : \A o \in S : keys[o] <= keys[n]
Best(keys, S) == CHOOSE n \in S : \A o \in S : keys[n] <= keys[o]
Sorted(keys, S) == SetToSortSeq(S, LAMBDA a, b : keys[a] < keys[b])
AtMost(s, n) == IF Len(s) > n THEN SubSeq(s, 1, n) ELSE s

\* HnswIndex.__post_init__.
IsIndex(i) ==
  /\ Count(i) > 0 /\ Dimensions(i) > 0
  /\ \A node \in 0..(Count(i) - 1) : AllFinite(Vector(i, node))
  /\ DOMAIN i.levels = 0..(Count(i) - 1) /\ DOMAIN i.neighbors = DOMAIN i.levels
  /\ i.entry_point \in DOMAIN i.levels
  /\ i.max_level = Max({i.levels[n] : n \in DOMAIN i.levels}) /\ i.levels[i.entry_point] = i.max_level
  /\ i.m > 0
  /\ \A node \in DOMAIN i.levels :
       /\ i.levels[node] >= 0 /\ DOMAIN i.neighbors[node] = 0..i.levels[node]
       /\ \A layer \in DOMAIN i.neighbors[node] :
            LET links == i.neighbors[node][layer] IN
            /\ Len(links) <= i.m /\ IsInjective(links)
            /\ \A k \in DOMAIN links : links[k] # node /\ links[k] \in DOMAIN i.levels /\ i.levels[links[k]] >= layer

-----------------------------------------------------------------------------
(* The search on the host.                                                 *)

\* The greedy descent to the layer above `stop`; it raises after as many
\* steps in a layer as there are nodes.  (The kernel's loop is the same.)
RECURSIVE GreedyDescend(_, _, _, _, _, _)
GreedyDescend(links, keys, layer, stop, steps, s) ==
  IF layer <= stop THEN {s}
  ELSE IF steps = 0 THEN {}
  ELSE LET near == links[s.current][layer]
           best == Best(keys, ToSet(near) \cup {s.current})
           seen == [s EXCEPT !.distance_count = @ + Len(near)]
       IN IF best = s.current THEN GreedyDescend(links, keys, layer - 1, stop, Cardinality(DOMAIN keys), seen)
          ELSE GreedyDescend(links, keys, layer, stop, steps - 1, [seen EXCEPT !.current = best, !.upper_hops = @ + 1])
Descent(entry) == [current |-> entry, distance_count |-> 1, upper_hops |-> 0]

\* The loop body of the best-first search: one neighbour of a candidate.
HostVisit(keys, ef, s, neighbor) ==
  LET top == s.top \cup {neighbor}
      seen == [s EXCEPT !.visited = @ \cup {neighbor}, !.distance_count = @ + 1]
  IN IF neighbor \in s.visited THEN s
     ELSE IF Cardinality(s.top) >= ef /\ keys[neighbor] > keys[Worst(keys, s.top)] THEN seen
     ELSE [seen EXCEPT !.candidates = @ \cup {neighbor},
                       !.top = IF Cardinality(top) > ef THEN top \ {Worst(keys, top)} ELSE top,
                       !.candidate_peak = Max({@, Cardinality(s.candidates) + 1}),
                       !.top_peak = Max({@, Min({Cardinality(top), ef})})]

RECURSIVE BestFirst(_, _, _, _, _)
BestFirst(links, keys, ef, layer, s) ==
  IF s.candidates = {} THEN s
  ELSE LET candidate == Best(keys, s.candidates)
           popped == [s EXCEPT !.candidates = @ \ {candidate}]
       IN IF Cardinality(s.top) >= ef /\ keys[candidate] > keys[Worst(keys, s.top)]
          THEN [popped EXCEPT !.terminated_by_bound = 1]
          ELSE BestFirst(links, keys, ef, layer,
                 FoldLeft(LAMBDA t, n : HostVisit(keys, ef, t, n), [popped EXCEPT !.base_expansions = @ + 1],
                          links[candidate][layer]))
StartAt(d) ==
  [visited |-> {d.current}, candidates |-> {d.current}, top |-> {d.current}, distance_count |-> d.distance_count,
   upper_hops |-> d.upper_hops, base_expansions |-> 0, terminated_by_bound |-> 0, candidate_peak |-> 1, top_peak |-> 1]
Counters(s) ==
  <<Cardinality(s.visited), s.distance_count, s.upper_hops, s.base_expansions, s.terminated_by_bound,
    s.candidate_peak, s.top_peak>>

\* search_index.
HostResult(distances, ids, counters) ==
  [ids |-> ids, distances |-> [k \in DOMAIN ids |-> distances[ids[k]]], counters |-> counters]
SearchFrom(i, distances, keys, k, ef, d) ==
  LET s == BestFirst(i.neighbors, keys, ef, 0, StartAt(d))
  IN HostResult(distances, AtMost(Sorted(keys, s.top), k), Counters(s))
SearchIndex(i, query, k, ef) ==
  LET distances == Distances(i, query)
  IN {SearchFrom(i, distances, Ordered(distances), k, ef, d) :
        d \in GreedyDescend(i.neighbors, Ordered(distances), i.max_level, 0, Count(i), Descent(i.entry_point))}

-----------------------------------------------------------------------------
(* The construction: one node at a time, whose level is drawn at random.   *)

CanBuild(b) ==
  /\ Len(b.vectors) > 0 /\ Len(b.vectors[1]) > 0
  /\ \A v \in DOMAIN b.vectors : AllFinite(b.vectors[v])
  /\ b.m > 0 /\ b.ef_construction >= b.m /\ b.max_levels \in 2..16

\* _search_layer_build: the search above from one entry point.
SearchLayerBuild(neighbors, keys, ef, layer, entry) ==
  Sorted(keys, BestFirst(neighbors, keys, ef, layer, StartAt(Descent(entry))).top)

Prune(i, owner, links) == AtMost(Sorted(Ordered(Distances(i, Vector(i, owner))), ToSet(links) \ {owner}), i.m)

\* One layer of a new node: its links, and the links back to it.
LinkLayer(i, node, keys, s, layer) ==
  LET candidates == SearchLayerBuild(s.neighbors, keys, i.ef_construction, layer, s.current)
      selected == AtMost(candidates, i.m)
  IN [current |-> candidates[1],
      neighbors |-> [n \in DOMAIN s.neighbors |->
        IF n = node THEN [s.neighbors[n] EXCEPT ![layer] = selected]
        ELSE IF n \in ToSet(selected) THEN [s.neighbors[n] EXCEPT ![layer] = Prune(i, n, Append(@, node))]
        ELSE s.neighbors[n]]]

BareNode(level) == [layer \in 0..level |-> <<>>]
Linked(i, node, level, keys, current) ==
  FoldLeft(LAMBDA s, layer : LinkLayer(i, node, keys, s, layer),
           [current |-> current, neighbors |-> i.neighbors @@ (node :> BareNode(level))],
           Reverse([k \in 1..(Min({level, i.max_level}) + 1) |-> k - 1])).neighbors

BuildHnsw(b, level) ==
  /\ growing = None /\ hindex = None /\ CanBuild(b) /\ level < b.max_levels
  /\ growing' = b @@ [levels |-> (0 :> level), neighbors |-> (0 :> BareNode(level)),
                      entry_point |-> 0, max_level |-> level]
  /\ UNCHANGED <<hindex, archive, searcher, found>>

InsertNode(level) ==
  /\ growing # None /\ Cardinality(DOMAIN growing.levels) < Count(growing) /\ level < growing.max_levels
  /\ LET node == Cardinality(DOMAIN growing.levels)
         keys == Ordered(Distances(growing, Vector(growing, node)))
     IN \E d \in GreedyDescend(growing.neighbors, keys, growing.max_level, level, Count(growing), Descent(growing.entry_point)) :
          growing' = [growing EXCEPT !.levels = @ @@ (node :> level),
                                     !.neighbors = Linked(growing, node, level, keys, d.current),
                                     !.entry_point = IF level > growing.max_level THEN node ELSE @,
                                     !.max_level = Max({@, level})]
  /\ UNCHANGED <<hindex, archive, searcher, found>>

\* The end of build_hnsw: the frozen index, checked by its constructor.
Index(b) == [f \in {"vectors", "levels", "neighbors", "entry_point", "max_level", "m"} |-> b[f]]
FinishBuild ==
  /\ growing # None /\ Cardinality(DOMAIN growing.levels) = Count(growing)
  /\ growing' = None
  /\ hindex' = IF IsIndex(Index(growing)) THEN Index(growing) ELSE None
  /\ UNCHANGED <<archive, searcher, found>>

-----------------------------------------------------------------------------
(* The saved index.                                                        *)

Saved(i) ==
  LET links(n, l) == IF l \in DOMAIN i.neighbors[n] THEN i.neighbors[n][l] ELSE <<>>
      slots(s) == [k \in 1..i.m |-> IF k <= Len(s) THEN s[k] ELSE -1]
  IN [vectors |-> i.vectors, levels |-> i.levels, entry_point |-> i.entry_point, max_level |-> i.max_level, m |-> i.m,
      counts |-> [n \in DOMAIN i.levels |-> [l \in 0..i.max_level |-> Len(links(n, l))]],
      adjacency |-> [n \in DOMAIN i.levels |-> [l \in 0..i.max_level |-> slots(links(n, l))]]]

\* A level below 0 is refused by the constructor, one above max_level by the
\* subscript of counts.
WellFormed(f) ==
  LET nodes == 0..(Len(f.vectors) - 1) IN
  /\ {DOMAIN f.levels, DOMAIN f.counts, DOMAIN f.adjacency} = {nodes}
  /\ \A n \in nodes :
       /\ {DOMAIN f.counts[n], DOMAIN f.adjacency[n]} = {0..f.max_level}
       /\ \A l \in 0..f.max_level : DOMAIN f.adjacency[n][l] = 1..f.m
       /\ f.levels[n] \in 0..f.max_level
       /\ \A l \in 0..f.max_level :
            LET count == f.counts[n][l] IN
            /\ count \in 0..f.m /\ \A k \in (count + 1)..f.m : f.adjacency[n][l][k] = -1
            /\ l > f.levels[n] => count = 0
Loaded(f) ==
  [vectors |-> f.vectors, levels |-> f.levels, entry_point |-> f.entry_point, max_level |-> f.max_level, m |-> f.m,
   neighbors |-> [n \in DOMAIN f.levels |-> [l \in 0..f.levels[n] |-> SubSeq(f.adjacency[n][l], 1, f.counts[n][l])]]]
Load(f) == {i \in Require(WellFormed(f), Loaded(f)) : IsIndex(i)}

SaveIndex ==
  /\ hindex # None /\ archive = None /\ searcher = None
  /\ archive' = [of |-> hindex, file |-> Saved(hindex)]
  /\ UNCHANGED <<growing, hindex, searcher, found>>

LoadIndex ==
  /\ archive # None /\ searcher = None
  /\ hindex' \in OrElse(Load(archive.file), hindex)
  /\ UNCHANGED <<growing, archive, searcher, found>>

\* Something else rewrites one field of the file.
Damage ==
  /\ archive # None /\ archive.file = Saved(archive.of) /\ searcher = None
  /\ \E v \in {-1, 1, Count(archive.of)} :
       archive' \in {[archive EXCEPT !.file.counts[0][0] = v], [archive EXCEPT !.file.adjacency[0][0][1] = v],
                     [archive EXCEPT !.file.levels[1] = v], [archive EXCEPT !.file.entry_point = v],
                     [archive EXCEPT !.file.max_level = v]}
  /\ UNCHANGED <<growing, hindex, searcher, found>>

-----------------------------------------------------------------------------
(* The packed index and queries: chunks of words.  An invocation of the    *)
(* kernel gets the same number of chunks of each buffer; the header and    *)
(* the graph are in its first one.                                         *)

HasCapacity(i) ==
  /\ Count(i) <= MaxHnswNodes /\ Dimensions(i) <= MaxDimensions /\ i.m <= MaxM /\ i.max_level < MaxLevels
  /\ QueryHeader + Dimensions(i) * (Count(i) + 1) <= HnswChunk
  /\ GraphHeader + Count(i) * NodeGraphElements <= HnswChunk
IsCapacity(capacity) == capacity \in HnswReplicas..(HnswReplicas * MaxChunks) /\ capacity % HnswReplicas = 0
InvocationStarts(capacity) == {r * (capacity \div HnswReplicas) : r \in 0..(HnswReplicas - 1)}

NodeWord(i, node, w) ==
  LET layer == (w - 1) \div (1 + MaxM)
      slot == (w - 1) % (1 + MaxM)
      links == IF layer <= i.levels[node] THEN i.neighbors[node][layer] ELSE <<>>
  IN IF w = 0 THEN i.levels[node]
     ELSE IF slot = 0 THEN Len(links) ELSE IF slot <= Len(links) THEN links[slot] ELSE 0
GraphChunk(i) ==
  LET header == <<GraphMagic, HnswVersion, Count(i), Dimensions(i), i.entry_point, i.max_level, MaxLevels, i.m>>
      word(w) == NodeWord(i, w \div NodeGraphElements, w % NodeGraphElements)
  IN [w \in 0..(HnswChunk - 1) |->
        IF w < GraphHeader THEN header[w + 1]
        ELSE IF w < GraphHeader + Count(i) * NodeGraphElements THEN word(w - GraphHeader) ELSE 0]
PackGraph(i, capacity) ==
  [c \in 0..(capacity - 1) |->
     IF c \in InvocationStarts(capacity) THEN GraphChunk(i) ELSE [w \in 0..(HnswChunk - 1) |-> 0]]

QueryWords(i, k, ef) == <<QueryMagic, HnswVersion, Count(i), Dimensions(i), i.entry_point, i.max_level, ef, k>>
VectorWord(i, w) == Vector(i, w \div Dimensions(i))[(w % Dimensions(i)) + 1]
MakeQueryBuffer(i, capacity) ==
  LET begin == QueryHeader + Dimensions(i)
      payload(w) == IF w >= begin /\ w < begin + Count(i) * Dimensions(i) THEN VectorWord(i, w - begin) ELSE 0
  IN [c \in 0..(capacity - 1) |-> [w \in 0..(HnswChunk - 1) |->
        IF w < QueryHeader THEN IF c \in InvocationStarts(capacity) THEN QueryWords(i, 1, 1)[w + 1] ELSE 0
        ELSE payload(w)]]

\* _validate_search_parameters and _normalize_queries.
AcceptsSearch(i, capacity, r) ==
  /\ Len(r.queries) \in 1..capacity
  /\ \A q \in DOMAIN r.queries : Len(r.queries[q]) = Dimensions(i) /\ AllFinite(r.queries[q])
  /\ r.ef_search \in 1..Min({MaxEf, Count(i)}) /\ r.k \in 1..Min({MaxK, r.ef_search})

\* A plausible bug: the records that are not used keep an earlier query.
UpdateQueryBuffer_active(buffer, i, r) ==
  [c \in DOMAIN buffer |-> [w \in DOMAIN buffer[c] |->
     IF w < QueryHeader
     THEN IF c \in InvocationStarts(Cardinality(DOMAIN buffer)) THEN QueryWords(i, r.k, r.ef_search)[w + 1] ELSE buffer[c][w]
     ELSE IF w < QueryHeader + Dimensions(i) /\ c < Len(r.queries) THEN r.queries[c + 1][w - QueryHeader + 1] ELSE buffer[c][w]]]

\* _update_query_buffer: the headers and the query of every record; the
\* records that are not used repeat the first query.
UpdateQueryBuffer(buffer, i, r) ==
  LET starts == InvocationStarts(Cardinality(DOMAIN buffer))
      query(c) == r.queries[IF c < Len(r.queries) THEN c + 1 ELSE 1]
  IN [c \in DOMAIN buffer |-> [w \in DOMAIN buffer[c] |->
        IF w < QueryHeader THEN IF c \in starts THEN QueryWords(i, r.k, r.ef_search)[w + 1] ELSE buffer[c][w]
        ELSE IF w < QueryHeader + Dimensions(i) THEN query(c)[w - QueryHeader + 1] ELSE buffer[c][w]]]

-----------------------------------------------------------------------------
(* The kernel.  Its two heaps are sequences of nodes, the root first: the  *)
(* candidates by their keys, the top by the negated keys.                  *)

RECURSIVE SiftUp(_, _, _, _)
SiftUp(keys, heap, position, node) ==
  LET parent == (position - 1) \div 2 IN
  IF position = 0 \/ keys[node] >= keys[heap[parent + 1]] THEN [heap EXCEPT ![position + 1] = node]
  ELSE SiftUp(keys, [heap EXCEPT ![position + 1] = heap[parent + 1]], parent, node)
HeapPush(keys, heap, node) == SiftUp(keys, Append(heap, node), Len(heap), node)

RECURSIVE SiftDown(_, _, _, _)
SiftDown(keys, heap, position, node) ==
  LET left == 2 * position + 1
      child == IF left + 1 < Len(heap) /\ keys[heap[left + 2]] < keys[heap[left + 1]] THEN left + 1 ELSE left
  IN IF left >= Len(heap) \/ keys[heap[child + 1]] >= keys[node] THEN [heap EXCEPT ![position + 1] = node]
     ELSE SiftDown(keys, [heap EXCEPT ![position + 1] = heap[child + 1]], child, node)
HeapPop(keys, heap) == IF Len(heap) = 1 THEN <<>> ELSE SiftDown(keys, Front(heap), 0, Last(heap))
HeapReplace(keys, heap, node) == SiftDown(keys, heap, 0, node)

\* hnsw_graph_layer: where the links of a node in a layer are.
GraphLayer(node, layer) == GraphHeader + node * NodeGraphElements + 1 + layer * (1 + MaxM)
Level(graph, node) == graph[GraphHeader + node * NodeGraphElements]

ValidGraph(graph) ==
  /\ graph[0] = GraphMagic /\ graph[1] = HnswVersion
  /\ graph[2] \in 1..MaxHnswNodes /\ graph[3] \in 1..MaxDimensions /\ graph[4] < graph[2]
  /\ graph[5] < MaxLevels /\ graph[6] = MaxLevels /\ graph[7] \in 1..MaxM
  /\ GraphHeader + graph[2] * NodeGraphElements <= HnswChunk
  /\ Level(graph, graph[4]) = graph[5]
  /\ \A node \in 0..(graph[2] - 1) :
       /\ Level(graph, node) <= graph[5]
       /\ \A layer \in 0..(MaxLevels - 1) :
            LET list == GraphLayer(node, layer) IN
            /\ graph[list] <= MaxM /\ (layer > Level(graph, node) => graph[list] = 0)
            /\ \A slot \in 1..graph[list] :
                 graph[list + slot] < graph[2] /\ graph[list + slot] # node /\ Level(graph, graph[list + slot]) >= layer
ValidQuery(words, graph) ==
  /\ words[0] = QueryMagic /\ words[1] = HnswVersion /\ \A w \in 2..5 : words[w] = graph[w]
  /\ words[6] \in 1..Min({MaxEf, words[2]}) /\ words[7] \in 1..Min({MaxK, words[6]})
  /\ QueryHeader + words[3] * (words[2] + 1) <= HnswChunk

\* One neighbour of a candidate: {} when the heap of candidates is full.
KernelVisit(keys, ef, s, neighbor) ==
  LET seen == [s EXCEPT !.visited = @ \cup {neighbor}, !.distance_count = @ + 1]
      worse == [n \in DOMAIN keys |-> -keys[n]]
  IN IF neighbor \in s.visited THEN {s}
     ELSE IF Len(s.top) >= ef /\ keys[neighbor] > keys[s.top[1]] THEN {seen}
     ELSE Require(Len(s.candidates) < MaxHnswNodes,
            [seen EXCEPT !.candidates = HeapPush(keys, @, neighbor),
                         !.top = IF Len(@) < ef THEN HeapPush(worse, @, neighbor) ELSE HeapReplace(worse, @, neighbor),
                         !.candidate_peak = Max({@, Len(s.candidates) + 1}),
                         !.top_peak = Max({@, Min({Len(s.top) + 1, ef})})])

RECURSIVE KernelLoop(_, _, _, _)
KernelLoop(links, keys, ef, s) ==
  IF s.candidates = <<>> THEN {s}
  ELSE LET candidate == s.candidates[1]
           popped == [s EXCEPT !.candidates = HeapPop(keys, @)]
       IN IF Len(s.top) >= ef /\ keys[candidate] > keys[s.top[1]]
          THEN {[popped EXCEPT !.terminated_by_bound = 1]}
          ELSE UNION {KernelLoop(links, keys, ef, t) :
                 t \in FoldLeft(LAMBDA states, n : UNION {KernelVisit(keys, ef, t, n) : t \in states},
                                {[popped EXCEPT !.base_expansions = @ + 1]}, links[candidate][0])}

RECURSIVE Drain(_, _)
Drain(keys, heap) == IF heap = <<>> THEN <<>> ELSE Append(Drain(keys, HeapPop(keys, heap)), heap[1])

\* A record of the output: hnsw_write_failure writes zeros and the status.
WriteFailure(status) ==
  [status |-> status, header |-> [w \in 1..6 |-> 0], counters |-> [w \in 1..7 |-> 0], ids |-> <<>>, distances |-> <<>>]
Success(words, distances, keys, k, s) ==
  LET ids == AtMost(Drain([n \in DOMAIN keys |-> -keys[n]], s.top), k)
  IN [status |-> "ok", header |-> [w \in 1..6 |-> words[w + 1]], counters |-> Counters(s), ids |-> ids,
      distances |-> [n \in DOMAIN ids |-> distances[ids[n]]]]

\* hnsw_search_chunk.
KernelStart(d) == [StartAt(d) EXCEPT !.candidates = <<d.current>>, !.top = <<d.current>>]
KernelSearch(words, links, distances, keys) ==
  LET ends == UNION {KernelLoop(links, keys, words[6], KernelStart(d)) :
                       d \in GreedyDescend(links, keys, words[5], 0, words[2], Descent(words[4]))}
  IN CHOOSE o \in OrElse({IF Len(s.top) < words[7] THEN WriteFailure("bad_search")
                          ELSE Success(words, distances, keys, words[7], s) : s \in ends}, WriteFailure("internal_bound")) : TRUE
ChunkVector(chunk, dimensions, n) == [c \in 1..dimensions |-> chunk[QueryHeader + n * dimensions + c - 1]]
KernelDistances(words, chunk) ==
  [node \in 0..(words[2] - 1) |-> SquaredDistance(ChunkVector(chunk, words[3], 0), ChunkVector(chunk, words[3], node + 1))]
KernelLinks(graph) ==
  [node \in 0..(graph[2] - 1) |-> [layer \in 0..(MaxLevels - 1) |->
     [slot \in 1..graph[GraphLayer(node, layer)] |-> graph[GraphLayer(node, layer) + slot]]]]
SearchChunk(words, graph, distances) == KernelSearch(words, KernelLinks(graph), distances, Ordered(distances))

\* controlled_act, for the chunk of an invocation whose first chunk is start.
ControlledAct(queries, graphs, start, c) ==
  IF ~ValidGraph(graphs[start]) THEN WriteFailure("bad_graph")
  ELSE IF ~ValidQuery(queries[start], graphs[start]) THEN WriteFailure("bad_query")
  ELSE SearchChunk(queries[start], graphs[start], KernelDistances(queries[start], queries[c]))
KernelOutputs(queries, graphs) ==
  LET chunks == Cardinality(DOMAIN queries) \div HnswReplicas
  IN [c \in DOMAIN queries |-> ControlledAct(queries, graphs, (c \div chunks) * chunks, c)]

-----------------------------------------------------------------------------
(* The searcher.                                                           *)

\* _result_validation_arrays and the checks of _unpack_result_arrays.
CounterBounds(i, ef) ==
  <<1..Count(i), 1..(MaxHnswNodes * (MaxLevels * MaxM + 1)), 0..(Count(i) * i.max_level), 0..Count(i), 0..1,
    1..MaxHnswNodes, 1..ef>>
GoodOutput(o, i, r) ==
  /\ o.status = "ok" /\ o.header = SubSeq(QueryWords(i, r.k, r.ef_search), 3, 8) /\ Len(o.ids) = r.k
  /\ \A n \in 1..7 : o.counters[n] \in CounterBounds(i, r.ef_search)[n]
  /\ \A n \in 1..r.k : o.ids[n] \in 0..(Count(i) - 1) /\ o.distances[n] < TooFar
  /\ IsInjective(o.ids)
  /\ \A n \in 1..(r.k - 1) : \/ o.distances[n] < o.distances[n + 1]
                             \/ o.distances[n] = o.distances[n + 1] /\ o.ids[n] < o.ids[n + 1]
UnpackResults(outputs, i, r) ==
  LET row(n) == [f \in {"ids", "distances", "counters"} |-> outputs[n - 1][f]] IN
  Require(/\ \A c \in DOMAIN outputs : c >= Len(r.queries) => outputs[c] = outputs[0]
          /\ \A c \in 0..(Len(r.queries) - 1) : GoodOutput(outputs[c], i, r),
          [n \in DOMAIN r.queries |-> row(n)])

\* NpuHnsw.__init__; ProgramRun is about the program that it compiles.  A file
\* of the index plays no part any more.
Open(capacity) ==
  /\ hindex # None /\ searcher = None /\ HasCapacity(hindex) /\ IsCapacity(capacity)
  /\ searcher' = [index |-> hindex, graph |-> PackGraph(hindex, capacity), queries |-> MakeQueryBuffer(hindex, capacity)]
  /\ archive' = None
  /\ UNCHANGED <<growing, hindex, found>>

\* search_many.  With verify, a result other than the host's is an error.
Verified(i, r, results) ==
  \A n \in DOMAIN results : ~r.verify \/ results[n] \in SearchIndex(i, r.queries[n], r.k, r.ef_search)
Ended(r, outcome, results) == [request |-> r, outcome |-> outcome, results |-> results]
Searched(i, r, unpacked) ==
  OrElse({IF Verified(i, r, results) THEN Ended(r, "found", results) ELSE Ended(r, "mismatch", <<>>) : results \in unpacked},
         Ended(r, "raised", <<>>))
SearchMany(r) ==
  /\ searcher # None /\ AcceptsSearch(searcher.index, Cardinality(DOMAIN searcher.queries), r)
  /\ searcher' = [searcher EXCEPT !.queries = UpdateQueryBuffer(@, searcher.index, r)]
  /\ found' \in Searched(searcher.index, r, UnpackResults(KernelOutputs(searcher'.queries, searcher.graph), searcher.index, r))
  /\ UNCHANGED <<growing, hindex, archive>>

\* A request that is refused before the buffer is written.
SearchRefused(r) ==
  /\ searcher # None /\ ~AcceptsSearch(searcher.index, Cardinality(DOMAIN searcher.queries), r)
  /\ found' = Ended(None, "refused", <<>>)
  /\ UNCHANGED <<growing, hindex, archive, searcher>>

\* close(): every later use raises, like that of a closed program.
CloseSearcher ==
  /\ searcher # None
  /\ searcher' = None /\ found' = None
  /\ UNCHANGED <<growing, hindex, archive>>

HInit == growing = None /\ hindex = None /\ archive = None /\ searcher = None /\ found = None
HNext ==
  \/ \E b \in Builds, level \in 0..(MaxLevels - 1) : BuildHnsw(b, level)
  \/ \E level \in 0..(MaxLevels - 1) : InsertNode(level)
  \/ FinishBuild \/ SaveIndex \/ LoadIndex \/ Damage \/ CloseSearcher
  \/ \E capacity \in Capacities : Open(capacity)
  \/ \E r \in Searches : SearchMany(r) \/ SearchRefused(r)

-----------------------------------------------------------------------------
(* Properties.                                                             *)

\* What a search promises of a graph, said without searching: nodes that the
\* base layer reaches, results that are closed under being closer, and the
\* nearest nodes when everything is reachable and everything is kept.
Reachable(i, node) ==
  LET step(S) == S \cup UNION {ToSet(i.neighbors[n][0]) : n \in S}
      after[k \in 0..Count(i)] == IF k = 0 THEN {node} ELSE step(after[k - 1])
  IN after[Count(i)]
Sound(i, r, query, result) ==
  LET keys == Ordered(Distances(i, query))
      ids == ToSet(result.ids)
      others == DOMAIN i.levels \ ids
      beaten(n) == \A f \in ids : keys[f] < keys[n]
  IN /\ \A f \in ids : \A n \in ToSet(i.neighbors[f][0]) \ ids : beaten(n)
     /\ (r.ef_search = Count(i) /\ \A n \in DOMAIN i.levels : Reachable(i, n) = DOMAIN i.levels)
          => \A n \in others : beaten(n)

\* A search may fail for two reasons only: from some node the base layer does
\* not reach k nodes, or a distance overflows.
Excused(i, r) ==
  \/ \E n \in DOMAIN i.levels : Cardinality(Reachable(i, n)) < r.k
  \/ \E q \in DOMAIN r.queries : \E n \in DOMAIN i.levels : Distances(i, r.queries[q])[n] = TooFar

\* Every graph that build_hnsw has after an insertion passes the constructor's
\* checks; a file that nobody changed gives back the index that was saved; and
\* the searches of one searcher, whose query buffer keeps what earlier batches
\* wrote, never disagree with the host, fail only for the two reasons above,
\* and return sound results: what hnsw_search.c, packing.py and search_many
\* promise together.
Inserted(b) == [Index(b) EXCEPT !.vectors = SubSeq(@, 1, Cardinality(DOMAIN b.levels))]
SearchesExact ==
  /\ growing # None => IsIndex(Inserted(growing))
  /\ (archive # None /\ archive.file = Saved(archive.of)) => Load(archive.file) = {archive.of}
  /\ found # None =>
       /\ found.outcome # "mismatch"
       /\ found.outcome = "raised" => Excused(searcher.index, found.request)
       /\ \A n \in DOMAIN found.results :
            Sound(searcher.index, found.request, found.request.queries[n], found.results[n])
=============================================================================
