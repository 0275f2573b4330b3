----------------------------- MODULE Assignment -----------------------------
(***************************************************************************)
(* The assignment backends of ByteTrack (contrib/bytetrack/bytetrack_npu/  *)
(* assignment.py) and the ACT kernel behind NpuAssignment (kernels/        *)
(* assignment.c, a Hungarian solver).  Costs are integers, so rounding is  *)
(* not modelled; a cost may be NaN, which stands for every value that is   *)
(* not finite.  `LargeCost` absorbs what is subtracted from it, as 3.0e30f     *)
(* does.  Augmented costs are doubled, to stay integers.                   *)
(***************************************************************************)
EXTENDS Maybe, Integers, Sequences, FiniteSets, SequencesExt, FiniteSetsExt

CONSTANTS MaxProblemRows,     \* MAX_ROWS, ASSIGN_MAX_ROWS
          MaxProblemColumns,  \* MAX_COLUMNS, ASSIGN_MAX_COLUMNS
          GraphReplicas,      \* GRAPH_REPLICAS
          LargeCost,          \* ASSIGN_LARGE_COST
          NotFinite,          \* a NaN or an infinity
          Problems,           \* [rows, columns, costs, forbidden, threshold]; costs has pairs as its domain
          Distrusted          \* problems that are also solved by a device that may answer anything

ASSUME AssignmentAssumption ==
  MaxProblemRows \in Nat /\ MaxProblemColumns \in Nat /\ GraphReplicas \in Nat \ {0} /\ LargeCost \in Nat

VARIABLES solver,     \* the NpuAssignment: None, "open" or "closed"
          assigned    \* the last assign(): None, or [problem, honest, result]

gvars == <<solver, assigned>>

GInit == solver = None /\ assigned = None

Upto(n) == [k \in 1..n |-> k - 1]
Sum(S, f(_)) == MapThenSumSet(f, S)

-----------------------------------------------------------------------------
\* _normalize_problem: the mask of pairs that may not be matched.
Normalize(p) ==
  Require(/\ p.rows <= MaxProblemRows /\ p.columns <= MaxProblemColumns
          /\ p.threshold # NotFinite /\ p.threshold >= 0
          /\ p.forbidden \subseteq DOMAIN p.costs,
          [p EXCEPT !.forbidden = @ \cup {x \in DOMAIN p.costs :
             IF p.costs[x] = NotFinite THEN TRUE ELSE p.costs[x] > p.threshold}])

\* The result of a mapping from rows to columns and one back; -1 is unmatched.
ResultOf(p, rowTo, columnTo) ==
  LET hit == SelectSeq(Upto(p.rows), LAMBDA i : rowTo[i] >= 0)
      matches == [k \in DOMAIN hit |-> <<hit[k], rowTo[hit[k]]>>]
      cost == Sum(Range(matches), LAMBDA x : p.costs[x])
  IN [matches |-> matches,
      unmatchedRows |-> SelectSeq(Upto(p.rows), LAMBDA i : rowTo[i] < 0),
      unmatchedColumns |-> SelectSeq(Upto(p.columns), LAMBDA j : columnTo[j] < 0),
      cost |-> cost,
      augmented |-> 2 * cost + (p.rows + p.columns - 2 * Len(matches)) * p.threshold]

\* _validate_solution
ValidSolution(p, r) ==
  LET pairs == Range(r.matches)
      rows == {x[1] : x \in pairs}
      columns == {x[2] : x \in pairs}
  IN /\ Cardinality(rows) = Len(r.matches) /\ Cardinality(columns) = Len(r.matches)
     /\ pairs \subseteq DOMAIN p.costs \ p.forbidden
     /\ \A x \in pairs : p.costs[x] <= p.threshold
     /\ r.unmatchedRows = SelectSeq(Upto(p.rows), LAMBDA i : i \notin rows)
     /\ r.unmatchedColumns = SelectSeq(Upto(p.columns), LAMBDA j : j \notin columns)

-----------------------------------------------------------------------------
(* The reference: the square augmented problem, whose solutions scipy's    *)
(* linear_sum_assignment and lap.lapjv compute (external).                 *)

\* Twice the augmented cost of a pair; a masked pair is infinite.
SquareCost(p, i, j) ==
  CASE i < p.rows /\ j < p.columns   -> 2 * p.costs[<<i, j>>]
    [] i >= p.rows /\ j >= p.columns -> 0
    [] OTHER                         -> p.threshold

SquareSolutions(p) ==
  LET order == p.rows + p.columns
      free == {f \in Permutations(0..(order - 1)) : \A i \in DOMAIN f : <<i, f[i]>> \notin p.forbidden}
      Total(f) == Sum(DOMAIN f, LAMBDA i : SquareCost(p, i, f[i]))
      best == Min({Total(f) : f \in free})
  IN {f \in free : Total(f) = best}

\* What the permutation says about the real rows and columns.
RealRows(p, f) == [i \in 0..(p.rows - 1) |-> IF f[i] < p.columns THEN f[i] ELSE -1]
RealColumns(p, f) ==
  [j \in 0..(p.columns - 1) |-> IF \E i \in 0..(p.rows - 1) : f[i] = j THEN CHOOSE i \in DOMAIN f : f[i] = j ELSE -1]
AllUnmatched(n) == [i \in 0..(n - 1) |-> -1]

\* scipy_assignment and CpuLapjvAssignment.assign; lapjv is not called when
\* there is no row or no column.
ScipyAssignment(p) ==
  UNION {{r \in {ResultOf(q, RealRows(q, f), RealColumns(q, f)) : f \in SquareSolutions(q)} : ValidSolution(q, r)} :
         q \in Normalize(p)}
CpuLapjv(p) ==
  UNION {IF q.rows = 0 \/ q.columns = 0 THEN {ResultOf(q, AllUnmatched(q.rows), AllUnmatched(q.columns))}
         ELSE {r \in {ResultOf(q, RealRows(q, f), RealColumns(q, f)) : f \in SquareSolutions(q)} : ValidSolution(q, r)} :
         q \in Normalize(p)}

-----------------------------------------------------------------------------
(* The payload and the kernel.                                             *)

InputMagic == 1
OutputMagic == 2
FormatVersion == 1

\* _pack_problem: a header, one mask of columns per row, and the costs in rows
\* of MaxProblemColumns words; the rest is 0.  All replicas get the same.
Pack(p) ==
  [magic |-> InputMagic, version |-> FormatVersion, rows |-> p.rows, columns |-> p.columns,
   threshold |-> p.threshold, reserved |-> 0, maxRows |-> MaxProblemRows, maxColumns |-> MaxProblemColumns,
   forbidden |-> [i \in 0..(MaxProblemRows - 1) |-> {j \in 0..(p.columns - 1) : <<i, j>> \in p.forbidden}],
   costs |-> [k \in 0..(MaxProblemRows * MaxProblemColumns - 1) |->
                LET x == <<k \div MaxProblemColumns, k % MaxProblemColumns>>
                IN IF x \in DOMAIN p.costs THEN p.costs[x] ELSE 0]]

CostWord(in, i, j) == in.costs[i * MaxProblemColumns + j]
\* Costs that are not finite are always masked.
Allowed(in, i, j) == j \notin in.forbidden[i] /\ CostWord(in, i, j) <= in.threshold

\* assign_augmented_cost, for row i and column j from 0
AugmentedCost_half(in, i, j) ==
  CASE j < in.columns /\ Allowed(in, i, j)  -> CostWord(in, i, j)
    [] j < in.columns /\ ~Allowed(in, i, j) -> LargeCost
    [] j >= in.columns                      -> in.threshold \div 2

AugmentedCost(in, i, j) ==
  CASE j < in.columns /\ Allowed(in, i, j)  -> CostWord(in, i, j)
    [] j < in.columns /\ ~Allowed(in, i, j) -> LargeCost
    [] j >= in.columns                      -> in.threshold

Minus(a, b) == IF a = LargeCost THEN LargeCost ELSE a - b

\* The inner loop of assign_hungarian: from column `at`, the search goes to the
\* free column with the smallest minimum, until that column has no row.  The
\* result is empty when only forbidden columns are left.
RECURSIVE ShortestPath(_, _)
ShortestPath(in, s) ==
  LET columns == 0..(in.rows + in.columns)
      used == s.used \cup {s.at}
      free == columns \ (used \cup {0})
      row == s.selected[s.at]
      reduced == [c \in free |-> Minus(AugmentedCost(in, row - 1, c - 1), s.u[row] + s.v[c])]
      better == {c \in free : \/ reduced[c] < s.minimum[c]
                              \/ reduced[c] = s.minimum[c] /\ s.at < s.predecessor[c]}
      minimum == [c \in columns |-> IF c \in better THEN reduced[c] ELSE s.minimum[c]]
      predecessor == [c \in columns |-> IF c \in better THEN s.at ELSE s.predecessor[c]]
      delta == Min({minimum[c] : c \in free} \cup {LargeCost})
      next == Min({c \in free : minimum[c] = delta})
      reached == [s EXCEPT !.used = used, !.at = next, !.predecessor = predecessor,
                    !.u = [i \in DOMAIN @ |-> IF \E c \in used : s.selected[c] = i THEN @[i] + delta ELSE @[i]],
                    !.v = [c \in columns |-> IF c \in used THEN @[c] - delta ELSE @[c]],
                    !.minimum = [c \in columns |-> IF c \in used THEN minimum[c] ELSE Minus(minimum[c], delta)]]
  IN IF delta >= LargeCost THEN {}
     ELSE IF s.selected[next] = 0 THEN {reached} ELSE ShortestPath(in, reached)

\* The columns of the path back to column 0 take over each other's rows.
RECURSIVE Shifted(_, _, _)
Shifted(selected, predecessor, c) ==
  IF c = 0 THEN selected
  ELSE Shifted([selected EXCEPT ![c] = selected[predecessor[c]]], predecessor, predecessor[c])

\* assign_hungarian, rows 1 to n: the row selected for each column, from 1
RECURSIVE Hungarian(_, _)
Hungarian(in, n) ==
  LET columns == 0..(in.rows + in.columns)
      zero == [c \in columns |-> 0]
  IN IF n = 0 THEN {[selected |-> zero, u |-> [i \in 0..in.rows |-> 0], v |-> zero]}
     ELSE UNION {{[selected |-> Shifted(e.selected, e.predecessor, e.at), u |-> e.u, v |-> e.v] :
                    e \in ShortestPath(in, [selected |-> [s.selected EXCEPT ![0] = n], u |-> s.u, v |-> s.v,
                                            minimum |-> [c \in columns |-> LargeCost], predecessor |-> zero,
                                            used |-> {}, at |-> 0])} :
                 s \in Hungarian(in, n - 1)}

\* assign_write_failure
FailureWords(status, rows, columns) ==
  [magic |-> OutputMagic, version |-> FormatVersion, status |-> status, rows |-> rows, columns |-> columns,
   counters |-> <<0, 0, 0>>, rowTo |-> [i \in 0..(MaxProblemRows - 1) |-> 0],
   columnTo |-> [j \in 0..(MaxProblemColumns - 1) |-> 0], cost |-> 0, augmented |-> 0]

\* The words that the kernel writes for a pair of mappings.
SolutionWords(in, rowTo, columnTo) ==
  LET matched == {i \in DOMAIN rowTo : rowTo[i] >= 0}
      n == Cardinality(matched)
      cost == Sum(matched, LAMBDA i : IF rowTo[i] < in.columns /\ Allowed(in, i, rowTo[i])
                                   THEN CostWord(in, i, rowTo[i]) ELSE 0)
  IN [magic |-> OutputMagic, version |-> FormatVersion, status |-> 0, rows |-> in.rows, columns |-> in.columns,
      counters |-> <<n, in.rows - n, in.columns - n>>,
      rowTo |-> [i \in 0..(MaxProblemRows - 1) |-> IF i < in.rows THEN rowTo[i] ELSE -1],
      columnTo |-> [j \in 0..(MaxProblemColumns - 1) |-> IF j < in.columns THEN columnTo[j] ELSE -1],
      cost |-> cost, augmented |-> 2 * cost + (in.rows + in.columns - 2 * n) * in.threshold]

\* assign_solve_chunk
SolveChunk(in) ==
  CASE \/ <<in.magic, in.version, in.reserved>> # <<InputMagic, FormatVersion, 0>>
       \/ <<in.maxRows, in.maxColumns>> # <<MaxProblemRows, MaxProblemColumns>> -> FailureWords(1, 0, 0)
    [] in.rows > MaxProblemRows \/ in.columns > MaxProblemColumns -> FailureWords(2, in.rows, in.columns)
    [] in.threshold = NotFinite \/ in.threshold < 0 -> FailureWords(3, in.rows, in.columns)
    [] Hungarian(in, in.rows) = {} -> FailureWords(4, in.rows, in.columns)
    [] OTHER ->
         LET selected == (CHOOSE s \in Hungarian(in, in.rows) : TRUE).selected
             pairs == {<<selected[j + 1] - 1, j>> : j \in {j \in 0..(in.columns - 1) : selected[j + 1] # 0}}
             kept == {x \in pairs : Allowed(in, x[1], x[2])}
         IN SolutionWords(in,
              [i \in 0..(in.rows - 1) |-> IF \E x \in kept : x[1] = i THEN (CHOOSE x \in kept : x[1] = i)[2] ELSE -1],
              [j \in 0..(in.columns - 1) |-> IF \E x \in kept : x[2] = j THEN (CHOOSE x \in kept : x[2] = j)[1] ELSE -1])

\* _decode_npu_output; empty when it raises.  The costs are compared too.
Decode(p, chunks) ==
  LET w == chunks[1]
      rowTo == [i \in 0..(p.rows - 1) |-> w.rowTo[i]]
      columnTo == [j \in 0..(p.columns - 1) |-> w.columnTo[j]]
      Agree ==
        /\ \A i \in DOMAIN rowTo : rowTo[i] # -1 =>
             /\ rowTo[i] \in DOMAIN columnTo /\ columnTo[rowTo[i]] = i
             /\ <<i, rowTo[i]>> \notin p.forbidden /\ p.costs[<<i, rowTo[i]>>] <= p.threshold
        /\ \A j \in DOMAIN columnTo : columnTo[j] # -1 =>
             columnTo[j] \in DOMAIN rowTo /\ rowTo[columnTo[j]] = j
  IN IF ~(/\ \A k \in DOMAIN chunks : chunks[k] = w
          /\ w.magic = OutputMagic /\ w.version = FormatVersion /\ w.status = 0
          /\ w.rows = p.rows /\ w.columns = p.columns /\ Agree) THEN {}
     ELSE LET r == ResultOf(p, rowTo, columnTo)
          IN Require(/\ w.counters = <<Len(r.matches), Len(r.unmatchedRows), Len(r.unmatchedColumns)>>
                     /\ w.cost = r.cost /\ w.augmented = r.augmented, r)

-----------------------------------------------------------------------------
(* NpuAssignment *)

Swap(x) == <<x[2], x[1]>>
Transposed(p) ==
  [p EXCEPT !.rows = p.columns, !.columns = p.rows, !.forbidden = {Swap(x) : x \in @},
     !.costs = [x \in {Swap(y) : y \in DOMAIN p.costs} |-> p.costs[Swap(x)]]]

\* The matches of the transposed problem, in the order of the rows.
SwappedResult(r) ==
  LET swapped == {Swap(x) : x \in Range(r.matches)}
  IN [r EXCEPT !.matches = SetToSortSeq(swapped, LAMBDA x, y : x[1] < y[1]),
               !.unmatchedRows = r.unmatchedColumns, !.unmatchedColumns = r.unmatchedRows]

\* What the replicas answer: the kernel's output, or, from a device that is
\* not trusted, different replicas or any pair of mappings.
DeviceAnswers(p, honest) ==
  LET in == Pack(p)
      out == SolveChunk(in)
      Replicated(w) == [k \in 1..GraphReplicas |-> w]
      Maps(n, m) == [0..(n - 1) -> -2..m]
  IN IF honest THEN {Replicated(out)}
     ELSE {[Replicated(out) EXCEPT ![GraphReplicas].status = 1], Replicated(FailureWords(4, p.rows, p.columns))}
          \cup {Replicated(SolutionWords(in, f, g)) : f \in Maps(p.rows, p.columns), g \in Maps(p.columns, p.rows)}

\* Nothing is sent to the device when no pair can be matched.
FastPath(q) == q.rows = 0 \/ q.columns = 0 \/ q.forbidden = DOMAIN q.costs

\* The smaller side becomes the rows.
DeviceProblem(q) == IF q.rows > q.columns THEN Transposed(q) ELSE q
Returned(q, r) == IF q.rows > q.columns THEN SwappedResult(r) ELSE r

\* __init__: the carrier must have one group of f32 chunks, one per replica.
OpenAssignment(carrier) ==
  /\ solver = None
  /\ solver' = IF carrier = [dtype |-> "f32", chunks |-> 1, targets |-> GraphReplicas] THEN "open" ELSE None
  /\ UNCHANGED assigned

\* assign().  A closed program raises, but only when it is run.
Assign(p, honest) ==
  LET Answered(results) == assigned' = [problem |-> p, sound |-> honest /\ solver = "open", results |-> results]
  IN /\ solver # None /\ assigned = None
     /\ \/ Normalize(p) = {} /\ Answered({})
        \/ \E q \in Normalize(p) :
             \/ FastPath(q) /\ Answered({ResultOf(q, AllUnmatched(q.rows), AllUnmatched(q.columns))})
             \/ ~FastPath(q) /\ solver = "closed" /\ Answered({})
             \/ /\ ~FastPath(q) /\ solver = "open"
                /\ \E chunks \in DeviceAnswers(DeviceProblem(q), honest) :
                     Answered({Returned(q, r) : r \in Decode(DeviceProblem(q), chunks)})
     /\ UNCHANGED solver

TakeResult ==
  /\ assigned # None /\ assigned' = None
  /\ UNCHANGED solver

CloseAssignment ==
  /\ solver = "open" /\ solver' = "closed"
  /\ UNCHANGED assigned

GNext ==
  \/ \E t \in {"f16", "f32"}, n \in 1..2, k \in 1..GraphReplicas :
       OpenAssignment([dtype |-> t, chunks |-> n, targets |-> k])
  \/ \E p \in Problems : Assign(p, TRUE)
  \/ \E p \in Distrusted : Assign(p, FALSE)
  \/ TakeResult \/ CloseAssignment

-----------------------------------------------------------------------------
\* Every set of pairs that may be matched together, and its cost.
Feasible(q) ==
  {S \in SUBSET (DOMAIN q.costs \ q.forbidden) :
     \A x, y \in S : x # y => x[1] # y[1] /\ x[2] # y[2]}
Objective(q, S) == 2 * Sum(S, LAMBDA x : q.costs[x]) + (q.rows + q.columns - 2 * Cardinality(S)) * q.threshold

\* Whatever the device answers, the backend returns permitted pairs and names
\* every other row and column as unmatched; from a device that runs the kernel
\* it returns, for every problem within its capacity, an assignment as cheap
\* as any and as cheap as both CPU backends return (assignment.py:415,
\* kernels/assignment.c:52).
AssignmentOptimal ==
  assigned # None =>
    LET p == assigned.problem
    IN /\ \A q \in Normalize(p), r \in assigned.results :
            /\ Range(r.matches) \in Feasible(q) /\ ValidSolution(q, r)
            /\ r.augmented = Objective(q, Range(r.matches))
       /\ assigned.sound => \A q \in Normalize(p) :
            LET costs == {r.augmented : r \in assigned.results}
            IN /\ costs = {Min({Objective(q, S) : S \in Feasible(q)})}
               /\ costs = {r.augmented : r \in ScipyAssignment(p)}
               /\ costs = {r.augmented : r \in CpuLapjv(p)}
=============================================================================
