------------------------------- MODULE Maybe -------------------------------
(***************************************************************************)
(* Three conventions of the modules about Python code.  None stands for    *)
(* Python's None.  A computation that may raise an exception is a set of   *)
(* results: one value, or nothing when it raises.  A comprehension over a  *)
(* list is the list's values at the chosen indices, in their order.        *)
(***************************************************************************)
EXTENDS Integers, Sequences, FiniteSets

CONSTANT None

\* The code raises unless the condition holds.
Require(condition, value) == IF condition THEN {value} ELSE {}

\* The result of a computation, or another value when it raises.
OrElse(results, value) == IF results # {} THEN results ELSE {value}

\* The results of several computations together: one that raises, raises.
AllOf(results) ==
  IF \A k \in DOMAIN results : results[k] # {}
  THEN {[k \in DOMAIN results |-> CHOOSE r \in results[k] : TRUE]} ELSE {}

\* The members of a set of numbers in order: the k-th has k - 1 below it.
Ascending(S) == [k \in 1..Cardinality(S) |-> CHOOSE n \in S : Cardinality({m \in S : m < n}) = k - 1]

\* [x for i, x in enumerate(list) if i in indices]
Picked(list, indices) ==
  LET order == Ascending(indices) IN [k \in DOMAIN order |-> list[order[k]]]
=============================================================================
