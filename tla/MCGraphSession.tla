--------------------------- MODULE MCGraphSession ---------------------------
(***************************************************************************)
(* Small instances of GraphSession: one input, one output, the output is   *)
(* the input.                                                              *)
(***************************************************************************)
EXTENDS GraphSession, TLC

MCCompute(x) == x[1]

Symmetry == Permutations(Threads) \cup Permutations(Buffers) \cup Permutations(Addresses)
=============================================================================
