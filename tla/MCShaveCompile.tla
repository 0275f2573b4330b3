--------------------------- MODULE MCShaveCompile ---------------------------
(***************************************************************************)
(* Small instances of ShaveCompile.                                        *)
(***************************************************************************)
EXTENDS ShaveCompile
=============================================================================
