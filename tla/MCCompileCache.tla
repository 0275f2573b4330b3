--------------------------- MODULE MCCompileCache ---------------------------
(***************************************************************************)
(* Small instances of CompileCache.  Two dependency files with two         *)
(* versions: the outputs of the compiler overlap between versions.         *)
(***************************************************************************)
EXTENDS CompileCache, TLC

CONSTANTS x, y

MCCompile(s, d) == IF d[1] = d[2] THEN {x} ELSE IF d[1] = 1 THEN {x, y} ELSE {y}

MCCompile1(s, d) == IF d[1] = 1 THEN {x} ELSE {x, y}

Symmetry == Permutations(Processes)
=============================================================================
