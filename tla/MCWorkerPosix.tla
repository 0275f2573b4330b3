--------------------------- MODULE MCWorkerPosix ---------------------------
(***************************************************************************)
(* Small instances of WorkerPosix: the pipes and the socket fill up.  A    *)
(* cooperative worker fills every stream to its maximum, any other may     *)
(* write one unit more to its response than the caller accepts.            *)
(***************************************************************************)
EXTENDS WorkerPosix

MCMaximum == [s \in Streams |-> IF s = "response" THEN 3 ELSE 1]

MCWriteLimit == [response |-> 4, stdout |-> 0, stderr |-> 0]
=============================================================================
