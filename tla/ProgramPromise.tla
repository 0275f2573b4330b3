--------------------------- MODULE ProgramPromise ---------------------------
(***************************************************************************)
(* What a Program promises about native objects, whatever its threads do:  *)
(* there is at most one native session in its life, it is made while the   *)
(* program is open and released once, after close() or when the client has *)
(* let go of program and arrays; and a shared array has memory from its    *)
(* allocation until the client lets go of it, even if the program is       *)
(* closed before.                                                          *)
(***************************************************************************)
CONSTANTS Arrays
VARIABLES closed, session, memory, held, wanted

vars == <<closed, session, memory, held, wanted>>

Init ==
  /\ closed = FALSE /\ session = "absent" /\ held = {} /\ wanted = TRUE
  /\ memory = [a \in Arrays |-> "absent"]

Open ==
  /\ ~closed /\ session = "absent" /\ session' = "live"
  /\ UNCHANGED <<closed, memory, held, wanted>>

Close ==
  /\ ~closed /\ closed' = TRUE
  /\ UNCHANGED <<session, memory, held, wanted>>

\* The session goes when the program is closed, or with the last reference.
Release ==
  /\ session = "live" /\ session' = "released"
  /\ closed \/ (~wanted /\ \A a \in Arrays : memory[a] # "live")
  /\ UNCHANGED <<closed, memory, held, wanted>>

\* An array is allocated by a live session and belongs to the client at once.
Allocate(a) ==
  /\ session = "live" /\ memory[a] = "absent"
  /\ memory' = [memory EXCEPT ![a] = "live"]
  /\ held' = held \cup {a}
  /\ UNCHANGED <<closed, session, wanted>>

Drop(a) == held' = held \ {a} /\ UNCHANGED <<closed, session, memory, wanted>>

Free(a) ==
  /\ memory[a] = "live" /\ a \notin held
  /\ memory' = [memory EXCEPT ![a] = "released"]
  /\ UNCHANGED <<closed, session, held, wanted>>

Forget == wanted' = FALSE /\ UNCHANGED <<closed, session, memory, held>>

Next == Open \/ Close \/ Release \/ Forget \/ \E a \in Arrays : Allocate(a) \/ Drop(a) \/ Free(a)
Spec == Init /\ [][Next]_vars
=============================================================================
