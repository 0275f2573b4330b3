------------------------------ MODULE Buffers ------------------------------
(***************************************************************************)
(* The buffers of src/common/buffer.c and their owners.                    *)
(*                                                                         *)
(* A block of memory has the name of the place where it was allocated and  *)
(* keeps it when it is moved to another variable.  mem says which variable *)
(* points to which block, heap which blocks are allocated.  Every malloc   *)
(* can fail, and the modules that use these operators say what then        *)
(* happens.                                                                *)
(***************************************************************************)
CONSTANT Null

VARIABLES mem, heap

Live    == {s \in DOMAIN mem : mem[s] # Null}
Ids(S)  == {mem[s].id : s \in S \cap Live}

Block(id, what, size) == [id |-> id, what |-> what, size |-> size]

NoNew == [s \in {} |-> Null]

(* The variables of the function put point to new blocks, those of drop    *)
(* are released.                                                           *)
Store(put, drop) ==
  /\ mem' = [s \in DOMAIN mem |-> IF s \in DOMAIN put THEN put[s]
                                  ELSE IF s \in drop THEN Null ELSE mem[s]]
  /\ heap' = (heap \ Ids(drop)) \cup {put[s].id : s \in DOMAIN put}

Allocate(slot, what, size) == Store([s \in {slot} |-> Block(s, what, size)], {})

(* The blocks of the variables in DOMAIN from move to them from where      *)
(* from says; the variables in put get new blocks, those of drop are       *)
(* released.                                                               *)
Move(from, put, drop) ==
  /\ mem' = [s \in DOMAIN mem |->
               IF s \in DOMAIN put THEN put[s]
               ELSE IF s \in DOMAIN from THEN mem[from[s]]
               ELSE IF \E t \in DOMAIN from : from[t] = s THEN Null
               ELSE IF s \in drop THEN Null ELSE mem[s]]
  /\ heap' = (heap \ Ids(drop)) \cup {put[s].id : s \in DOMAIN put}

(* The content of a buffer; that of an empty buffer is empty. *)
Content(slot) == IF mem[slot] = Null THEN [what |-> <<>>, size |-> 0]
                 ELSE [what |-> mem[slot].what, size |-> mem[slot].size]

(* Every allocated block is owned by exactly one variable, and no variable *)
(* points to a released block: through the moves of buffers between        *)
(* results, failed copies and the releases at the end of a call.           *)
MemoryExact ==
  /\ heap = Ids(DOMAIN mem)
  /\ \A s, t \in Live : mem[s].id = mem[t].id => s = t
============================================================================
