--------------------------- MODULE BuffersProofs ---------------------------
(***************************************************************************)
(* Buffers keep exactly one owner when they are allocated, released and    *)
(* moved with the operators of Buffers.                                    *)
(***************************************************************************)
EXTENDS Buffers, TLAPS

(* New blocks for variables that are empty or released in the same step,   *)
(* under names that no block kept has.                                     *)
New(put, drop) ==
  /\ DOMAIN put \subseteq DOMAIN mem
  /\ \A s \in DOMAIN put : put[s] # Null /\ (s \in drop \/ mem[s] = Null)
  /\ \A s \in DOMAIN put : \A t \in Live \ drop : put[s].id # mem[t].id
  /\ \A s, t \in DOMAIN put : put[s].id = put[t].id => s = t

(* Where every variable points to after a step of Store, and that exactly  *)
(* one variable owns each block again: npunlock_buffer_copy, _release and  *)
(* _adopt_malloc leak nothing and free nothing twice.                      *)
LEMMA StoreExact ==
  ASSUME NEW put, NEW drop, MemoryExact, New(put, drop), Store(put, drop)
  PROVE  /\ DOMAIN mem' = DOMAIN mem
         /\ \A s \in DOMAIN put : mem'[s] = put[s]
         /\ \A s \in DOMAIN mem \ (DOMAIN put \cup drop) : mem'[s] = mem[s]
         /\ \A s \in drop \ DOMAIN put : s \in DOMAIN mem => mem'[s] = Null
         /\ Live' = (Live \ drop) \cup DOMAIN put
         /\ MemoryExact'
<1>1. /\ DOMAIN mem' = DOMAIN mem
      /\ \A s \in DOMAIN put : mem'[s] = put[s]
      /\ \A s \in DOMAIN mem \ (DOMAIN put \cup drop) : mem'[s] = mem[s]
      /\ \A s \in drop \ DOMAIN put : s \in DOMAIN mem => mem'[s] = Null
  BY DEF Store, New
<1>2. Live' = (Live \ drop) \cup DOMAIN put
  BY <1>1 DEF Live, New
<1>3. \A s \in Live \ drop : s \notin DOMAIN put /\ s \in DOMAIN mem /\ mem'[s] = mem[s]
  BY <1>1 DEF New, Live
<1>4. \A s, t \in Live' : mem'[s].id = mem'[t].id => s = t
  <2> SUFFICES ASSUME NEW s \in Live', NEW t \in Live', mem'[s].id = mem'[t].id PROVE s = t
    OBVIOUS
  <2>1. CASE s \in DOMAIN put /\ t \in DOMAIN put
    BY <1>1, <2>1 DEF New
  <2>2. CASE s \in DOMAIN put /\ t \in Live \ drop
    BY <1>1, <1>3, <2>2 DEF New
  <2>3. CASE s \in Live \ drop /\ t \in DOMAIN put
    BY <1>1, <1>3, <2>3 DEF New
  <2>4. CASE s \in Live \ drop /\ t \in Live \ drop
    BY <1>3, <2>4 DEF MemoryExact
  <2> QED BY <1>2, <2>1, <2>2, <2>3, <2>4
<1>5. heap' = {mem[s].id : s \in Live \ drop} \cup {put[s].id : s \in DOMAIN put}
  <2>1. heap = {mem[s].id : s \in Live} /\ Ids(drop) = {mem[s].id : s \in drop \cap Live}
    BY DEF MemoryExact, Ids, Live
  <2>2. {mem[s].id : s \in Live} \ {mem[s].id : s \in drop \cap Live}
          = {mem[s].id : s \in Live \ drop}
    BY DEF MemoryExact
  <2> QED BY <2>1, <2>2 DEF Store
<1>6. {mem'[s].id : s \in Live'} = {mem[s].id : s \in Live \ drop} \cup {put[s].id : s \in DOMAIN put}
  BY <1>1, <1>2, <1>3
<1>7. Ids(DOMAIN mem)' = {mem'[s].id : s \in Live'}
  BY DEF Ids, Live
<1> QED BY <1>1, <1>2, <1>4, <1>5, <1>6, <1>7 DEF MemoryExact

(* The same for one new block. *)
LEMMA AllocateExact ==
  ASSUME NEW slot \in DOMAIN mem, NEW what, NEW size, MemoryExact, mem[slot] = Null,
         Block(slot, what, size) # Null, \A t \in Live : mem[t].id # slot,
         Allocate(slot, what, size)
  PROVE  /\ DOMAIN mem' = DOMAIN mem
         /\ mem'[slot] = Block(slot, what, size)
         /\ \A s \in DOMAIN mem \ {slot} : mem'[s] = mem[s]
         /\ Live' = Live \cup {slot}
         /\ MemoryExact'
<1> DEFINE put == [s \in {slot} |-> Block(s, what, size)]
<1>1. DOMAIN put = {slot} /\ put[slot] = Block(slot, what, size) /\ put[slot].id = slot
  BY DEF Block
<1>2. Store(put, {})
  BY DEF Allocate
<1> HIDE DEF put
<1>3. New(put, {})
  BY <1>1 DEF New
<1> QED BY <1>1, <1>2, <1>3, StoreExact

(* Blocks that move from one variable to another, empty one. *)
Moved(from, put, drop) ==
  /\ DOMAIN from \subseteq DOMAIN mem
  /\ \A s \in DOMAIN from : /\ from[s] \in DOMAIN mem
                            /\ s \notin DOMAIN put \cup drop /\ mem[s] = Null
                            /\ from[s] \notin DOMAIN put \cup drop \cup DOMAIN from
  /\ \A s, t \in DOMAIN from : from[s] = from[t] => s = t

Sources(from) == {from[s] : s \in DOMAIN from}

(* The same for Move, the assignment of a buffer after which its old       *)
(* variable is cleared.                                                    *)
LEMMA MoveExact ==
  ASSUME NEW from, NEW put, NEW drop, MemoryExact, New(put, drop), Moved(from, put, drop),
         Move(from, put, drop)
  PROVE  /\ DOMAIN mem' = DOMAIN mem
         /\ \A s \in DOMAIN put : mem'[s] = put[s]
         /\ \A s \in DOMAIN from : mem'[s] = mem[from[s]]
         /\ \A s \in DOMAIN mem \ (DOMAIN put \cup drop \cup DOMAIN from \cup Sources(from)) :
              mem'[s] = mem[s]
         /\ Live' = (Live \ (drop \cup Sources(from))) \cup DOMAIN put
                       \cup {s \in DOMAIN from : mem[from[s]] # Null}
         /\ MemoryExact'
<1>1. /\ DOMAIN mem' = DOMAIN mem
      /\ \A s \in DOMAIN put : mem'[s] = put[s]
      /\ \A s \in DOMAIN from : mem'[s] = mem[from[s]]
      /\ \A s \in DOMAIN mem \ (DOMAIN put \cup drop \cup DOMAIN from \cup Sources(from)) :
           mem'[s] = mem[s]
      /\ \A s \in (drop \cup Sources(from)) \ (DOMAIN put \cup DOMAIN from) :
           s \in DOMAIN mem => mem'[s] = Null
  BY DEF Move, Moved, New, Sources
<1> DEFINE Kept   == Live \ (drop \cup Sources(from))
           Target == {s \in DOMAIN from : mem[from[s]] # Null}
<1>2. Live' = Kept \cup DOMAIN put \cup Target
  BY <1>1 DEF Live, New, Moved, Sources
<1>3. \A s \in Kept : s \in Live /\ s \notin drop /\ mem'[s] = mem[s]
  BY <1>1 DEF New, Live, Moved
<1>4. \A s \in Target : /\ mem'[s] = mem[from[s]] /\ from[s] \in Live /\ from[s] \notin drop
                        /\ from[s] \notin Kept
  BY <1>1 DEF Moved, Live, Sources
<1>5. \A s, t \in Target : from[s] = from[t] => s = t
  BY DEF Moved
<1>6. \A s \in DOMAIN put : /\ mem'[s] = put[s]
                            /\ \A t \in Live \ drop : put[s].id # mem[t].id
                            /\ \A t \in DOMAIN put : put[s].id = put[t].id => s = t
  BY <1>1 DEF New
<1>7. \A s, t \in Live : mem[s].id = mem[t].id => s = t
  BY DEF MemoryExact
<1> HIDE DEF Kept, Target
<1>8. \A s, t \in Live' : mem'[s].id = mem'[t].id => s = t
  <2> SUFFICES ASSUME NEW s \in Live', NEW t \in Live', mem'[s].id = mem'[t].id PROVE s = t
    OBVIOUS
  <2>1. CASE s \in DOMAIN put \/ t \in DOMAIN put
    BY <1>2, <1>3, <1>4, <1>6, <2>1
  <2>2. CASE s \in Kept \cup Target /\ t \in Kept \cup Target
    BY <1>3, <1>4, <1>5, <1>7, <2>2
  <2> QED BY <1>2, <2>1, <2>2
<1>9. heap' = {mem[s].id : s \in Live \ drop} \cup {put[s].id : s \in DOMAIN put}
  <2>1. heap = {mem[s].id : s \in Live} /\ Ids(drop) = {mem[s].id : s \in drop \cap Live}
    BY DEF MemoryExact, Ids, Live
  <2>2. {mem[s].id : s \in Live} \ {mem[s].id : s \in drop \cap Live}
          = {mem[s].id : s \in Live \ drop}
    BY DEF MemoryExact
  <2> QED BY <2>1, <2>2 DEF Move
<1>10. \A s \in Live \ drop : s \in Kept \/ \E t \in Target : from[t] = s
  BY DEF Kept, Target, Sources, Live
<1>11. {mem'[s].id : s \in Kept \cup Target} = {mem[s].id : s \in Live \ drop}
  BY <1>3, <1>4, <1>10
<1>12. Ids(DOMAIN mem)' = {mem'[s].id : s \in Live'}
  BY DEF Ids, Live
<1>13. {mem'[s].id : s \in Live'}
         = {mem'[s].id : s \in Kept \cup Target} \cup {put[s].id : s \in DOMAIN put}
  BY <1>2, <1>6
<1>14. MemoryExact'
  BY <1>8, <1>9, <1>11, <1>12, <1>13 DEF MemoryExact
<1> QED BY <1>1, <1>2, <1>14 DEF Kept, Target
============================================================================
