-------------------------- MODULE WorkerPosixProofs --------------------------
(***************************************************************************)
(* Proofs about WorkerPosix, for every size of the request, the socket,    *)
(* the pipes, the chunks and the first allocation, every maximum and every *)
(* amount the worker writes.                                               *)
(*                                                                         *)
(* Three accounts are kept along a run.  What the supervisor believes of   *)
(* the worker is what the kernel did with it (ReapInv), the status goes    *)
(* with the place where the supervisor is and with who has been killed     *)
(* (StatusInv, KillInv), and what was collected of a stream together with  *)
(* what is still in its pipe is all that was written to it, in order, as   *)
(* long as no chunk was refused (DataInv).  A stream is closed only when   *)
(* its pipe is empty and nobody can write to it again (ClosedInv): that is *)
(* what makes a run that ends by itself complete.                          *)
(***************************************************************************)
EXTENDS WorkerPosix, TLAPS, SequenceTheorems, WellFoundedInduction

Refusals == {"OVERFLOW", "OUT_OF_MEMORY"}

LoopPlaces == {"loop", "send", "drain", "wait"}
EndPlaces  == {"final", "finish", "done", "returned"}

\* The worker is reaped once, and the supervisor knows.
ReapInv ==
  /\ process_exited <=> worker = "reaped"
  /\ worker = "reaped" => wait_status = exit_code
  /\ pc = "setup" => worker = "none"
  /\ pc \in LoopPlaces \cup {"kill", "reap"} => worker # "none"
  /\ pc \in {"final", "finish"} => worker = "reaped"
  /\ pc \in {"done", "returned"} => worker \in {"none", "reaped"}
  /\ worker = "none" => descendant = "none" /\ status \notin {"OK", "DRIVER_FAILED"}
  /\ pc = "returned" => fds = {}

\* OK is the status of the loop, and after it of a run whose three streams came to an end.
StatusInv ==
  /\ pc = "setup" => status = "INTERNAL_ERROR"
  /\ pc \in LoopPlaces => status = "OK"
  /\ pc \in {"kill", "reap"} => status # "OK"
  /\ pc \in EndPlaces /\ status = "OK" => \A s \in Streams : stream[s].closed
  /\ pc \in {"done", "returned"} /\ status = "OK" => wait_status = 0
  /\ status = "DRIVER_FAILED" => pc \in {"done", "returned"} /\ wait_status # 0

\* On a failure the whole group has been killed, and a killed worker forks no more.
KillInv ==
  pc = "reap" \/ (pc \in EndPlaces /\ status \notin {"OK", "DRIVER_FAILED"}) =>
    /\ worker = "running" => "worker" \in killed
    /\ descendant \in {"attached", "detached"} => "descendant" \in killed

\* Every unit of the request that was sent is in the socket or was read.
RequestInv == consumed + socket = request_offset

\* A closed stream has an empty pipe, and nobody is left to write to it.
ClosedInv ==
  \A s \in Streams : stream[s].closed => pipe[s] = <<>> /\ ~Attached /\ worker # "none"

\* What was collected is what was written first.
Prefix(s) == \A i \in DOMAIN stream[s].data : stream[s].data[i] = i

\* What was collected and what is in the pipe are together all that was written.
Intact(s) ==
  /\ Prefix(s)
  /\ Len(stream[s].data) + Len(pipe[s]) = written[s]
  /\ \A i \in DOMAIN pipe[s] : pipe[s][i] = Len(stream[s].data) + i

\* No final drain has been through with the stream.
Untouched(s) == \/ pc \notin EndPlaces
                \/ status = "OK"
                \/ pc = "final" /\ \E k \in at .. 3 : s = StreamOrder[k]

DataInv ==
  status \notin Refusals => \A s \in Streams : Prefix(s) /\ (Untouched(s) => Intact(s))

SupervisorInv ==
  ReapInv /\ StatusInv /\ KillInv /\ RequestInv /\ ClosedInv /\ DataInv /\ CopyFitsAllocation

-----------------------------------------------------------------------------
(***************************************************************************)
(* The growth of an allocation.  The loop of reserve_stream is a recursive *)
(* function; that it is defined, and what it returns, are shown by a       *)
(* smallest counterexample in the number of units still missing.           *)
(***************************************************************************)

\* A set of natural numbers that is not empty has a smallest one.
LEMMA SmallestOf ==
  ASSUME NEW T \in SUBSET Nat, T # {}
  PROVE  \E x \in T : \A y \in T : x <= y
<1> DEFINE Less == {ss \in Nat \X Nat : ss[1] < ss[2]}
<1>1. IsWellFoundedOn(Less, Nat)
  BY NatLessThanWellFounded DEF OpToRel
<1>2. \A a, b \in Nat : a < b => <<a, b>> \in Less
  OBVIOUS
<1> HIDE DEF Less
<1>3. PICK x \in T : \A y \in T : ~(<<y, x>> \in Less)
  BY <1>1, WFMin
<1>4. ASSUME NEW y \in T PROVE x <= y
  <2>1. x \in Nat /\ y \in Nat
    OBVIOUS
  <2>2. ~(y < x)
    BY <1>2, <1>3, <2>1, Zenon
  <2> QED
    BY <2>1, <2>2
<1> QED
  BY <1>4

\* The loop ends whatever it begins with: the recursion has a solution.
LEMMA DoubledDefined ==
  ASSUME NEW required \in Nat, NEW maximum \in Nat
  PROVE  Doubled(required, maximum) = [next \in Nat \ {0} |->
           IF next >= required THEN next
           ELSE IF next > maximum \div 2 THEN maximum
           ELSE Doubled(required, maximum)[next * 2]]
<1> DEFINE From(m) == {n \in Nat \ {0} : n + m >= required}
           Round(g, n) == IF n >= required THEN n
                          ELSE IF n > maximum \div 2 THEN maximum ELSE g[n * 2]
           Solved(m) == \E g : g = [n \in From(m) |-> Round(g, n)]
           Unsolved == {m \in Nat : ~Solved(m)}
<1>1. Solved(0)
  <2>1. [n \in From(0) |-> n] = [n \in From(0) |-> Round([k \in From(0) |-> k], n)]
    OBVIOUS
  <2> QED
    BY <2>1
<1>2. ASSUME NEW m \in Nat, Solved(m) PROVE Solved(m + 1)
  <2>1. PICK g : g = [n \in From(m) |-> Round(g, n)]
    BY <1>2
  <2> DEFINE h == [n \in From(m + 1) |-> Round(g, n)]
  <2>2. \A n \in From(m + 1) : n < required => n * 2 \in From(m)
    OBVIOUS
  <2>3. \A n \in From(m) : n \in From(m + 1) /\ h[n] = g[n]
    BY <2>1
  <2>4. \A n \in From(m + 1) : Round(g, n) = Round(h, n)
    BY <2>2, <2>3
  <2>5. h = [n \in From(m + 1) |-> Round(h, n)]
    BY <2>4
  <2> QED
    BY <2>5
<1>3. Solved(required)
  <2> SUFFICES ASSUME ~Solved(required) PROVE FALSE
    OBVIOUS
  <2>1. Unsolved \in SUBSET Nat /\ Unsolved # {}
    OBVIOUS
  <2>2. PICK m \in Unsolved : \A k \in Unsolved : m <= k
    <3> HIDE DEF Unsolved
    <3> QED
      BY <2>1, SmallestOf
  <2> HIDE DEF Solved
  <2>3. m \in Nat /\ ~Solved(m) /\ m # 0
    BY <1>1
  <2>4. m - 1 \in Nat /\ Solved(m - 1)
    BY <2>2, <2>3
  <2>5. Solved((m - 1) + 1)
    BY <2>4, <1>2
  <2>6. (m - 1) + 1 = m
    BY <2>3
  <2> QED
    BY <2>3, <2>5, <2>6
<1>4. From(required) = Nat \ {0}
  OBVIOUS
<1>5. \E g : g = [n \in Nat \ {0} |-> Round(g, n)]
  BY <1>3, <1>4
<1> QED
  BY <1>5 DEF Doubled

\* What it ends with is enough, if what is required is no more than the maximum.
LEMMA DoubledEnough ==
  ASSUME NEW required \in Nat, NEW maximum \in Nat, required <= maximum, NEW n \in Nat \ {0}
  PROVE  Doubled(required, maximum)[n] \in Nat /\ Doubled(required, maximum)[n] >= required
<1> DEFINE g == Doubled(required, maximum)
           Bad(k) == ~(g[k] \in Nat /\ g[k] >= required)
           Missing == {m \in Nat : \E k \in Nat \ {0} : k + m = required /\ Bad(k)}
<1>1. g = [k \in Nat \ {0} |-> IF k >= required THEN k
                               ELSE IF k > maximum \div 2 THEN maximum ELSE g[k * 2]]
  BY DoubledDefined, Zenon
<1> HIDE DEF g
<1>2. \A k \in Nat \ {0} : g[k] = IF k >= required THEN k
                                  ELSE IF k > maximum \div 2 THEN maximum ELSE g[k * 2]
  BY <1>1
<1>3. ASSUME NEW k \in Nat \ {0}, Bad(k) PROVE k < required /\ Bad(k * 2)
  BY <1>2, <1>3
<1>4. Missing = {}
  <2> SUFFICES ASSUME Missing # {} PROVE FALSE
    OBVIOUS
  <2>1. PICK m \in Missing : \A j \in Missing : m <= j
    <3>1. Missing \in SUBSET Nat
      OBVIOUS
    <3> HIDE DEF Missing
    <3> QED
      BY <3>1, SmallestOf
  <2>2. PICK k \in Nat \ {0} : k + m = required /\ Bad(k)
    OBVIOUS
  <2>3. k * 2 < required /\ Bad(k * 2)
    BY <1>3, <2>2
  <2>4. required - k * 2 \in Missing
    BY <2>3
  <2> QED
    BY <2>1, <2>2, <2>4
<1>5. ASSUME Bad(n) PROVE FALSE
  <2>1. n < required
    BY <1>3, <1>5
  <2>2. required - n \in Missing
    BY <1>5, <2>1
  <2> QED
    BY <1>4, <2>2
<1> QED
  BY <1>5 DEF g

\* reserve_stream makes room for what it was asked for.
LEMMA CapacityEnough ==
  ASSUME NEW capacity \in Nat, NEW required \in Nat, NEW maximum \in Nat, required <= maximum
  PROVE  /\ NextCapacity(capacity, required, maximum) \in Nat
         /\ NextCapacity(capacity, required, maximum) >= required
BY DoubledEnough, ArgumentsAssumption DEF NextCapacity

-----------------------------------------------------------------------------
(***************************************************************************)
(* One read().                                                             *)
(***************************************************************************)

\* The streams are drained in the order of their three indices.
LEMMA CurrentStream ==
  ASSUME at \in DOMAIN StreamOrder
  PROVE  /\ at \in 1 .. 3
         /\ Current \in Streams
         /\ \A k \in (at + 1) .. 3 : StreamOrder[k] # Current
BY DEF StreamOrder, Streams, Current

\* A sequence cut in two.
Halves(q, n, a, b) == a = SubSeq(q, 1, n) /\ b = SubSeq(q, n + 1, Len(q))

CutAt(q, n, a, b) ==
  /\ a \in Seq(Nat) /\ b \in Seq(Nat)
  /\ Len(a) = n /\ Len(b) = Len(q) - n
  /\ \A i \in 1 .. n : a[i] = q[i]
  /\ \A i \in 1 .. (Len(q) - n) : b[i] = q[i + n]

LEMMA SplitSeq ==
  ASSUME NEW q \in Seq(Nat), NEW n \in 0 .. Len(q), NEW a, NEW b, Halves(q, n, a, b)
  PROVE  CutAt(q, n, a, b)
<1> DEFINE N == Len(q)
<1> USE DEF Halves
<1>1. N \in Nat /\ n \in Nat /\ n <= N /\ \A i \in 1 .. N : q[i] \in Nat
  BY ElementOfSeq
<1>2. /\ a \in Seq(Nat)
      /\ Len(a) = IF 1 <= n THEN n - 1 + 1 ELSE 0
      /\ \A i \in 1 .. (n - 1 + 1) : a[i] = q[1 + i - 1]
  BY <1>1, SubSeqProperties
<1>3. /\ b \in Seq(Nat)
      /\ Len(b) = IF n + 1 <= N THEN N - (n + 1) + 1 ELSE 0
      /\ \A i \in 1 .. (N - (n + 1) + 1) : b[i] = q[n + 1 + i - 1]
  BY <1>1, SubSeqProperties
<1> HIDE DEF N
<1>4. n - 1 + 1 = n /\ N - (n + 1) + 1 = N - n /\ (1 <= n \/ n = 0) /\ (n + 1 <= N \/ N - n = 0)
  BY <1>1
<1>5. Len(a) = n /\ Len(b) = N - n
  BY <1>2, <1>3, <1>4
<1>6. \A i \in 1 .. n : a[i] = q[i]
  BY <1>1, <1>2, <1>4
<1>7. ASSUME NEW i \in 1 .. (N - n) PROVE b[i] = q[i + n]
  <2>1. n + 1 + i - 1 = i + n
    BY <1>1
  <2> QED
    BY <1>3, <1>4, <2>1
<1> QED
  BY <1>2, <1>3, <1>5, <1>6, <1>7 DEF N, CutAt

\* A chunk is the beginning of the pipe, the rest is what follows it.
LEMMA ChunkAndRest ==
  ASSUME TypeOK, at \in DOMAIN StreamOrder
  PROVE  /\ Chunk \in Seq(Nat) /\ Rest \in Seq(Nat)
         /\ Len(Chunk) \in Nat /\ Len(Rest) \in Nat
         /\ Len(Chunk) + Len(Rest) = Len(pipe[Current])
         /\ \A i \in 1 .. Len(Chunk) : Chunk[i] = pipe[Current][i]
         /\ \A i \in 1 .. Len(Rest) : Rest[i] = pipe[Current][i + Len(Chunk)]
<1> DEFINE q == pipe[Current]
           n == IF Len(q) < ChunkSize THEN Len(q) ELSE ChunkSize
<1>1. q \in Seq(Nat)
  BY CurrentStream DEF TypeOK
<1>2. n \in 0 .. Len(q)
  BY <1>1, ArgumentsAssumption
<1>3. Chunk = SubSeq(q, 1, n)
  BY DEF Chunk
<1> HIDE DEF n
<1>4. Len(Chunk) = n
  <2>1. Halves(q, n, Chunk, SubSeq(q, n + 1, Len(q)))
    BY <1>3 DEF Halves
  <2>2. CutAt(q, n, Chunk, SubSeq(q, n + 1, Len(q)))
    BY <1>1, <1>2, <2>1, SplitSeq
  <2> QED
    BY <2>2 DEF CutAt
<1>5. Rest = SubSeq(q, n + 1, Len(q))
  BY <1>4 DEF Rest
<1> HIDE DEF q
<1>6. /\ Chunk \in Seq(Nat) /\ Rest \in Seq(Nat)
      /\ Len(Chunk) = n /\ Len(Rest) = Len(q) - n
      /\ \A i \in 1 .. n : Chunk[i] = q[i]
      /\ \A i \in 1 .. (Len(q) - n) : Rest[i] = q[i + n]
  <2>1. Halves(q, n, Chunk, Rest)
    BY <1>3, <1>5 DEF Halves
  <2>2. CutAt(q, n, Chunk, Rest)
    BY <1>1, <1>2, <2>1, SplitSeq
  <2> QED
    BY <2>2 DEF CutAt
<1>7. Len(q) \in Nat /\ n \in Nat
  BY <1>1, <1>2
<1> QED
  BY <1>6, <1>7 DEF q

StreamType == [data : Seq(Nat), capacity : Nat, closed : BOOLEAN]

\* The copy of a chunk that fits: it is appended, and there is room for it.
LEMMA ReadUnitsEffect ==
  ASSUME TypeOK, at \in DOMAIN StreamOrder, ReadUnits
  PROVE  /\ stream' \in [Streams -> StreamType]
         /\ pipe' \in [Streams -> Seq(Nat)]
         /\ stream'[Current].data = stream[Current].data \o Chunk
         /\ stream'[Current].closed = stream[Current].closed
         /\ Required \in Nat /\ Len(stream'[Current].data) = Required
         /\ Required <= stream'[Current].capacity
         /\ pipe'[Current] = Rest
         /\ \A s \in Streams \ {Current} : stream'[s] = stream[s] /\ pipe'[s] = pipe[s]
<1> DEFINE c == stream[Current]
           grown == IF Required <= c.capacity THEN c.capacity
                    ELSE NextCapacity(c.capacity, Required, Maximum[Current])
<1>1. Current \in Streams /\ c \in StreamType
  BY CurrentStream DEF TypeOK, StreamType
<1>2. Chunk \in Seq(Nat) /\ Rest \in Seq(Nat)
  BY ChunkAndRest
<1>3. c.data \o Chunk \in Seq(Nat) /\ Len(c.data \o Chunk) = Required /\ Required \in Nat
  BY <1>1, <1>2 DEF Required, StreamType
<1>4. Maximum[Current] \in Nat /\ Required <= Maximum[Current] /\ c.capacity \in Nat
  BY <1>1, ArgumentsAssumption DEF ReadUnits, StreamType
<1>5. grown \in Nat /\ Required <= grown
  BY <1>3, <1>4, CapacityEnough
<1> HIDE DEF grown
<1>6. stream' = [stream EXCEPT ![Current] = [c EXCEPT !.data = c.data \o Chunk,
                                                      !.capacity = grown]]
  BY <1>1 DEF ReadUnits, TypeOK, StreamType, grown
<1>7. stream'[Current] = [data |-> c.data \o Chunk, capacity |-> grown, closed |-> c.closed]
  BY <1>1, <1>6 DEF TypeOK, StreamType
<1>8. stream'[Current] \in StreamType
  BY <1>1, <1>3, <1>5, <1>7 DEF StreamType
<1>9. pipe' = [pipe EXCEPT ![Current] = Rest]
  BY DEF ReadUnits
<1>10. \A s \in Streams \ {Current} : stream'[s] = stream[s] /\ pipe'[s] = pipe[s]
  BY <1>6, <1>9 DEF TypeOK
<1>11. stream' \in [Streams -> StreamType]
  BY <1>1, <1>6, <1>7, <1>8 DEF TypeOK, StreamType
<1>12. pipe' \in [Streams -> Seq(Nat)] /\ pipe'[Current] = Rest
  BY <1>1, <1>2, <1>9 DEF TypeOK
<1>13. /\ stream'[Current].data = stream[Current].data \o Chunk
       /\ stream'[Current].closed = stream[Current].closed
       /\ stream'[Current].capacity = grown
  BY <1>7
<1> QED
  BY <1>3, <1>5, <1>10, <1>11, <1>12, <1>13

\* A refused chunk leaves the pipe and goes nowhere.
LEMMA ReadRefusedEffect ==
  ASSUME TypeOK, at \in DOMAIN StreamOrder, NEW refusal, ReadRefused(refusal)
  PROVE  /\ refusal \in Refusals
         /\ stream' = stream
         /\ pipe' \in [Streams -> Seq(Nat)]
         /\ \A s \in Streams \ {Current} : pipe'[s] = pipe[s]
         /\ pipe[Current] # <<>>
<1>1. Rest \in Seq(Nat) /\ Current \in Streams
  BY ChunkAndRest, CurrentStream
<1> QED
  BY <1>1 DEF ReadRefused, TypeOK, Refusals

\* The end of a stream.
LEMMA ReadEndEffect ==
  ASSUME TypeOK, at \in DOMAIN StreamOrder, ReadEnd
  PROVE  /\ stream' \in [Streams -> StreamType]
         /\ stream'[Current].closed
         /\ pipe' = pipe /\ pipe[Current] = <<>> /\ ~Attached
         /\ \A s \in Streams : /\ stream'[s].data = stream[s].data
                               /\ stream'[s].capacity = stream[s].capacity
                               /\ s # Current => stream'[s].closed = stream[s].closed
<1>1. Current \in Streams /\ \A s \in Streams : stream[s] \in StreamType
  BY CurrentStream DEF TypeOK, StreamType
<1>2. stream' = [stream EXCEPT ![Current] = [stream[Current] EXCEPT !.closed = TRUE]]
  BY <1>1 DEF ReadEnd, TypeOK, StreamType
<1>3. stream'[Current] = [data |-> stream[Current].data, capacity |-> stream[Current].capacity,
                          closed |-> TRUE]
  BY <1>1, <1>2 DEF TypeOK, StreamType
<1>4. stream' \in [Streams -> StreamType]
  BY <1>1, <1>2, <1>3 DEF TypeOK, StreamType
<1>5. \A s \in Streams \ {Current} : stream'[s] = stream[s]
  BY <1>2 DEF TypeOK
<1> QED
  BY <1>1, <1>3, <1>4, <1>5 DEF ReadEnd

-----------------------------------------------------------------------------
(***************************************************************************)
(* Types.                                                                  *)
(***************************************************************************)

LEMMA TypeInit == Init => TypeOK /\ SupervisorInv
<1> SUFFICES ASSUME Init PROVE TypeOK /\ SupervisorInv
  OBVIOUS
<1>1. <<>> \in Seq(Nat) /\ Len(<<>>) = 0 /\ DOMAIN <<>> = {}
  OBVIOUS
<1>2. \A s \in Streams : /\ stream[s] = [data |-> <<>>, capacity |-> 0, closed |-> FALSE]
                         /\ pipe[s] = <<>> /\ written[s] = 0 /\ Maximum[s] \in Nat
  BY ArgumentsAssumption DEF Init
<1>3. TypeOK
  <2>1. /\ stream \in [Streams -> [data : Seq(Nat), capacity : Nat, closed : BOOLEAN]]
        /\ pipe \in [Streams -> Seq(Nat)] /\ written \in [Streams -> Nat]
    BY <1>1 DEF Init
  <2>2. /\ request_offset \in 0 .. RequestSize /\ socket \in 0 .. SocketSize
        /\ consumed \in 0 .. RequestSize
    BY ArgumentsAssumption DEF Init
  <2>3. /\ pc = "setup" /\ at \in 1 .. 5 /\ ready = {} /\ status \in Statuses /\ fds = {}
        /\ process_exited = FALSE /\ expired = FALSE /\ killed = {}
        /\ worker = "none" /\ descendant = "none" /\ exit_code = 0 /\ wait_status = 0
    BY DEF Init, Statuses
  <2> QED
    BY <2>1, <2>2, <2>3 DEF TypeOK
<1>4. ReapInv /\ StatusInv /\ KillInv /\ RequestInv
  BY DEF Init, ReapInv, StatusInv, KillInv, RequestInv, LoopPlaces, EndPlaces
<1>5. \A s \in Streams : Prefix(s) /\ Intact(s)
  <2> SUFFICES ASSUME NEW s \in Streams PROVE Prefix(s) /\ Intact(s)
    OBVIOUS
  <2>1. stream[s].data = <<>> /\ pipe[s] = <<>> /\ written[s] = 0
    BY <1>2
  <2>2. Prefix(s)
    BY <1>1, <2>1 DEF Prefix
  <2> QED
    BY <1>1, <2>1, <2>2 DEF Intact
<1>6. ClosedInv /\ CopyFitsAllocation
  BY <1>1, <1>2 DEF ClosedInv, CopyFitsAllocation
<1> QED
  BY <1>3, <1>4, <1>5, <1>6 DEF SupervisorInv, DataInv

\* The end of a drain_stream() goes to another stream or to the next phase.
LEMMA NextStreamEffect ==
  ASSUME NEW phase, NextStream(phase), at \in DOMAIN StreamOrder
  PROVE  \/ at < 3 /\ at' = at + 1 /\ pc' = pc
         \/ at = 3 /\ at' = 1 /\ pc' = phase
BY CurrentStream DEF NextStream, StreamOrder

LEMMA NextStreamType ==
  ASSUME NEW phase, NextStream(phase), at \in DOMAIN StreamOrder
  PROVE  at' \in 1 .. 3 /\ pc' \in {pc, phase}
BY NextStreamEffect, CurrentStream

\* The types of the variables that a drain changes.
LEMMA DrainType ==
  ASSUME TypeOK, RequestInv, pc # "setup", at \in DOMAIN StreamOrder, drainFrame,
         stream' \in [Streams -> StreamType], pipe' \in [Streams -> Seq(Nat)],
         fds' \subseteq fds, at' \in 1 .. 3, status' \in Statuses,
         pc' \in {"drain", "wait", "kill", "final", "finish"}
  PROVE  TypeOK'
BY DEF TypeOK, StreamType, StreamOrder, drainFrame

LEMMA TypeSupervise ==
  ASSUME TypeOK, RequestInv, ReapInv, Supervise
  PROVE  TypeOK'
<1> USE DEF world
<1>d. pc # "setup" => at \in DOMAIN StreamOrder
  BY DEF TypeOK
<1>o. DOMAIN StreamOrder = 1 .. 3 /\ DOMAIN Pairs = 1 .. 4
  BY DEF StreamOrder, Pairs
<1>p. \A p \in PairNames : Kept(p) \in ClosedAtDone /\ Given(p) \in ClosedAtDone
  BY DEF ClosedAtDone
<1>q. \A k \in DOMAIN Pairs : Pairs[k] \in PairNames
  BY DEF PairNames
<1>1. CASE MakePair
  <2>0. at \in DOMAIN Pairs
    BY <1>1 DEF MakePair
  <2>1. fds' \subseteq ClosedAtDone
    BY <1>1, <2>0, <1>p, <1>q DEF MakePair, TypeOK
  <2>2. at' \in 1 .. 5 /\ pc' \in {"setup", "done"} /\ (pc' # "setup" => at' \in 1 .. 3)
    BY <1>1, <2>0, <1>o DEF MakePair, TypeOK
  <2> QED
    BY <1>1, <1>o, <2>1, <2>2 DEF MakePair, TypeOK
<1>2. CASE Spawn
  <2>1. fds' \subseteq ClosedAtDone
    BY <1>2, <1>p DEF Spawn, TypeOK
  <2> QED
    BY <1>2, <1>o, <2>1 DEF Spawn, TypeOK, Statuses
<1>3. CASE Loop
  <2>1. Polled \subseteq Streams \cup {"request"}
    BY DEF Polled
  <2> QED
    BY <1>3, <1>d, <1>o, <2>1 DEF Loop, TypeOK, Statuses
<1>4. CASE Send
  <2>1. request_offset' \in 0 .. RequestSize /\ socket' \in 0 .. SocketSize
    BY <1>4, ArgumentsAssumption DEF Send, TypeOK, Unsent
  <2>2. fds' \subseteq ClosedAtDone /\ status' \in Statuses /\ at' = 1
          /\ pc' \in {"drain", "kill"}
    BY <1>4 DEF Send, TypeOK, Statuses
  <2> QED
    BY <1>4, <1>o, <2>1, <2>2 DEF Send, TypeOK
<1>5. CASE Drain
  <2>0. at \in DOMAIN StreamOrder /\ drainFrame /\ pc = "drain" /\ status \in Statuses
          /\ stream \in [Streams -> StreamType] /\ pipe \in [Streams -> Seq(Nat)]
          /\ at \in 1 .. 3
    BY <1>5, <1>d, <1>o DEF Drain, TypeOK, StreamType
  <2>1. CASE NextStream("wait") /\ UNCHANGED <<status, stream, fds, pipe>>
    BY <2>0, <2>1, NextStreamType, DrainType
  <2>2. CASE ReadUnits /\ UNCHANGED <<pc, at, status>>
    BY <2>0, <2>2, ReadUnitsEffect, DrainType DEF ReadUnits
  <2>3. CASE (ReadEnd \/ ReadWouldBlock) /\ NextStream("wait") /\ UNCHANGED status
    BY <2>0, <2>3, ReadEndEffect, NextStreamType, DrainType DEF ReadEnd, ReadWouldBlock
  <2>4. ASSUME NEW refusal, ReadRefused(refusal), Refused(refusal) PROVE TypeOK'
    BY <2>0, <2>4, ReadRefusedEffect, DrainType DEF ReadRefused, Refused, Refusals, Statuses
  <2>5. CASE ReadError /\ Refused("IO_ERROR")
    BY <2>0, <2>5, DrainType DEF ReadError, Refused, Statuses
  <2> QED
    BY <1>5, <2>1, <2>2, <2>3, <2>4, <2>5 DEF Drain
<1>6. CASE FinalDrain
  <2>0. at \in DOMAIN StreamOrder /\ drainFrame /\ pc = "final" /\ status \in Statuses
          /\ stream \in [Streams -> StreamType] /\ pipe \in [Streams -> Seq(Nat)]
          /\ at \in 1 .. 3 /\ status' = status
    BY <1>6, <1>d, <1>o DEF FinalDrain, TypeOK, StreamType
  <2>1. CASE NextStream("finish") /\ UNCHANGED <<stream, fds, pipe>>
    BY <2>0, <2>1, NextStreamType, DrainType
  <2>2. CASE ReadUnits /\ UNCHANGED <<pc, at>>
    BY <2>0, <2>2, ReadUnitsEffect, DrainType DEF ReadUnits
  <2>3. CASE (ReadEnd \/ ReadWouldBlock \/ ReadError) /\ NextStream("finish")
    BY <2>0, <2>3, ReadEndEffect, NextStreamType, DrainType
       DEF ReadEnd, ReadWouldBlock, ReadError
  <2>4. ASSUME NEW refusal, ReadRefused(refusal), NextStream("finish") PROVE TypeOK'
    BY <2>0, <2>4, ReadRefusedEffect, NextStreamType, DrainType DEF ReadRefused
  <2> QED
    BY <1>6, <2>1, <2>2, <2>3, <2>4 DEF FinalDrain
<1>7. CASE Wait
  <2>1. /\ worker' \in {"none", "running", "exiting", "zombie", "reaped"}
        /\ wait_status' \in {0, 1, SIGKILLED} /\ process_exited' \in BOOLEAN
        /\ status' \in Statuses /\ pc' \in {"loop", "kill"}
    BY <1>7 DEF Wait, TypeOK, Statuses
  <2> QED
    BY <1>7, <1>d, <1>o, <2>1 DEF Wait, TypeOK
<1>8. CASE Kill
  BY <1>8, <1>o DEF Kill, TypeOK, Group
<1>9. CASE Reap
  BY <1>9, <1>o DEF Reap, TypeOK
<1>10. CASE Finish
  BY <1>10, <1>o DEF Finish, TypeOK, Statuses
<1>11. CASE Return
  BY <1>11, <1>o DEF Return, TypeOK
<1> QED
  BY <1>1, <1>2, <1>3, <1>4, <1>5, <1>6, <1>7, <1>8, <1>9, <1>10, <1>11 DEF Supervise

LEMMA TypeWorld ==
  ASSUME TypeOK, RequestInv, World
  PROVE  TypeOK'
<1> USE DEF worldFrame, supervisor
<1>1. ASSUME NEW s \in Streams, Write(s) PROVE TypeOK'
  <2>1. written' \in [Streams -> Nat] /\ pipe' \in [Streams -> Seq(Nat)]
    BY <1>1 DEF Write, TypeOK
  <2> QED
    BY <1>1, <2>1 DEF Write, TypeOK
<1>2. CASE ReadRequest
  BY <1>2, ArgumentsAssumption DEF ReadRequest, TypeOK, RequestInv
<1>3. CASE Fork \/ DescendantLeaves
  <2>1. /\ descendant' \in {"attached", "detached", "dead"}
        /\ UNCHANGED <<worker, exit_code, killed, pipe, written, socket, consumed, expired,
                      supervisor, manner>>
    BY <1>3 DEF Fork, DescendantLeaves
  <2> QED
    BY <2>1 DEF TypeOK
<1>5. CASE BecomeZombie
  BY <1>5 DEF BecomeZombie, TypeOK
<1>6. CASE Expire
  <2>1. /\ expired' \in BOOLEAN
        /\ UNCHANGED <<worker, exit_code, descendant, killed, pipe, written, socket,
                      consumed, supervisor, manner>>
    BY <1>6 DEF Expire
  <2> QED
    BY <2>1 DEF TypeOK
<1>4. CASE ExitNormally \/ Killed
  <2>1. CASE \E code \in {0, 1, SIGKILLED} : Exit(code)
    <3>1. /\ worker' = "exiting" /\ exit_code' \in {0, 1, SIGKILLED}
          /\ UNCHANGED <<descendant, killed, pipe, written, socket, consumed, expired,
                        supervisor, manner>>
      BY <2>1 DEF Exit
    <3> QED
      BY <3>1 DEF TypeOK
  <2>2. CASE /\ descendant' = "dead"
             /\ UNCHANGED <<worker, exit_code, killed, pipe, written, socket, consumed, expired,
                           supervisor, manner>>
    BY <2>2 DEF TypeOK
  <2> QED
    BY <1>4, <2>1, <2>2 DEF ExitNormally, Killed
<1> QED
  BY <1>1, <1>2, <1>3, <1>4, <1>5, <1>6 DEF World, WriteSome

-----------------------------------------------------------------------------
(***************************************************************************)
(* What the worker and its descendant can do.                              *)
(***************************************************************************)

\* The processes only move towards their end, and a killed worker does not fork.
LEMMA WorldEffect ==
  ASSUME TypeOK, World
  PROVE  /\ UNCHANGED <<supervisor, killed>>
         /\ pc # "returned"
         /\ \/ worker' = worker /\ exit_code' = exit_code
            \/ worker = "running" /\ worker' = "exiting"
            \/ worker = "exiting" /\ worker' = "zombie" /\ exit_code' = exit_code
         /\ \/ descendant' = descendant
            \/ descendant' = "attached" /\ worker = "running" /\ "worker" \notin killed
            \/ descendant \in {"attached", "detached"} /\ descendant' \in {"detached", "dead"}
         /\ consumed' + socket' = consumed + socket
<1> USE DEF worldFrame
<1>1. CASE WriteSome
  BY <1>1 DEF WriteSome, Write
<1>2. CASE ReadRequest
  BY <1>2, ArgumentsAssumption DEF ReadRequest, TypeOK
<1>3. CASE Fork
  BY <1>3 DEF Fork
<1>4. CASE DescendantLeaves
  BY <1>4 DEF DescendantLeaves
<1>5. CASE ExitNormally
  BY <1>5 DEF ExitNormally, Exit
<1>6. CASE BecomeZombie
  BY <1>6 DEF BecomeZombie
<1>7. CASE Killed
  BY <1>7 DEF Killed, Exit
<1>8. CASE Expire
  BY <1>8 DEF Expire
<1> QED
  BY <1>1, <1>2, <1>3, <1>4, <1>5, <1>6, <1>7, <1>8 DEF World

\* Once nobody holds the pipes, nobody will.
LEMMA DetachedForGood ==
  ASSUME TypeOK, World, ~Attached, worker # "none"
  PROVE  ~Attached' /\ worker' # "none"
BY WorldEffect DEF Attached

\* Units reach a pipe one at a time, at its end, and only from a process that holds it.
LEMMA WorldPipes ==
  ASSUME TypeOK, World
  PROVE  \/ pipe' = pipe /\ written' = written
         \/ /\ Attached
            /\ \E s \in Streams :
                 /\ written' = [written EXCEPT ![s] = @ + 1]
                 /\ pipe' = [pipe EXCEPT ![s] = Append(@, written[s] + 1)]
<1>1. CASE WriteSome
  BY <1>1 DEF WriteSome, Write
<1>2. CASE ReadRequest \/ Fork \/ DescendantLeaves
  BY <1>2 DEF ReadRequest, Fork, DescendantLeaves
<1>3. CASE ExitNormally \/ BecomeZombie \/ Killed \/ Expire
  BY <1>3 DEF ExitNormally, Exit, BecomeZombie, Killed, Expire
<1> QED
  BY <1>1, <1>2, <1>3 DEF World

-----------------------------------------------------------------------------
(***************************************************************************)
(* The control of the supervisor.                                          *)
(***************************************************************************)

\* How a drain may move the supervisor, in the loop and at the end.
LEMMA DrainControl ==
  ASSUME TypeOK, Drain
  PROVE  /\ drainFrame
         /\ pc = "drain"
         /\ \/ pc' \in {"drain", "wait"} /\ status' = status
            \/ pc' = "kill" /\ status' \in {"OVERFLOW", "OUT_OF_MEMORY", "IO_ERROR"}
<1>1. at \in DOMAIN StreamOrder
  BY DEF Drain, TypeOK
<1> QED
  BY <1>1, NextStreamEffect, ReadRefusedEffect DEF Drain, Refused, Refusals

LEMMA FinalDrainControl ==
  ASSUME TypeOK, FinalDrain
  PROVE  /\ drainFrame
         /\ pc = "final"
         /\ pc' \in {"final", "finish"} /\ status' = status
         /\ (\A s \in Streams : stream[s].closed) => stream' = stream
<1>1. at \in DOMAIN StreamOrder /\ Current \in Streams
  BY CurrentStream DEF FinalDrain, TypeOK
<1> QED
  BY <1>1, NextStreamEffect DEF FinalDrain

LEMMA ControlKept ==
  ASSUME TypeOK, ReapInv, StatusInv, KillInv, RequestInv, Next
  PROVE  ReapInv' /\ StatusInv' /\ KillInv' /\ RequestInv'
<1> USE DEF LoopPlaces, EndPlaces, world
<1>1. CASE MakePair
  BY <1>1 DEF MakePair, ReapInv, StatusInv, KillInv, RequestInv
<1>2. CASE Spawn
  BY <1>2 DEF Spawn, ReapInv, StatusInv, KillInv, RequestInv
<1>3. CASE Loop
  BY <1>3 DEF Loop, Finished, ReapInv, StatusInv, KillInv, RequestInv
<1>4. CASE Send
  <2>1. \E sent \in 0 .. RequestSize :
          request_offset' = request_offset + sent /\ socket' = socket + sent
    <3>1. CASE UNCHANGED <<request_offset, socket>>
      <4>1. request_offset' = request_offset + 0 /\ socket' = socket + 0
        BY <3>1 DEF TypeOK
      <4> QED
        BY <4>1, ArgumentsAssumption
    <3> QED
      BY <1>4, <3>1 DEF Send
  <2>2. RequestInv'
    BY <1>4, <2>1, ArgumentsAssumption DEF Send, RequestInv, TypeOK
  <2> QED
    BY <1>4, <2>2 DEF Send, ReapInv, StatusInv, KillInv
<1>5. CASE Drain
  BY <1>5, DrainControl DEF drainFrame, ReapInv, StatusInv, KillInv, RequestInv
<1>6. CASE FinalDrain
  BY <1>6, FinalDrainControl DEF drainFrame, ReapInv, StatusInv, KillInv, RequestInv
<1>7. CASE Wait
  BY <1>7 DEF Wait, ReapInv, StatusInv, KillInv, RequestInv
<1>8. CASE Kill
  BY <1>8 DEF Kill, Group, ReapInv, StatusInv, KillInv, RequestInv
<1>9. CASE Reap
  BY <1>9 DEF Reap, ReapInv, StatusInv, KillInv, RequestInv
<1>10. CASE Finish
  BY <1>10 DEF Finish, ReapInv, StatusInv, KillInv, RequestInv
<1>11. CASE Return
  <2>1. fds' = {}
    BY <1>11 DEF Return, TypeOK
  <2> QED
    BY <1>11, <2>1 DEF Return, ReapInv, StatusInv, KillInv, RequestInv
<1>12. CASE World
  <2>1. UNCHANGED <<pc, status, stream, fds, request_offset, process_exited, wait_status>>
    BY <1>12, WorldEffect DEF supervisor
  <2>2. RequestInv'
    BY <1>12, <2>1, WorldEffect DEF RequestInv
  <2>3. StatusInv'
    BY <2>1 DEF StatusInv
  <2>4. ReapInv'
    BY <1>12, <2>1, WorldEffect DEF ReapInv
  <2>5. KillInv'
    BY <1>12, <2>1, WorldEffect DEF KillInv
  <2> QED
    BY <2>2, <2>3, <2>4, <2>5
<1> QED
  BY <1>1, <1>2, <1>3, <1>4, <1>5, <1>6, <1>7, <1>8, <1>9, <1>10, <1>11, <1>12
     DEF Next, Supervise

-----------------------------------------------------------------------------
(***************************************************************************)
(* The streams.                                                            *)
(***************************************************************************)

\* The steps between the drains leave the streams alone.
LEMMA BetweenDrains ==
  ASSUME TypeOK, ReapInv, StatusInv, Supervise, ~Drain, ~FinalDrain
  PROVE  /\ UNCHANGED <<stream, pipe, written, descendant>>
         /\ worker' = worker \/ pc = "setup" \/ (worker = "zombie" /\ worker' = "reaped")
         /\ status \in Refusals => status' \in Refusals
         /\ \A s \in Streams : Untouched(s)' => Untouched(s)
<1> USE DEF LoopPlaces, EndPlaces, world, Refusals, Untouched, StatusInv
<1>1. CASE MakePair \/ Spawn
  BY <1>1 DEF MakePair, Spawn
<1>2. CASE Loop
  BY <1>2 DEF Loop
<1>3. CASE Send
  BY <1>3 DEF Send
<1>4. CASE Wait
  BY <1>4 DEF Wait
<1>5. CASE Kill \/ Reap
  BY <1>5 DEF Kill, Reap
<1>6. CASE Finish
  BY <1>6 DEF Finish
<1>7. CASE Return
  BY <1>7 DEF Return
<1> QED
  BY <1>1, <1>2, <1>3, <1>4, <1>5, <1>6, <1>7 DEF Supervise

\* The outcomes of a read() of the current stream.
ReadSome == ReadUnits \/ ReadEnd \/ ReadWouldBlock \/ ReadError
              \/ \E refusal \in Refusals : ReadRefused(refusal)

\* A drain step reads the current stream, or passes over it.
LEMMA DrainReads ==
  ASSUME TypeOK, Drain \/ FinalDrain
  PROVE  /\ at \in DOMAIN StreamOrder
         /\ pc \in {"drain", "final"}
         /\ \/ UNCHANGED <<stream, pipe>>
            \/ ~stream[Current].closed /\ ReadSome
         /\ UNCHANGED <<worker, descendant, written>>
<1>1. at \in DOMAIN StreamOrder /\ pc \in {"drain", "final"}
  BY DEF Drain, FinalDrain, TypeOK
<1> QED
  BY <1>1 DEF Drain, FinalDrain, drainFrame, ReadSome, Refusals

\* A stream is closed when its pipe has run dry for good.
LEMMA ClosedKept ==
  ASSUME TypeOK, ReapInv, StatusInv, ClosedInv, Next
  PROVE  ClosedInv'
<1>1. CASE Drain \/ FinalDrain
  <2>1. at \in DOMAIN StreamOrder /\ worker # "none" /\ Current \in Streams
          /\ UNCHANGED <<worker, descendant>>
    BY <1>1, DrainReads, CurrentStream DEF ReapInv, LoopPlaces
  <2>2. Attached' <=> Attached
    BY <2>1 DEF Attached
  <2>3. CASE UNCHANGED <<stream, pipe>>
    BY <2>1, <2>2, <2>3 DEF ClosedInv
  <2>4. CASE ~stream[Current].closed /\ ReadUnits
    BY <2>1, <2>2, <2>4, ReadUnitsEffect DEF ClosedInv
  <2>5. CASE ~stream[Current].closed /\ ReadEnd
    BY <2>1, <2>2, <2>5, ReadEndEffect DEF ClosedInv
  <2>6. ASSUME ~stream[Current].closed, NEW refusal, ReadRefused(refusal) PROVE ClosedInv'
    BY <2>1, <2>2, <2>6, ReadRefusedEffect DEF ClosedInv
  <2> QED
    BY <1>1, <2>3, <2>4, <2>5, <2>6, DrainReads DEF ReadSome, ReadWouldBlock, ReadError
<1>2. CASE Supervise /\ ~Drain /\ ~FinalDrain
  <2>1. UNCHANGED <<stream, pipe, descendant>>
          /\ (worker' = worker \/ pc = "setup" \/ (worker = "zombie" /\ worker' = "reaped"))
    BY <1>2, BetweenDrains
  <2> QED
    BY <2>1 DEF ClosedInv, Attached, ReapInv
<1>3. CASE World
  <2> SUFFICES ASSUME NEW s \in Streams, stream'[s].closed
               PROVE  pipe'[s] = <<>> /\ ~Attached' /\ worker' # "none"
    BY DEF ClosedInv
  <2>1. stream[s].closed
    BY <1>3, WorldEffect DEF supervisor
  <2>2. pipe[s] = <<>> /\ ~Attached /\ worker # "none"
    BY <2>1 DEF ClosedInv
  <2>3. pipe' = pipe
    BY <1>3, <2>2, WorldPipes
  <2> QED
    BY <1>3, <2>2, <2>3, DetachedForGood
<1> QED
  BY <1>1, <1>2, <1>3 DEF Next

\* No copy goes past the allocation or past the maximum of the caller.
LEMMA CopyKept ==
  ASSUME TypeOK, ReapInv, StatusInv, CopyFitsAllocation, Next
  PROVE  CopyFitsAllocation'
<1>1. CASE UNCHANGED stream
  BY <1>1 DEF CopyFitsAllocation
<1>2. CASE Drain \/ FinalDrain
  <2>1. at \in DOMAIN StreamOrder
    BY <1>2, DrainReads
  <2>2. CASE ReadUnits
    <3>1. Required <= Maximum[Current]
      BY <2>2 DEF ReadUnits
    <3>2. \A s \in Streams \ {Current} : stream'[s] = stream[s]
      BY <2>1, <2>2, ReadUnitsEffect
    <3>3. Len(stream'[Current].data) = Required /\ Required <= stream'[Current].capacity
      BY <2>1, <2>2, ReadUnitsEffect
    <3> QED
      BY <3>1, <3>2, <3>3 DEF CopyFitsAllocation
  <2>3. CASE ReadEnd
    BY <2>1, <2>3, ReadEndEffect DEF CopyFitsAllocation
  <2> QED
    BY <1>1, <1>2, <2>2, <2>3, DrainReads
       DEF ReadSome, ReadWouldBlock, ReadError, ReadRefused
<1>3. CASE Supervise /\ ~Drain /\ ~FinalDrain
  BY <1>1, <1>3, BetweenDrains
<1>4. CASE World
  BY <1>1, <1>4, WorldEffect DEF supervisor
<1> QED
  BY <1>2, <1>3, <1>4 DEF Next

\* A sequence of the numbers that follow `before`.
Numbered(q, before) == \A i \in 1 .. Len(q) : q[i] = before + i

\* The sequence q, cut into a and b.
Cut(q, a, b) == /\ Len(a) + Len(b) = Len(q)
                /\ \A i \in 1 .. Len(a) : a[i] = q[i]
                /\ \A i \in 1 .. Len(b) : b[i] = q[i + Len(a)]

\* Numbers in order, continued by the beginning of the numbers that follow them.
LEMMA CopyContinues ==
  ASSUME NEW d \in Seq(Nat), NEW q \in Seq(Nat), NEW a \in Seq(Nat), NEW b \in Seq(Nat),
         Cut(q, a, b), Numbered(d, 0), Numbered(q, Len(d))
  PROVE  /\ Len(d \o a) + Len(b) = Len(d) + Len(q)
         /\ Numbered(d \o a, 0)
         /\ Numbered(b, Len(d \o a))
<1>1. Len(d) \in Nat /\ Len(q) \in Nat /\ Len(a) \in Nat /\ Len(b) \in Nat
  OBVIOUS
<1>2. /\ Len(d \o a) = Len(d) + Len(a)
      /\ \A i \in 1 .. Len(d) + Len(a) :
           (d \o a)[i] = IF i <= Len(d) THEN d[i] ELSE a[i - Len(d)]
  BY ConcatProperties
<1>3. ASSUME NEW i \in 1 .. Len(d \o a) PROVE (d \o a)[i] = 0 + i
  <2>1. CASE i <= Len(d)
    BY <1>1, <1>2, <2>1 DEF Numbered
  <2>2. CASE ~(i <= Len(d))
    <3>1. i - Len(d) \in 1 .. Len(a) /\ i - Len(d) \in 1 .. Len(q)
      BY <1>1, <1>2, <2>2 DEF Cut
    <3>2. (d \o a)[i] = a[i - Len(d)]
      BY <1>1, <1>2, <2>2
    <3>3. a[i - Len(d)] = q[i - Len(d)]
      BY <3>1 DEF Cut
    <3>4. q[i - Len(d)] = Len(d) + (i - Len(d))
      BY <3>1 DEF Numbered
    <3> QED
      BY <1>1, <1>2, <3>2, <3>3, <3>4
  <2> QED
    BY <2>1, <2>2
<1>4. ASSUME NEW i \in 1 .. Len(b) PROVE b[i] = Len(d \o a) + i
  <2>1. i + Len(a) \in 1 .. Len(q)
    BY <1>1 DEF Cut
  <2>2. b[i] = q[i + Len(a)]
    BY DEF Cut
  <2>3. q[i + Len(a)] = Len(d) + (i + Len(a))
    BY <2>1 DEF Numbered
  <2> QED
    BY <1>1, <1>2, <2>2, <2>3
<1>5. Len(d \o a) + Len(b) = Len(d) + Len(q)
  <2>1. Len(a) + Len(b) = Len(q)
    BY DEF Cut
  <2>2. Len(d \o a) = Len(d) + Len(a)
    BY <1>2
  <2> DEFINE m == Len(d)  n == Len(a)  k == Len(b)  l == Len(q)
  <2>3. m \in Nat /\ n \in Nat /\ k \in Nat /\ n + k = l
    BY <1>1, <2>1
  <2> HIDE DEF m, n, k, l
  <2>4. (m + n) + k = m + l
    BY <2>3
  <2> QED
    BY <2>2, <2>4 DEF m, n, k, l
<1> QED
  BY <1>3, <1>4, <1>5 DEF Numbered

\* A copied chunk leaves the stream intact, and so does every unit written.
LEMMA CopyIntact ==
  ASSUME TypeOK, at \in DOMAIN StreamOrder, ReadUnits, written' = written,
         NEW s \in Streams, Intact(s)
  PROVE  Intact(s)'
<1>1. CASE s # Current
  <2>1. stream'[s] = stream[s] /\ pipe'[s] = pipe[s]
    BY <1>1, ReadUnitsEffect
  <2> QED
    BY <2>1 DEF Intact, Prefix
<1>2. CASE s = Current
  <2> DEFINE d == stream[s].data
             q == pipe[s]
  <2>1. /\ stream'[s].data = d \o Chunk /\ pipe'[s] = Rest
        /\ Chunk \in Seq(Nat) /\ Rest \in Seq(Nat) /\ d \in Seq(Nat) /\ q \in Seq(Nat)
    BY <1>2, ReadUnitsEffect, ChunkAndRest DEF TypeOK
  <2>0. DOMAIN d = 1 .. Len(d) /\ DOMAIN q = 1 .. Len(q)
    BY <2>1
  <2>2. Numbered(d, 0) /\ Numbered(q, Len(d)) /\ Len(d) + Len(q) = written[s]
    <3>1. \A i \in 1 .. Len(d) : d[i] = i
      BY <2>0, Zenon DEF Intact, Prefix
    <3>2. \A i \in 1 .. Len(d) : 0 + i = i
      OBVIOUS
    <3>3. Numbered(d, 0)
      BY <3>1, <3>2, Zenon DEF Numbered
    <3> QED
      BY <2>0, <3>3, Zenon DEF Intact, Numbered
  <2>3. Cut(q, Chunk, Rest)
    BY <1>2, ChunkAndRest DEF Cut
  <2> HIDE DEF d, q
  <2>4. /\ Len(d \o Chunk) + Len(Rest) = Len(d) + Len(q)
        /\ Numbered(d \o Chunk, 0)
        /\ Numbered(Rest, Len(d \o Chunk))
    BY <2>1, <2>2, <2>3, CopyContinues
  <2> DEFINE e == d \o Chunk
  <2>5. e \in Seq(Nat) /\ DOMAIN e = 1 .. Len(e) /\ DOMAIN Rest = 1 .. Len(Rest)
    BY <2>1
  <2> HIDE DEF e
  <2>6. Prefix(s)'
    BY <2>1, <2>4, <2>5 DEF Prefix, Numbered, e
  <2>7. Len(stream'[s].data) + Len(pipe'[s]) = written'[s]
    BY <2>1, <2>2, <2>4
  <2>8. \A i \in DOMAIN pipe'[s] : pipe'[s][i] = Len(stream'[s].data) + i
    BY <2>1, <2>4, <2>5 DEF Numbered
  <2> QED
    BY <2>6, <2>7, <2>8 DEF Intact
<1> QED
  BY <1>1, <1>2

LEMMA WriteIntact ==
  ASSUME TypeOK, World, NEW s \in Streams, Intact(s)
  PROVE  Intact(s)'
<1>1. stream' = stream
  BY WorldEffect DEF supervisor
<1>2. CASE pipe'[s] = pipe[s] /\ written'[s] = written[s]
  BY <1>1, <1>2 DEF Intact, Prefix
<1>3. CASE written'[s] = written[s] + 1 /\ pipe'[s] = Append(pipe[s], written[s] + 1)
  <2> DEFINE n == Len(stream[s].data)
             q == pipe[s]
             v == written[s] + 1
  <2>1. q \in Seq(Nat) /\ n \in Nat /\ written[s] \in Nat /\ Len(q) \in Nat
    BY DEF TypeOK
  <2>0. DOMAIN q = 1 .. Len(q)
    BY <2>1
  <2>2. n + Len(q) = written[s] /\ \A i \in 1 .. Len(q) : q[i] = n + i
    BY <2>0, Zenon DEF Intact
  <2>3. Prefix(s)'
    BY <1>1 DEF Intact, Prefix
  <2> HIDE DEF n, q
  <2>4. Append(q, v) \in Seq(Nat) /\ Len(Append(q, v)) = Len(q) + 1
          /\ DOMAIN Append(q, v) = 1 .. (Len(q) + 1)
          /\ \A i \in 1 .. (Len(q) + 1) : Append(q, v)[i] = IF i <= Len(q) THEN q[i] ELSE v
    BY <2>1
  <2>5. \A i \in 1 .. (Len(q) + 1) : Append(q, v)[i] = n + i
    BY <2>1, <2>2, <2>4
  <2>6. pipe'[s] = Append(q, v) /\ written'[s] = v /\ n = Len(stream'[s].data)
    BY <1>1, <1>3 DEF n, q
  <2>7. n + (Len(q) + 1) = v
    BY <2>1, <2>2
  <2> QED
    BY <2>3, <2>4, <2>5, <2>6, <2>7 DEF Intact
<1>4. \/ pipe'[s] = pipe[s] /\ written'[s] = written[s]
      \/ written'[s] = written[s] + 1 /\ pipe'[s] = Append(pipe[s], written[s] + 1)
  BY WorldPipes DEF TypeOK
<1> QED
  BY <1>2, <1>3, <1>4

\* What was collected stays what was written first, unless a refusal is reported.
LEMMA DataKept ==
  ASSUME TypeOK, ReapInv, StatusInv, ClosedInv, DataInv, Next
  PROVE  DataInv'
<1> SUFFICES ASSUME status' \notin Refusals, NEW s \in Streams
             PROVE  Prefix(s)' /\ (Untouched(s)' => Intact(s)')
  BY DEF DataInv
<1>1. ASSUME Intact(s)' PROVE Prefix(s)'
  BY <1>1 DEF Intact
<1>2. CASE Drain
  <2>1. /\ at \in DOMAIN StreamOrder /\ UNCHANGED written /\ pc = "drain"
        /\ UNCHANGED <<stream, pipe>> \/ ReadSome
    BY <1>2, DrainReads DEF Drain
  <2>2. status \notin Refusals
    BY <2>1 DEF StatusInv, LoopPlaces, Refusals
  <2>3. Intact(s)
    BY <2>1, <2>2 DEF DataInv, Untouched, EndPlaces
  <2>4. CASE UNCHANGED <<stream, pipe>>
    BY <1>1, <2>1, <2>3, <2>4 DEF Intact, Prefix
  <2>5. CASE ReadUnits
    BY <1>1, <2>1, <2>3, <2>5, CopyIntact
  <2>6. CASE ReadEnd
    <3>1. stream'[s].data = stream[s].data /\ pipe' = pipe
      BY <2>1, <2>6, ReadEndEffect
    <3> QED
      BY <1>1, <2>1, <2>3, <3>1 DEF Intact, Prefix
  <2>7. Drain => (UNCHANGED <<stream, pipe>> \/ ReadUnits \/ ReadEnd)
    BY <2>1, ReadRefusedEffect
       DEF Drain, Refused, ReadWouldBlock, ReadError, Refusals
  <2> QED
    BY <1>2, <2>4, <2>5, <2>6, <2>7
<1>3. CASE FinalDrain
  <2>1. /\ at \in DOMAIN StreamOrder /\ UNCHANGED <<written, status>> /\ pc = "final"
        /\ at \in 1 .. 3 /\ Current \in Streams
        /\ \A k \in (at + 1) .. 3 : StreamOrder[k] # Current
    BY <1>3, DrainReads, CurrentStream DEF FinalDrain
  <2>2. status \notin Refusals /\ Prefix(s) /\ (Untouched(s) => Intact(s))
    BY <2>1 DEF DataInv
  <2>3. UNCHANGED <<pc, at>> \/ NextStream("finish")
    BY <1>3 DEF FinalDrain
  <2>4. Untouched(s)' => Untouched(s) /\ (status = "OK" \/ UNCHANGED <<pc, at>> \/ s # Current)
    <3>1. CASE UNCHANGED <<pc, at>>
      BY <2>1, <3>1 DEF Untouched
    <3>2. CASE NextStream("finish")
      <4>1. \/ at < 3 /\ at' = at + 1 /\ pc' = "final"
            \/ pc' = "finish"
        BY <2>1, <3>2, NextStreamEffect
      <4> QED
        BY <2>1, <4>1 DEF Untouched, EndPlaces
    <3> QED
      BY <2>3, <3>1, <3>2
  <2>5. CASE UNCHANGED <<stream, pipe>>
    BY <2>1, <2>2, <2>4, <2>5 DEF Intact, Prefix
  <2>6. CASE ReadUnits /\ UNCHANGED <<pc, at>>
    <3>1. CASE Intact(s)
      BY <1>1, <2>1, <2>6, <3>1, CopyIntact
    <3>2. CASE ~Intact(s)
      <4>1. ~Untouched(s)
        BY <2>2, <3>2
      <4>2. s # Current
        BY <2>1, <4>1 DEF Untouched, Current
      <4>3. stream'[s] = stream[s]
        BY <2>1, <2>6, <4>2, ReadUnitsEffect
      <4> QED
        BY <2>2, <2>4, <4>1, <4>3 DEF Prefix
    <3> QED
      BY <3>1, <3>2
  <2>7. CASE ReadEnd
    <3>1. stream'[s].data = stream[s].data /\ pipe' = pipe
      BY <2>1, <2>7, ReadEndEffect
    <3> QED
      BY <2>1, <2>2, <2>4, <3>1 DEF Intact, Prefix
  <2>8. ASSUME NEW refusal, ReadRefused(refusal), NextStream("finish"),
               ~stream[Current].closed
        PROVE  Prefix(s)' /\ (Untouched(s)' => Intact(s)')
    <3>1. stream' = stream /\ \A r \in Streams \ {Current} : pipe'[r] = pipe[r]
      BY <2>1, <2>8, ReadRefusedEffect
    <3>2. status # "OK"
      BY <2>1, <2>8 DEF StatusInv, EndPlaces
    <3>3. Untouched(s)' => Untouched(s) /\ s # Current
      <4>1. at' # at \/ pc' # pc
        BY <2>1, <2>8, NextStreamEffect
      <4> QED
        BY <2>4, <3>2, <4>1
    <3> QED
      BY <2>1, <2>2, <3>1, <3>3 DEF Intact, Prefix
  <2> QED
    BY <1>3, <2>5, <2>6, <2>7, <2>8 DEF FinalDrain, ReadWouldBlock, ReadError
<1>4. CASE Supervise /\ ~Drain /\ ~FinalDrain
  <2>1. /\ UNCHANGED <<stream, pipe, written>> /\ status \notin Refusals
        /\ Untouched(s)' => Untouched(s)
    BY <1>4, BetweenDrains
  <2> QED
    BY <2>1 DEF DataInv, Intact, Prefix
<1>5. CASE World
  <2>1. UNCHANGED <<pc, at, status, stream>>
    BY <1>5, WorldEffect DEF supervisor
  <2>2. (Untouched(s)' => Untouched(s)) /\ (Prefix(s) => Prefix(s)') /\ status \notin Refusals
    BY <2>1 DEF Untouched, Prefix
  <2> QED
    BY <1>5, <2>2, WriteIntact DEF DataInv
<1> QED
  BY <1>2, <1>3, <1>4, <1>5 DEF Next

-----------------------------------------------------------------------------
(***************************************************************************)
(* The theorems.                                                           *)
(***************************************************************************)

LEMMA Stuttering ==
  ASSUME TypeOK, SupervisorInv, UNCHANGED vars
  PROVE  TypeOK' /\ SupervisorInv'
<1> USE DEF vars, supervisor, world
<1>1. TypeOK'
  BY DEF TypeOK
<1>2. ReapInv' /\ StatusInv' /\ KillInv' /\ RequestInv'
  BY DEF SupervisorInv, ReapInv, StatusInv, KillInv, RequestInv
<1>3. ClosedInv' /\ DataInv' /\ CopyFitsAllocation'
  BY DEF SupervisorInv, ClosedInv, DataInv, CopyFitsAllocation, Attached, Prefix, Intact,
         Untouched
<1> QED
  BY <1>1, <1>2, <1>3 DEF SupervisorInv

\* The types, and the accounts of npunlock_worker_process_run, hold throughout a run.
THEOREM SupervisorCorrect == Spec => [](TypeOK /\ SupervisorInv)
<1>1. TypeOK /\ SupervisorInv /\ [Next]_vars => TypeOK' /\ SupervisorInv'
  <2> SUFFICES ASSUME TypeOK, SupervisorInv, [Next]_vars PROVE TypeOK' /\ SupervisorInv'
    OBVIOUS
  <2>1. ReapInv /\ StatusInv /\ KillInv /\ RequestInv /\ ClosedInv /\ DataInv
          /\ CopyFitsAllocation
    BY DEF SupervisorInv
  <2>2. CASE Next
    BY <2>1, <2>2, TypeSupervise, TypeWorld, ControlKept, ClosedKept, DataKept, CopyKept
       DEF Next, SupervisorInv
  <2> QED
    BY <2>2, Stuttering
<1> QED
  BY <1>1, TypeInit, PTL DEF Spec

\* What the caller gets of the three pipes is what was written to them: all of it after an
\* OK, a prefix unless a refusal is reported, and never more than was allocated.
THEOREM ReportCorrect == Spec => []ReportExact
<1>1. TypeOK /\ SupervisorInv => ReportExact
  <2> SUFFICES ASSUME TypeOK, SupervisorInv PROVE OkMeansComplete /\ PrefixUnlessRefused
    BY DEF ReportExact, SupervisorInv
  <2>1. OkMeansComplete
    <3> SUFFICES ASSUME Returned, status = "OK" PROVE OkMeansComplete
      BY DEF OkMeansComplete
    <3>1. worker = "reaped" /\ wait_status = 0 /\ exit_code = 0
      BY DEF Returned, SupervisorInv, ReapInv, StatusInv
    <3>2. ASSUME NEW s \in Streams PROVE stream[s].data = [i \in 1 .. written[s] |-> i]
      <4>1. Intact(s) /\ pipe[s] = <<>>
        BY DEF SupervisorInv, DataInv, StatusInv, ClosedInv, Untouched, Refusals, Returned,
               EndPlaces
      <4> DEFINE d == stream[s].data
      <4>0. d \in Seq(Nat)
        BY DEF TypeOK
      <4>5. d = [i \in 1 .. Len(d) |-> d[i]] /\ Len(d) \in Nat /\ DOMAIN d = 1 .. Len(d)
        <5> HIDE DEF d
        <5> QED
          BY <4>0
      <4>2. Len(pipe[s]) = 0
        BY <4>1
      <4>3. Len(stream[s].data) = written[s]
        BY <4>1, <4>2, <4>5 DEF Intact
      <4>4. \A i \in 1 .. written[s] : stream[s].data[i] = i
        BY <4>1, <4>3, <4>5 DEF Intact, Prefix
      <4> QED
        BY <4>3, <4>4, <4>5
    <3> QED
      BY <3>1, <3>2 DEF OkMeansComplete
  <2>2. PrefixUnlessRefused
    BY DEF PrefixUnlessRefused, SupervisorInv, DataInv, Prefix, Refusals
  <2> QED
    BY <2>1, <2>2
<1> QED
  BY <1>1, SupervisorCorrect, PTL

\* A run that returned leaves no zombie and no descriptor, and after a failure no descendant
\* that was not sent SIGKILL.
THEOREM ReturnCorrect == Spec => []ReturnedClean
<1>1. TypeOK /\ SupervisorInv => ReturnedClean
  BY DEF SupervisorInv, ReturnedClean, Returned, ReapInv, StatusInv, KillInv, EndPlaces
<1> QED
  BY <1>1, SupervisorCorrect, PTL
=============================================================================
