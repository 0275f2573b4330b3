---------------------------- MODULE PythonProofs ----------------------------
(***************************************************************************)
(* Proofs about five parts of the Python code that share no state: the     *)
(* threads of one Program (ProgramRun), for any number of threads and      *)
(* arrays; the lists of the tracker (ByteTrack), for any rounds of         *)
(* detections; the methods of NativeLibraries (NativeApi), for any         *)
(* arguments and any native records; the boundary of a Program             *)
(* (Boundary), for any graphs and provenances; and the IR of a graph       *)
(* (GraphBuild), for any number of nodes and outputs.                      *)
(***************************************************************************)
EXTENDS ProgramRun, ByteTrack, NativeApi, Boundary, GraphBuild,
        FiniteSetTheorems, SequenceTheorems, NaturalsInduction, WellFoundedInduction, TLAPS

-----------------------------------------------------------------------------
(* ProgramRun: the inductive invariant, the two safety properties and the  *)
(* refinement of ProgramPromise.                                           *)

\* What a running call was given: a shared array is live, an array that is
\* being made does not exist yet and no other call is making it.
CallsOwn ==
  /\ \A a \in held : Live(a)
  /\ \A t \in Threads : ~Idle(t) /\ op[t] = "shared" => array[t] \in Arrays /\ Live(array[t])
  /\ \A t \in Threads : ~Idle(t) /\ op[t] = "array" => array[t] \in Arrays /\ buffers[array[t]] = "absent"
  /\ \A t, u \in Threads : t # u /\ ~Idle(t) /\ op[t] = "array" /\ ~Idle(u) /\ op[u] = "array"
       => array[t] # array[u]

\* The session's place in its life, seen from the execution state.
SessionLife ==
  /\ ~closed /\ ~opened => native = "absent"
  /\ opened => ~closed
  /\ opened => native = "live" \/ (~wanted /\ \A t \in Threads : Idle(t))
  /\ \A t \in Threads : pc[t] = "release" => native = "live"
  /\ \A t \in Threads : pc[t] \in {"release", "mark"} => closed
  /\ \A t, u \in Threads : pc[t] \in {"release", "mark"} /\ pc[u] \in {"release", "mark"} => t = u
  /\ \A t \in Threads : Inside(t) => native = "live"
  /\ late # {} => closed
  /\ \A t \in late : pc[t] \in {"idle", "get", "locked"}

IInv == TypeOK /\ CallsOwn /\ SessionLife

LEMMA InitInv == Init => IInv
  BY ProgramAssumption DEF Init, IInv, TypeOK, CallsOwn, SessionLife, Idle, Inside, Live

\* Beginning a call.
LEMMA BeginInv ==
  ASSUME IInv, NEW t \in Threads,
         \/ Run(t) \/ CloseCall(t)
         \/ \E a \in Arrays : RunShared(t, a) \/ SharedArray(t, a)
  PROVE  IInv'
<1>1. PICK kind \in {"copied", "shared", "array", "close"}, a \in Arrays \cup {NoArray} :
        /\ Begin(t, kind, a)
        /\ kind = "shared" => a \in held
        /\ kind = "array" => a \in Arrays /\ buffers[a] = "absent" /\ ~Using(a)
  BY DEF Run, CloseCall, RunShared, SharedArray, IInv, TypeOK
<1> USE <1>1 DEF Begin, Goto, state, client, IInv
<1>2. TypeOK'
  BY DEF TypeOK
<1>3. CallsOwn'
  BY DEF TypeOK, CallsOwn, Idle, Live, Using
<1>4. SessionLife'
  BY DEF TypeOK, SessionLife, Idle, Inside
<1> QED BY <1>2, <1>3, <1>4

\* The steps of get_session() and of close() under the lock.
LEMMA LockedInv ==
  ASSUME IInv, NEW t \in Threads,
         \/ Acquire(t) \/ Refuse(t) \/ GetSession(t) \/ CreateSession(t) \/ CreateFails(t)
         \/ CloseAgain(t) \/ TakeSession(t)
  PROVE  IInv'
<1> USE DEF IInv, Goto, Unlock, Locked, local, client
<1>1. TypeOK'
  BY DEF TypeOK, Acquire, Refuse, GetSession, CreateSession, CreateFails, CloseAgain, TakeSession
<1>2. CallsOwn'
  BY DEF TypeOK, CallsOwn, Idle, Live, Acquire, Refuse, GetSession, CreateSession, CreateFails, CloseAgain, TakeSession
<1>3. SessionLife'
  <2>1. CASE Acquire(t) \/ Refuse(t) \/ CreateFails(t) \/ CloseAgain(t)
    BY <2>1 DEF TypeOK, SessionLife, Idle, Inside, Acquire, Refuse, CreateFails, CloseAgain
  <2>2. CASE GetSession(t)
    BY <2>2 DEF TypeOK, SessionLife, Idle, Inside, GetSession
  <2>3. CASE CreateSession(t)
    BY <2>3 DEF TypeOK, SessionLife, Idle, Inside, CreateSession
  <2>4. CASE TakeSession(t)
    BY <2>4 DEF TypeOK, SessionLife, Idle, Inside, TakeSession
  <2> QED BY <2>1, <2>2, <2>3, <2>4
<1> QED BY <1>1, <1>2, <1>3

\* The native calls and the release of the session by close().
LEMMA NativeInv ==
  ASSUME IInv, NEW t \in Threads,
         \/ Load(t) \/ Enter(t) \/ EnterFails(t) \/ EnterStray(t) \/ Leave(t)
         \/ ReleaseSession(t) \/ MarkClosed(t)
  PROVE  IInv'
<1> USE DEF IInv, Goto, state, client, local
<1>1. CASE Load(t)
  <2>1. TypeOK' BY <1>1 DEF TypeOK, Load
  <2>2. CallsOwn' BY <1>1 DEF TypeOK, CallsOwn, Idle, Live, Load
  <2>3. SessionLife' BY <1>1 DEF TypeOK, SessionLife, Idle, Inside, Load
  <2> QED BY <2>1, <2>2, <2>3
<1>2. CASE Enter(t) \/ EnterFails(t) \/ EnterStray(t)
  <2>1. TypeOK' BY <1>2 DEF TypeOK, Enter, EnterFails, EnterStray
  <2>2. CallsOwn' BY <1>2 DEF TypeOK, CallsOwn, Idle, Live, Enter, EnterFails, EnterStray
  <2>3. SessionLife' BY <1>2 DEF TypeOK, SessionLife, Idle, Inside, Enter, EnterFails, EnterStray
  <2> QED BY <2>1, <2>2, <2>3
<1>3. CASE Leave(t)
  <2>1. ~Idle(t) BY <1>3 DEF Leave, Inside, Idle
  <2>2. TypeOK' BY <1>3, <2>1 DEF TypeOK, Leave, CallsOwn
  <2>3. CallsOwn' BY <1>3, <2>1 DEF TypeOK, CallsOwn, Idle, Live, Leave
  <2>4. SessionLife' BY <1>3 DEF TypeOK, SessionLife, Idle, Inside, Leave
  <2> QED BY <2>2, <2>3, <2>4
<1>4. CASE ReleaseSession(t) \/ MarkClosed(t)
  <2>1. TypeOK' BY <1>4 DEF TypeOK, ReleaseSession, MarkClosed
  <2>2. CallsOwn' BY <1>4 DEF TypeOK, CallsOwn, Idle, Live, ReleaseSession, MarkClosed
  <2>3. SessionLife' BY <1>4 DEF TypeOK, SessionLife, Idle, Inside, ReleaseSession, MarkClosed
  <2> QED BY <2>1, <2>2, <2>3
<1> QED BY <1>1, <1>2, <1>3, <1>4

\* References that go away, and the collector.
LEMMA GarbageInv ==
  ASSUME IInv, DropProgram \/ Garbage \/ \E a \in Arrays : Drop(a)
  PROVE  IInv'
<1> USE DEF IInv, state, client, local
<1>1. CASE DropProgram
  <2>1. TypeOK' BY <1>1 DEF DropProgram, TypeOK
  <2>2. CallsOwn' BY <1>1 DEF DropProgram, CallsOwn, Idle, Live
  <2>3. SessionLife' BY <1>1 DEF DropProgram, TypeOK, SessionLife, Idle, Inside
  <2> QED BY <2>1, <2>2, <2>3
<1>2. ASSUME NEW a \in Arrays, Drop(a) PROVE IInv'
  BY <1>2 DEF Drop, TypeOK, CallsOwn, SessionLife, Idle, Inside, Live
<1>3. ASSUME NEW a \in Arrays, Collect(a) PROVE IInv'
  <2>1. TypeOK' /\ SessionLife'
    BY <1>3 DEF Collect, TypeOK, SessionLife, Idle, Inside
  <2>2. \A b \in Arrays : b # a => buffers'[b] = buffers[b]
    BY <1>3 DEF Collect, TypeOK
  <2>3. ASSUME NEW t \in Threads, ~Idle(t), op[t] \in {"shared", "array"} PROVE array[t] \in Arrays \ {a}
    BY <1>3, <2>3 DEF Collect, CallsOwn, Live, Using
  <2>4. CallsOwn'
    BY <1>3, <2>2, <2>3 DEF Collect, TypeOK, CallsOwn, Idle, Live
  <2> QED BY <2>1, <2>4
<1>4. CASE CollectSession
  <2>1. TypeOK' /\ CallsOwn'
    BY <1>4 DEF CollectSession, TypeOK, CallsOwn, Idle, Live
  <2>2. SessionLife'
    BY <1>4 DEF CollectSession, TypeOK, SessionLife, Idle, Inside
  <2> QED BY <2>1, <2>2
<1> QED BY <1>1, <1>2, <1>3, <1>4 DEF Garbage

LEMMA NextInv == IInv /\ [Next]_pvars => IInv'
<1> SUFFICES ASSUME IInv, [Next]_pvars PROVE IInv' OBVIOUS
<1>1. CASE UNCHANGED pvars
  BY <1>1 DEF pvars, state, client, local, IInv, TypeOK, CallsOwn, SessionLife, Idle, Inside, Live
<1>2. CASE Next
  BY <1>2, BeginInv, LockedInv, NativeInv, GarbageInv DEF Next, Step
<1> QED BY <1>1, <1>2

LEMMA Invariance == Spec => []IInv
  BY InitInv, NextInv, PTL DEF Spec

\* Every variable keeps its type.
THEOREM TypeCorrect == Spec => []TypeOK
  BY Invariance, PTL DEF IInv

\* Arrays that the client holds or that a call uses have memory, for any
\* number of threads and arrays.
THEOREM MemoryHeld == Spec => []HeldMemoryLive
<1>1. IInv => HeldMemoryLive
  BY DEF IInv, CallsOwn, HeldMemoryLive, Inside, Idle
<1> QED BY <1>1, Invariance, PTL

\* A call that begins on a closed program never reaches the native session.
THEOREM Final == Spec => []ClosedIsFinal
<1>1. IInv => ClosedIsFinal
  BY DEF IInv, SessionLife, ClosedIsFinal, Inside
<1> QED BY <1>1, Invariance, PTL

\* The program implements ProgramPromise: one session in its life, released
\* once and not too early, and memory for every array that is held.
THEOREM Refinement == Spec => KeepsPromise
<1>1. Init => Promise!Init
  BY DEF Init, Promise!Init
<1>2. IInv /\ [Next]_pvars => [Promise!Next]_Promise!vars
  <2> SUFFICES ASSUME IInv, [Next]_pvars PROVE [Promise!Next]_Promise!vars OBVIOUS
  <2> USE DEF Promise!vars, state, client, local
  <2>1. CASE UNCHANGED pvars BY <2>1 DEF pvars
  <2>2. ASSUME NEW t \in Threads,
               \/ Run(t) \/ CloseCall(t) \/ Acquire(t) \/ Refuse(t) \/ GetSession(t) \/ CreateFails(t)
               \/ Load(t) \/ Enter(t) \/ EnterFails(t) \/ EnterStray(t) \/ CloseAgain(t) \/ MarkClosed(t)
               \/ \E a \in Arrays : RunShared(t, a) \/ SharedArray(t, a)
        PROVE  UNCHANGED Promise!vars
    BY <2>2 DEF Run, CloseCall, RunShared, SharedArray, Begin, Acquire, Refuse, GetSession, CreateFails,
                Load, Enter, EnterFails, EnterStray, CloseAgain, MarkClosed
  <2>3. ASSUME NEW t \in Threads, CreateSession(t) PROVE Promise!Open
    BY <2>3 DEF CreateSession, Promise!Open, IInv, SessionLife
  <2>4. ASSUME NEW t \in Threads, TakeSession(t) PROVE Promise!Close
    BY <2>4 DEF TakeSession, Promise!Close
  <2>5. ASSUME NEW t \in Threads, ReleaseSession(t) PROVE Promise!Release
    BY <2>5 DEF ReleaseSession, Promise!Release, IInv, SessionLife
  <2>6. ASSUME NEW t \in Threads, Leave(t) PROVE Promise!Next \/ UNCHANGED Promise!vars
    <3>1. CASE UNCHANGED <<buffers, held>>
      BY <2>6, <3>1 DEF Leave
    <3>2. CASE op[t] = "array" /\ buffers' = [buffers EXCEPT ![array[t]] = "live"] /\ held' = held \cup {array[t]}
      <4>1. array[t] \in Arrays /\ buffers[array[t]] = "absent" /\ native = "live"
        BY <2>6, <3>2 DEF Leave, Inside, Idle, IInv, CallsOwn, SessionLife
      <4>2. Promise!Allocate(array[t])
        BY <2>6, <3>2, <4>1 DEF Leave, Promise!Allocate
      <4> QED BY <4>1, <4>2 DEF Promise!Next
    <3> QED BY <2>6, <3>1, <3>2 DEF Leave
  <2>7. ASSUME NEW a \in Arrays, Drop(a) PROVE Promise!Drop(a)
    BY <2>7 DEF Drop, Promise!Drop
  <2>8. ASSUME NEW a \in Arrays, Collect(a) PROVE Promise!Free(a)
    BY <2>8 DEF Collect, Live, Promise!Free
  <2>9. CASE DropProgram
    <3>1. Promise!Forget BY <2>9 DEF DropProgram, Promise!Forget
    <3> QED BY <3>1 DEF Promise!Next
  <2>10. CASE CollectSession
    <3>1. Promise!Release BY <2>10 DEF CollectSession, Live, Promise!Release
    <3> QED BY <3>1 DEF Promise!Next
  <2>11. CASE Next
    BY <2>11, <2>2, <2>3, <2>4, <2>5, <2>6, <2>7, <2>8, <2>9, <2>10 DEF Next, Step, Garbage, Promise!Next
  <2> QED BY <2>1, <2>11
<1> QED BY <1>1, <1>2, Invariance, PTL DEF Spec, KeepsPromise, Promise!Spec

-----------------------------------------------------------------------------
(* Comprehensions: what Picked makes of a list.                            *)

\* A finite set of numbers is enumerated once, from the smallest to the
\* largest: counting what lies below a member is a bijection.
LEMMA AscendingExact ==
  ASSUME NEW S \in SUBSET Nat, IsFiniteSet(S)
  PROVE  /\ Cardinality(S) \in Nat
         /\ Ascending(S) \in [1..Cardinality(S) -> S]
         /\ \A k \in 1..Cardinality(S) : Cardinality({m \in S : m < Ascending(S)[k]}) = k - 1
         /\ \A x \in S : \E k \in 1..Cardinality(S) : Ascending(S)[k] = x
         /\ \A j, k \in 1..Cardinality(S) : Ascending(S)[j] = Ascending(S)[k] => j = k
<1> DEFINE n == Cardinality(S)
           Below(x) == {m \in S : m < x}
           rank == [x \in S |-> Cardinality(Below(x))]
<1>1. n \in Nat
  BY FS_CardinalityType
<1>2. ASSUME NEW x \in S
      PROVE  IsFiniteSet(Below(x)) /\ rank[x] \in 0..(n - 1)
  <2>1. IsFiniteSet(S \ {x}) /\ Cardinality(S \ {x}) = n - 1
    BY FS_RemoveElement
  <2>2. Below(x) \in SUBSET (S \ {x})
    OBVIOUS
  <2>3. IsFiniteSet(Below(x)) /\ Cardinality(Below(x)) <= n - 1
    BY <2>1, <2>2, FS_Subset
  <2>4. Cardinality(Below(x)) \in Nat
    BY <2>3, FS_CardinalityType
  <2> QED BY <1>1, <2>3, <2>4
<1>3. ASSUME NEW x \in S, NEW y \in S, x < y
      PROVE  rank[x] < rank[y]
  <2>1. /\ IsFiniteSet(Below(x) \cup {x})
        /\ Cardinality(Below(x) \cup {x}) = Cardinality(Below(x)) + 1
    <3>1. x \notin Below(x)
      OBVIOUS
    <3> QED BY <1>2, <3>1, FS_AddElement
  <2>2. Below(x) \cup {x} \in SUBSET Below(y)
    <3>1. ASSUME NEW m \in S, m < x \/ m = x PROVE m < y
      <4>1. m \in Int /\ x \in Int /\ y \in Int
        OBVIOUS
      <4> QED BY <1>3, <3>1, <4>1
    <3>2. \A m \in Below(x) \cup {x} : m \in S /\ (m < x \/ m = x)
      OBVIOUS
    <3> QED BY <3>1, <3>2
  <2>3. Cardinality(Below(x) \cup {x}) <= Cardinality(Below(y))
    BY <1>2, <2>2, FS_Subset
  <2>4. rank[x] = Cardinality(Below(x)) /\ rank[y] = Cardinality(Below(y))
    OBVIOUS
  <2>5. rank[x] \in Int /\ rank[y] \in Int
    BY <1>1, <1>2
  <2> HIDE DEF rank, Below
  <2> QED BY <2>1, <2>3, <2>4, <2>5
<1>4. rank \in Injection(S, 0..(n - 1))
  <2>1. rank \in [S -> 0..(n - 1)]
    BY <1>2
  <2>2. ASSUME NEW x \in S, NEW y \in S, rank[x] = rank[y] PROVE x = y
    <3>1. rank[x] \in Int
      BY <1>1, <1>2
    <3>2. x \in Int /\ y \in Int
      OBVIOUS
    <3>3. ~(x < y) /\ ~(y < x)
      BY <1>3, <2>2, <3>1
    <3> QED BY <3>2, <3>3
  <2> HIDE DEF rank
  <2> QED BY <2>1, <2>2 DEF Injection, IsInjective
<1>5. IsFiniteSet(0..(n - 1)) /\ Cardinality(0..(n - 1)) = n
  <2>1. 0 \in Int /\ n - 1 \in Int
    BY <1>1
  <2> HIDE DEF n
  <2>2. IsFiniteSet(0..(n - 1)) /\ Cardinality(0..(n - 1)) = IF 0 > n - 1 THEN 0 ELSE n - 1 - 0 + 1
    BY <2>1, FS_Interval
  <2> QED BY <1>1, <2>2
<1>6. rank \in Surjection(S, 0..(n - 1))
  <2> HIDE DEF rank
  <2> QED BY <1>4, <1>5, FS_Injection
<1>7. ASSUME NEW k \in 1..n
      PROVE  Ascending(S)[k] \in S /\ rank[Ascending(S)[k]] = k - 1
  <2>1. k - 1 \in 0..(n - 1)
    BY <1>1
  <2>2. \E x \in S : rank[x] = k - 1
    <3> HIDE DEF rank
    <3> QED BY <1>6, <2>1 DEF Surjection
  <2>3. \E x \in S : Cardinality({m \in S : m < x}) = k - 1
    BY <2>2
  <2>4. Ascending(S)[k] = CHOOSE x \in S : Cardinality({m \in S : m < x}) = k - 1
    BY DEF Ascending
  <2> QED BY <2>3, <2>4
<1>8. Ascending(S) \in [1..n -> S]
  BY <1>7 DEF Ascending
<1>9. ASSUME NEW x \in S PROVE \E k \in 1..n : Ascending(S)[k] = x
  <2> DEFINE k == rank[x] + 1
  <2>1. k \in 1..n
    BY <1>1, <1>2
  <2>2. rank[Ascending(S)[k]] = rank[x] /\ Ascending(S)[k] \in S
    <3>1. rank[x] \in Int BY <1>1, <1>2
    <3>2. rank[Ascending(S)[k]] = k - 1 /\ Ascending(S)[k] \in S BY <1>7, <2>1
    <3> HIDE DEF rank
    <3> QED BY <3>1, <3>2
  <2>3. Ascending(S)[k] = x
    <3> HIDE DEF rank, k
    <3> QED BY <1>4, <2>2 DEF Injection, IsInjective
  <2> QED BY <2>1, <2>3
<1>10. ASSUME NEW j \in 1..n, NEW k \in 1..n, Ascending(S)[j] = Ascending(S)[k] PROVE j = k
  <2>1. j - 1 = k - 1
    <3> HIDE DEF rank
    <3> QED BY <1>7, <1>10
  <2> QED BY <2>1
<1>11. ASSUME NEW k \in 1..n PROVE Cardinality({m \in S : m < Ascending(S)[k]}) = k - 1
  BY <1>7
<1> QED BY <1>1, <1>8, <1>9, <1>10, <1>11

\* The indices that are picked are enumerated by Ascending.
LEMMA PickedExact ==
  ASSUME NEW S, NEW list \in Seq(S), NEW I \in SUBSET (DOMAIN list)
  PROVE  /\ Cardinality(I) \in Nat
         /\ Picked(list, I) \in Seq(S) /\ Len(Picked(list, I)) = Cardinality(I)
         /\ DOMAIN Picked(list, I) = 1..Cardinality(I)
         /\ Ascending(I) \in [1..Cardinality(I) -> I]
         /\ \A k \in 1..Cardinality(I) : Picked(list, I)[k] = list[Ascending(I)[k]]
         /\ \A i \in I : \E k \in 1..Cardinality(I) : Ascending(I)[k] = i
         /\ \A j, k \in 1..Cardinality(I) : Ascending(I)[j] = Ascending(I)[k] => j = k
         /\ \A k \in 1..Cardinality(I) : Cardinality({m \in I : m < Ascending(I)[k]}) = k - 1
<1>1. I \in SUBSET Nat /\ IsFiniteSet(I)
  <2>1. DOMAIN list = 1..Len(list) /\ Len(list) \in Nat
    BY LenProperties
  <2>2. IsFiniteSet(1..Len(list))
    BY <2>1, FS_Interval
  <2> QED BY <2>1, <2>2, FS_Subset
<1>2. /\ Cardinality(I) \in Nat
      /\ Ascending(I) \in [1..Cardinality(I) -> I]
      /\ \A i \in I : \E k \in 1..Cardinality(I) : Ascending(I)[k] = i
      /\ \A j, k \in 1..Cardinality(I) : Ascending(I)[j] = Ascending(I)[k] => j = k
      /\ \A k \in 1..Cardinality(I) : Cardinality({m \in I : m < Ascending(I)[k]}) = k - 1
  BY <1>1, AscendingExact
<1>3. Picked(list, I) = [k \in 1..Cardinality(I) |-> list[Ascending(I)[k]]]
  <2>1. DOMAIN Ascending(I) = 1..Cardinality(I)
    BY <1>2
  <2> QED BY <2>1 DEF Picked
<1>4. \A k \in 1..Cardinality(I) : list[Ascending(I)[k]] \in S
  <2>1. \A i \in DOMAIN list : list[i] \in S
    BY LenProperties, ElementOfSeq
  <2> QED BY <1>2, <2>1
<1>5. Picked(list, I) \in Seq(S) /\ Len(Picked(list, I)) = Cardinality(I)
  BY <1>2, <1>3, <1>4
<1> QED BY <1>2, <1>3, <1>5

LEMMA PickedRange ==
  ASSUME NEW S, NEW list \in Seq(S), NEW I \in SUBSET (DOMAIN list)
  PROVE  Picked(list, I) \in Seq(S) /\ Range(Picked(list, I)) = {list[i] : i \in I}
<1>1. /\ Picked(list, I) \in Seq(S)
      /\ DOMAIN Picked(list, I) = 1..Cardinality(I)
      /\ Ascending(I) \in [1..Cardinality(I) -> I]
      /\ \A k \in 1..Cardinality(I) : Picked(list, I)[k] = list[Ascending(I)[k]]
      /\ \A i \in I : \E k \in 1..Cardinality(I) : Ascending(I)[k] = i
  BY PickedExact
<1>2. Range(Picked(list, I)) = {Picked(list, I)[k] : k \in 1..Cardinality(I)}
  BY <1>1 DEF Range
<1> QED BY <1>1, <1>2

\* Values that are picked at different indices stay apart if they differ.
LEMMA PickedInjective ==
  ASSUME NEW S, NEW list \in Seq(S), NEW I \in SUBSET (DOMAIN list),
         \A i, j \in I : list[i] = list[j] => i = j
  PROVE  IsInjective(Picked(list, I))
<1>1. /\ DOMAIN Picked(list, I) = 1..Cardinality(I)
      /\ Ascending(I) \in [1..Cardinality(I) -> I]
      /\ \A k \in 1..Cardinality(I) : Picked(list, I)[k] = list[Ascending(I)[k]]
      /\ \A j, k \in 1..Cardinality(I) : Ascending(I)[j] = Ascending(I)[k] => j = k
  BY PickedExact
<1> QED BY <1>1 DEF IsInjective

-----------------------------------------------------------------------------
(* ByteTrack: the lists of the tracker.                                    *)

\* The indices that hold given values are picked once per value.
LEMMA PickedSubset ==
  ASSUME NEW S, NEW list \in Seq(S), NEW I \in SUBSET (DOMAIN list)
  PROVE  /\ Picked(list, I) \in Seq(S)
         /\ Range(Picked(list, I)) = {list[i] : i \in I}
         /\ Range(Picked(list, I)) \subseteq Range(list)
         /\ IsInjective(list) => IsInjective(Picked(list, I))
<1>1. Picked(list, I) \in Seq(S) /\ Range(Picked(list, I)) = {list[i] : i \in I}
  BY PickedRange
<1>2. {list[i] : i \in I} \subseteq Range(list)
  BY DEF Range
<1>3. IsInjective(list) => IsInjective(Picked(list, I))
  <2> SUFFICES ASSUME IsInjective(list) PROVE IsInjective(Picked(list, I))
    OBVIOUS
  <2>1. \A i, j \in I : list[i] = list[j] => i = j
    BY DEF IsInjective
  <2> QED BY <2>1, PickedInjective
<1> QED BY <1>1, <1>2, <1>3

\* A set of natural numbers has a least member.
LEMMA LeastOf ==
  ASSUME NEW T \in SUBSET Nat, T # {}
  PROVE  \E x \in T : \A y \in T : x <= y
<1> DEFINE Less == {ss \in Nat \X Nat : ss[1] < ss[2]}
<1>1. IsWellFoundedOn(Less, Nat)
  BY NatLessThanWellFounded DEF OpToRel
<1>2. \A a, b \in Nat : a < b => <<a, b>> \in Less
  OBVIOUS
<1> HIDE DEF Less
<1>3. PICK x \in T : \A y \in T : ~(<<y, x>> \in Less)
  BY <1>1, WFMin
<1>4. ASSUME NEW y \in T PROVE x <= y
  <2>1. x \in Nat /\ y \in Nat
    OBVIOUS
  <2>2. ~(y < x)
    BY <1>2, <1>3, <2>1, Zenon
  <2> QED BY <2>1, <2>2
<1> QED BY <1>4

-----------------------------------------------------------------------------
(* ByteTrack: the lists of an update.                                      *)

\* _join: every member of either list, once.
LEMMA JoinExact ==
  ASSUME NEW S, NEW first \in Seq(S), NEW second \in Seq(S)
  PROVE  /\ Join(first, second) \in Seq(S)
         /\ Range(Join(first, second)) = Range(first) \cup Range(second)
         /\ IsInjective(Join(first, second))
<1> DEFINE all == first \o second
           I == {k \in DOMAIN all : \A j \in 1..(k - 1) : all[j] # all[k]}
<1>1. all \in Seq(S) /\ Range(all) = Range(first) \cup Range(second)
  BY ConcatProperties, RangeConcatenation
<1>2. DOMAIN all = 1..Len(all) /\ Len(all) \in Nat
  BY <1>1, LenProperties
<1>3. Join(first, second) = Picked(all, I)
  BY DEF Join
<1> HIDE DEF all
<1>4. Picked(all, I) \in Seq(S) /\ Range(Picked(all, I)) = {all[i] : i \in I}
  BY <1>1, PickedRange
<1>5. \A i, j \in I : all[i] = all[j] => i = j
  <2> SUFFICES ASSUME NEW i \in I, NEW j \in I, all[i] = all[j], i # j PROVE FALSE
    OBVIOUS
  <2>1. i \in 1..(j - 1) \/ j \in 1..(i - 1)
    BY <1>2
  <2> QED BY <2>1
<1>6. IsInjective(Picked(all, I))
  BY <1>1, <1>5, PickedInjective
<1>7. ASSUME NEW k \in DOMAIN all PROVE \E i \in I : all[i] = all[k]
  <2> DEFINE T == {j \in DOMAIN all : all[j] = all[k]}
  <2>1. T \in SUBSET Nat /\ T # {}
    BY <1>2
  <2>2. PICK x \in T : \A y \in T : x <= y
    BY <2>1, LeastOf
  <2>3. \A j \in 1..(x - 1) : all[j] # all[x]
    <3> SUFFICES ASSUME NEW j \in 1..(x - 1), all[j] = all[x] PROVE FALSE
      OBVIOUS
    <3>1. j \in T /\ j \in Int /\ x \in Int /\ ~(x <= j)
      BY <1>2
    <3> QED BY <2>2, <3>1
  <2> QED BY <2>3
<1>8. {all[i] : i \in I} = Range(all)
  BY <1>7 DEF Range
<1> QED BY <1>1, <1>3, <1>4, <1>6, <1>8

\* _subtract: the members of the first list that are not in the second.
LEMMA SubtractExact ==
  ASSUME NEW S, NEW first \in Seq(S), NEW second
  PROVE  /\ Subtract(first, second) \in Seq(S)
         /\ Range(Subtract(first, second)) = Range(first) \ Range(second)
<1> DEFINE I == {k \in DOMAIN first : first[k] \notin Range(second)}
<1>1. Subtract(first, second) = Picked(first, I)
  BY DEF Subtract
<1>2. Picked(first, I) \in Seq(S) /\ Range(Picked(first, I)) = {first[i] : i \in I}
  BY PickedRange
<1>3. {first[i] : i \in I} = Range(first) \ Range(second)
  BY DEF Range
<1> QED BY <1>1, <1>2, <1>3

\* An assignment parts the rows into matched and unmatched ones.
LEMMA RowsParted ==
  ASSUME NEW S, NEW rows \in Seq(S), NEW m
  PROVE  /\ MatchedRows(rows, m) \in Seq(S) /\ UnmatchedRows(rows, m) \in Seq(S)
         /\ Range(MatchedRows(rows, m)) \cup Range(UnmatchedRows(rows, m)) = Range(rows)
         /\ IsInjective(rows) => /\ Range(MatchedRows(rows, m)) \cap Range(UnmatchedRows(rows, m)) = {}
                                 /\ IsInjective(MatchedRows(rows, m)) /\ IsInjective(UnmatchedRows(rows, m))
<1> DEFINE I == {k \in DOMAIN rows : m[k] # 0}
           J == {k \in DOMAIN rows : m[k] = 0}
<1>1. MatchedRows(rows, m) = Picked(rows, I) /\ UnmatchedRows(rows, m) = Picked(rows, J)
  BY DEF MatchedRows, UnmatchedRows
<1>2. /\ Picked(rows, I) \in Seq(S) /\ Range(Picked(rows, I)) = {rows[i] : i \in I}
      /\ IsInjective(rows) => IsInjective(Picked(rows, I))
  BY PickedSubset
<1>3. /\ Picked(rows, J) \in Seq(S) /\ Range(Picked(rows, J)) = {rows[i] : i \in J}
      /\ IsInjective(rows) => IsInjective(Picked(rows, J))
  BY PickedSubset
<1>4. {rows[i] : i \in I} \cup {rows[i] : i \in J} = Range(rows)
  BY DEF Range
<1>5. IsInjective(rows) => {rows[i] : i \in I} \cap {rows[i] : i \in J} = {}
  BY DEF IsInjective
<1> QED BY <1>1, <1>2, <1>3, <1>4, <1>5

\* The tracks of a list in a state.
LEMMA WithStateExact ==
  ASSUME NEW S, NEW ids \in Seq(S), NEW all, NEW st
  PROVE  /\ WithState(all, ids, st) \in Seq(S)
         /\ Range(WithState(all, ids, st)) = {id \in Range(ids) : all[id].state = st}
         /\ IsInjective(ids) => IsInjective(WithState(all, ids, st))
<1> DEFINE I == {k \in DOMAIN ids : all[ids[k]].state = st}
<1>1. WithState(all, ids, st) = Picked(ids, I)
  BY DEF WithState
<1>2. /\ Picked(ids, I) \in Seq(S) /\ Range(Picked(ids, I)) = {ids[i] : i \in I}
      /\ IsInjective(ids) => IsInjective(Picked(ids, I))
  BY PickedSubset
<1>3. {ids[i] : i \in I} = {id \in Range(ids) : all[id].state = st}
  BY DEF Range
<1> QED BY <1>1, <1>2, <1>3

\* Tracks are changed in place: the others stay what they are.
Track == [state : {"TRACKED", "LOST", "REMOVED"}, activated : BOOLEAN, frame : Nat, start : Nat]

LEMMA SetStateExact ==
  ASSUME NEW all \in Seq(Track), NEW ids, NEW st \in {"TRACKED", "LOST", "REMOVED"}
  PROVE  /\ SetState(all, ids, st) \in Seq(Track)
         /\ Len(SetState(all, ids, st)) = Len(all) /\ DOMAIN SetState(all, ids, st) = DOMAIN all
         /\ \A id \in DOMAIN all :
              /\ id \in Range(ids) => /\ SetState(all, ids, st)[id].state = st
                                      /\ SetState(all, ids, st)[id].frame = all[id].frame
              /\ id \notin Range(ids) => SetState(all, ids, st)[id] = all[id]
<1>1. DOMAIN all = 1..Len(all) /\ Len(all) \in Nat /\ \A id \in DOMAIN all : all[id] \in Track
  BY LenProperties, ElementOfSeq
<1>2. SetState(all, ids, st) = [id \in DOMAIN all |-> IF id \in Range(ids) THEN [all[id] EXCEPT !.state = st] ELSE all[id]]
  BY DEF SetState, Marked
<1>3. \A id \in DOMAIN all : [all[id] EXCEPT !.state = st] \in Track
  BY <1>1 DEF Track
<1>4. \A id \in DOMAIN all : /\ [all[id] EXCEPT !.state = st].state = st
                             /\ [all[id] EXCEPT !.state = st].frame = all[id].frame
  BY <1>1 DEF Track
<1> HIDE DEF Track
<1> QED BY <1>1, <1>2, <1>3, <1>4

LEMMA ConsumedExact ==
  ASSUME NEW all \in Seq(Track), NEW ids, NEW now \in Nat
  PROVE  /\ Consumed(all, ids, now) \in Seq(Track)
         /\ DOMAIN Consumed(all, ids, now) = DOMAIN all
         /\ \A id \in DOMAIN all :
              /\ id \in Range(ids) => /\ Consumed(all, ids, now)[id].state = "TRACKED"
                                      /\ Consumed(all, ids, now)[id].frame = now
              /\ id \notin Range(ids) => Consumed(all, ids, now)[id] = all[id]
<1>1. DOMAIN all = 1..Len(all) /\ Len(all) \in Nat /\ \A id \in DOMAIN all : all[id] \in Track
  BY LenProperties, ElementOfSeq
<1>2. \A id \in DOMAIN all : /\ Consume(all[id], now) \in Track
                             /\ Consume(all[id], now).state = "TRACKED" /\ Consume(all[id], now).frame = now
  BY <1>1 DEF Track, Consume
<1>3. Consumed(all, ids, now) = [id \in DOMAIN all |-> IF id \in Range(ids) THEN Consume(all[id], now) ELSE all[id]]
  BY DEF Consumed, Marked
<1> QED BY <1>1, <1>2, <1>3

\* What holds of the lists whether or not the last update raised.
TrackTypes ==
  /\ frame \in Nat /\ tracks \in Seq(Track) /\ raised \in BOOLEAN
  /\ tracked \in Seq(Nat) /\ lost \in Seq(Nat) /\ removed \in Seq(Nat)
  /\ Range(tracked) \cup Range(lost) \cup Range(removed) \subseteq DOMAIN tracks

ListsApart ==
  /\ IsInjective(tracked)
  /\ Range(tracked) \cap Range(lost) = {}
  /\ (Range(tracked) \cup Range(lost)) \cap Range(removed) = {}
  /\ \A id \in Range(lost) : tracks[id].state \in {"TRACKED", "LOST"}

\* After an update that returned, the list says the state.
ListsState ==
  /\ \A id \in Range(tracked) : tracks[id].state = "TRACKED"
  /\ \A id \in Range(lost) : tracks[id].state = "LOST"

TrackInv == TrackTypes /\ ListsApart /\ (~raised => ListsState)

\* What the three assignments have done when the lists are made anew: the
\* tracks that were used are tracked as of now, those that are newly lost are
\* lost, the unmatched ones never were confirmed, all others are as they were,
\* and a track of the lost list that was left alone is in the state LOST.
Assigned(now, all, activated, refound, newlyLost, unmatched) ==
  LET used == Range(activated) \cup Range(refound)
      away == Range(newlyLost)
      dropped == Range(unmatched)
  IN /\ activated \in Seq(Nat) /\ refound \in Seq(Nat) /\ newlyLost \in Seq(Nat) /\ unmatched \in Seq(Nat)
     /\ all \in Seq(Track) /\ Len(all) = Len(tracks)
     /\ used \cup away \subseteq Range(tracked) \cup Range(lost)
     /\ dropped \subseteq {id \in Range(tracked) : ~tracks[id].activated}
     /\ used \cap away = {} /\ used \cap dropped = {} /\ away \cap dropped = {}
     /\ \A id \in used : all[id].state = "TRACKED" /\ all[id].frame = now
     /\ \A id \in away : all[id].state = "LOST" /\ all[id].frame = tracks[id].frame
     /\ \A id \in DOMAIN tracks \ (used \cup away) : all[id] = tracks[id]
     /\ \A id \in Range(lost) \ (used \cup away) : tracks[id].state # "TRACKED"

\* The three parts of a step that made the lists anew.
Renewed(all, gone, still, away, new) ==
  /\ all \in Seq(Track) /\ DOMAIN tracks \subseteq DOMAIN all
  /\ still \in Seq(Nat) /\ away \in Seq(Nat) /\ gone \in Seq(Nat)
  /\ IsInjective(still)
  /\ new \cap DOMAIN tracks = {}
  /\ Range(still) \subseteq Range(tracked) \cup Range(lost) \cup new
  /\ Range(away) \subseteq Range(tracked) \cup Range(lost)
  /\ Range(gone) \subseteq Range(tracked) \cup Range(lost)
  /\ Range(still) \cup Range(away) \cup Range(gone) \subseteq DOMAIN all
  /\ \A id \in Range(still) : all[id].state = "TRACKED"
  /\ \A id \in Range(away) : all[id].state = "LOST"
  /\ \A id \in Range(gone) : all[id].state = "REMOVED"

\* The last assignments of such a step.
NewLists(now, all, gone, still, away, overlap) ==
  LET both == RemoveDuplicates(all, still, away, overlap)
  IN /\ frame' = now /\ tracks' = all /\ raised' = FALSE
     /\ tracked' = both[1] /\ lost' = both[2] /\ removed' = removed \o gone

\* What becomes of every track.
Remade(now, all, used, newlyLost, unmatched) ==
  \E final, gone, still, away, new, overlap :
    /\ Renewed(final, gone, still, away, new)
    /\ NewLists(now, final, gone, still, away, overlap)
    /\ duplicates' = (Range(still) \ Range(tracked')) \cup (Range(away) \ Range(lost'))
    /\ Range(gone) = Range(unmatched) \cup {id \in Range(lost) : now - all[id].frame > MaxTimeLost}
    /\ used \subseteq Range(still)
    /\ {id \in Range(tracked) \ Range(gone) : all[id].state = "TRACKED"} \subseteq Range(still)
    /\ (Range(lost) \cup Range(newlyLost)) \ Range(gone) \subseteq Range(still) \cup Range(away)

\* The lists that follow.
LEMMA RenewedInv ==
  ASSUME TrackInv, NEW now \in Nat, NEW all, NEW gone, NEW still, NEW away, NEW new,
         Renewed(all, gone, still, away, new),
         NEW overlap,
         NewLists(now, all, gone, still, away, overlap)
  PROVE  /\ TrackInv'
         /\ Range(tracked') \subseteq Range(still) /\ Range(lost') \subseteq Range(away)
         /\ Range(removed') = Range(removed) \cup Range(gone)
<1> DEFINE older == {p \in overlap : Age(all, p[1]) > Age(all, p[2])}
           I == {k \in DOMAIN still : \A p \in overlap \ older : p[1] # still[k]}
           J == {k \in DOMAIN away : \A p \in older : p[2] # away[k]}
<1>1. tracked' = Picked(still, I) /\ lost' = Picked(away, J)
  BY DEF NewLists, RemoveDuplicates
<1>2. /\ tracked' \in Seq(Nat) /\ Range(tracked') \subseteq Range(still) /\ IsInjective(tracked')
      /\ lost' \in Seq(Nat) /\ Range(lost') \subseteq Range(away)
  <2>1. still \in Seq(Nat) /\ away \in Seq(Nat) /\ IsInjective(still)
    BY DEF Renewed
  <2>2. I \in SUBSET (DOMAIN still) /\ J \in SUBSET (DOMAIN away)
    OBVIOUS
  <2> HIDE DEF I, J
  <2>3. /\ Picked(still, I) \in Seq(Nat) /\ Range(Picked(still, I)) \subseteq Range(still)
        /\ IsInjective(Picked(still, I))
    BY <2>1, <2>2, PickedSubset
  <2>4. Picked(away, J) \in Seq(Nat) /\ Range(Picked(away, J)) \subseteq Range(away)
    BY <2>1, <2>2, PickedSubset
  <2> QED BY <1>1, <2>3, <2>4
<1>3. removed' \in Seq(Nat) /\ Range(removed') = Range(removed) \cup Range(gone)
  <2>1. removed \in Seq(Nat) /\ gone \in Seq(Nat) /\ removed' = removed \o gone
    BY DEF TrackInv, TrackTypes, Renewed, NewLists
  <2> QED BY <2>1, ConcatProperties, RangeConcatenation
<1>4. TrackTypes'
  BY <1>2, <1>3 DEF TrackInv, TrackTypes, Renewed, NewLists
<1>5. ListsState'
  BY <1>2 DEF ListsState, Renewed, NewLists
<1>6. ListsApart'
  <2>1. Range(tracked') \cap Range(lost') = {}
    <3>1. Range(still) \cap Range(away) = {}
      BY DEF Renewed
    <3> QED BY <1>2, <3>1
  <2>2. (Range(still) \cup Range(away)) \cap Range(gone) = {}
    BY DEF Renewed
  <2>3. (Range(still) \cup Range(away)) \cap Range(removed) = {}
    BY DEF Renewed, TrackInv, TrackTypes, ListsApart
  <2> QED BY <1>2, <1>3, <1>5, <2>1, <2>2, <2>3 DEF ListsApart, ListsState, NewLists
<1> QED BY <1>2, <1>3, <1>4, <1>5, <1>6 DEF TrackInv

\* The end of an update makes such lists.
LEMMA FinishRenews ==
  ASSUME TrackInv, NEW now \in Nat, NEW all, NEW activated, NEW refound, NEW newlyLost, NEW unmatched,
         NEW started \in Nat,
         Assigned(now, all, activated, refound, newlyLost, unmatched),
         Finish(now, all, activated, refound, newlyLost, unmatched, started)
  PROVE  Remade(now, all, Range(activated) \cup Range(refound), newlyLost, unmatched)
<1> DEFINE fresh == [k \in 1..started |-> Len(all) + k]
           everyone == all \o [k \in 1..started |-> NewTrack(now)]
           expired == Expired(all, now)
           gone == unmatched \o expired
           final == SetState(everyone, gone, "REMOVED")
           kept == WithState(final, tracked, "TRACKED")
           still == Join(Join(kept, activated \o fresh), refound)
           away == Away(still, newlyLost, gone)
           used == Range(activated) \cup Range(refound)
<1>1. PICK overlap \in Overlaps(still, away) :
        /\ NewLists(now, final, gone, still, away, overlap)
        /\ duplicates' = (Range(still) \ Range(tracked')) \cup (Range(away) \ Range(lost'))
  BY DEF Finish, NewLists
<1>2. /\ activated \in Seq(Nat) /\ refound \in Seq(Nat) /\ newlyLost \in Seq(Nat) /\ unmatched \in Seq(Nat)
      /\ all \in Seq(Track) /\ Len(all) = Len(tracks)
  BY DEF Assigned
<1>3. /\ tracked \in Seq(Nat) /\ lost \in Seq(Nat) /\ tracks \in Seq(Track)
      /\ Range(tracked) \cup Range(lost) \subseteq DOMAIN tracks
  BY DEF TrackInv, TrackTypes
<1>4. /\ Len(all) \in Nat /\ DOMAIN all = 1..Len(all) /\ DOMAIN tracks = DOMAIN all
      /\ \A id \in DOMAIN all : all[id] \in Track
  BY <1>2, <1>3, LenProperties, ElementOfSeq
<1>5. fresh \in Seq(Nat) /\ Range(fresh) = (Len(all) + 1)..(Len(all) + started)
  <2>1. fresh \in Seq(Nat)
    BY <1>4
  <2>2. Range(fresh) = {Len(all) + k : k \in 1..started}
    BY DEF Range
  <2>3. ASSUME NEW id \in (Len(all) + 1)..(Len(all) + started) PROVE \E k \in 1..started : id = Len(all) + k
    <3>1. id - Len(all) \in 1..started /\ id = Len(all) + (id - Len(all))
      BY <1>4
    <3> QED BY <3>1
  <2>4. ASSUME NEW k \in 1..started PROVE Len(all) + k \in (Len(all) + 1)..(Len(all) + started)
    BY <1>4
  <2> HIDE DEF fresh
  <2> QED BY <2>1, <2>2, <2>3, <2>4
<1>6. /\ everyone \in Seq(Track) /\ Len(everyone) = Len(all) + started
      /\ \A id \in DOMAIN all : everyone[id] = all[id]
      /\ \A id \in Range(fresh) : everyone[id].state = "TRACKED"
  <2> DEFINE added == [k \in 1..started |-> NewTrack(now)]
  <2>1. NewTrack(now) \in Track /\ NewTrack(now).state = "TRACKED"
    BY DEF NewTrack, Track
  <2>2. added \in Seq(Track) /\ Len(added) = started
    BY <2>1
  <2>3. /\ all \o added \in Seq(Track) /\ Len(all \o added) = Len(all) + Len(added)
        /\ \A i \in 1..(Len(all) + Len(added)) :
             (all \o added)[i] = IF i <= Len(all) THEN all[i] ELSE added[i - Len(all)]
    <3> HIDE DEF added
    <3> QED BY <1>2, <2>2, ConcatProperties
  <2>4. ASSUME NEW id \in Range(fresh) PROVE (all \o added)[id] = NewTrack(now)
    <3>1. id \in (Len(all) + 1)..(Len(all) + started) /\ id - Len(all) \in 1..started
      BY <1>4, <1>5
    <3>2. (all \o added)[id] = added[id - Len(all)]
      <4> HIDE DEF added, fresh
      <4> QED BY <1>4, <2>2, <2>3, <3>1
    <3> QED BY <3>1, <3>2
  <2>5. ASSUME NEW id \in DOMAIN all PROVE (all \o added)[id] = all[id]
    <3> HIDE DEF added
    <3> QED BY <1>4, <2>2, <2>3
  <2> QED BY <2>1, <2>2, <2>3, <2>4, <2>5
<1> HIDE DEF fresh, everyone
<1>7. expired \in Seq(Nat) /\ Range(expired) = {id \in Range(lost) : now - all[id].frame > MaxTimeLost}
  <2> DEFINE I == {k \in DOMAIN lost : now - all[lost[k]].frame > MaxTimeLost}
  <2>1. expired = Picked(lost, I)
    BY DEF Expired
  <2>2. Picked(lost, I) \in Seq(Nat) /\ Range(Picked(lost, I)) = {lost[i] : i \in I}
    BY <1>3, PickedRange
  <2>3. {lost[i] : i \in I} = {id \in Range(lost) : now - all[id].frame > MaxTimeLost}
    BY DEF Range
  <2> QED BY <2>1, <2>2, <2>3
<1> HIDE DEF expired
<1>8. gone \in Seq(Nat) /\ Range(gone) = Range(unmatched) \cup Range(expired)
  BY <1>2, <1>7, ConcatProperties, RangeConcatenation
<1>9. used \cap Range(gone) = {}
  <2>1. used \cap Range(unmatched) = {} /\ \A id \in used : all[id].frame = now
    BY DEF Assigned
  <2>2. now - now = 0 /\ ~(0 > MaxTimeLost)
    BY ByteTrackAssumption
  <2>3. \A id \in used : id \notin Range(expired)
    BY <1>7, <2>1, <2>2
  <2> QED BY <1>8, <2>1, <2>3
<1> HIDE DEF gone
<1>10. /\ final \in Seq(Track) /\ DOMAIN final = DOMAIN everyone
       /\ \A id \in DOMAIN everyone :
            /\ id \in Range(gone) => final[id].state = "REMOVED"
            /\ id \notin Range(gone) => final[id] = everyone[id]
  <2>1. everyone \in Seq(Track)
    BY <1>6
  <2>2. final \in Seq(Track)
    BY <2>1, SetStateExact
  <2>3. DOMAIN final = DOMAIN everyone
    BY <2>1, SetStateExact
  <2>4. \A id \in DOMAIN everyone : id \in Range(gone) => final[id].state = "REMOVED"
    BY <2>1, SetStateExact
  <2>5. \A id \in DOMAIN everyone : id \notin Range(gone) => final[id] = everyone[id]
    BY <2>1, SetStateExact
  <2> HIDE DEF final
  <2> QED BY <2>2, <2>3, <2>4, <2>5
<1>11. DOMAIN everyone = 1..(Len(all) + started) /\ DOMAIN tracks \subseteq DOMAIN everyone
       /\ Range(fresh) \subseteq DOMAIN everyone /\ Range(fresh) \cap DOMAIN tracks = {}
  <2>1. DOMAIN everyone = 1..(Len(all) + started)
    BY <1>6, LenProperties
  <2> QED BY <1>4, <1>5, <2>1
<1> HIDE DEF final
<1>12. kept \in Seq(Nat) /\ Range(kept) = {id \in Range(tracked) : final[id].state = "TRACKED"}
  BY <1>3, WithStateExact
<1> HIDE DEF kept
<1>13. /\ still \in Seq(Nat) /\ IsInjective(still)
       /\ Range(still) = Range(kept) \cup used \cup Range(fresh)
  <2>1. activated \o fresh \in Seq(Nat) /\ Range(activated \o fresh) = Range(activated) \cup Range(fresh)
    BY <1>2, <1>5, ConcatProperties, RangeConcatenation
  <2>2. /\ Join(kept, activated \o fresh) \in Seq(Nat)
        /\ Range(Join(kept, activated \o fresh)) = Range(kept) \cup Range(activated \o fresh)
    <3>1. kept \in Seq(Nat) /\ activated \o fresh \in Seq(Nat)
      BY <1>12, <2>1
    <3> QED BY <3>1, JoinExact, Zenon
  <2>3. /\ still \in Seq(Nat) /\ IsInjective(still)
        /\ Range(still) = Range(Join(kept, activated \o fresh)) \cup Range(refound)
    BY <1>2, <2>2, JoinExact
  <2> QED BY <2>1, <2>2, <2>3
<1> HIDE DEF still
<1>14. away \in Seq(Nat) /\ Range(away) = ((Range(lost) \ Range(still)) \cup Range(newlyLost)) \ Range(gone)
  <2>1. Subtract(lost, still) \in Seq(Nat) /\ Range(Subtract(lost, still)) = Range(lost) \ Range(still)
    BY <1>3, SubtractExact
  <2>2. /\ Subtract(lost, still) \o newlyLost \in Seq(Nat)
        /\ Range(Subtract(lost, still) \o newlyLost) = (Range(lost) \ Range(still)) \cup Range(newlyLost)
    BY <1>2, <2>1, ConcatProperties, RangeConcatenation
  <2>3. away = Subtract(Subtract(lost, still) \o newlyLost, gone)
    BY DEF Away
  <2>4. /\ Subtract(Subtract(lost, still) \o newlyLost, gone) \in Seq(Nat)
        /\ Range(Subtract(Subtract(lost, still) \o newlyLost, gone))
             = Range(Subtract(lost, still) \o newlyLost) \ Range(gone)
    <3>1. Subtract(lost, still) \o newlyLost \in Seq(Nat)
      BY <2>2
    <3> QED BY <3>1, SubtractExact, Zenon
  <2> QED BY <2>2, <2>3, <2>4
<1> HIDE DEF away
<1>15. Range(gone) \subseteq Range(tracked) \cup Range(lost)
  BY <1>7, <1>8 DEF Assigned
<1>16. \A id \in DOMAIN tracks \ Range(gone) : final[id] = all[id]
  BY <1>4, <1>6, <1>10, <1>11
<1>17. ASSUME NEW id \in Range(still) PROVE id \in DOMAIN everyone /\ final[id].state = "TRACKED"
  <2>1. CASE id \in Range(kept)
    BY <1>3, <1>11, <1>12, <2>1
  <2>2. CASE id \in used
    <3>1. id \in DOMAIN tracks /\ all[id].state = "TRACKED"
      BY <1>3, <2>2 DEF Assigned
    <3> QED BY <1>9, <1>11, <1>16, <2>2, <3>1
  <2>3. CASE id \in Range(fresh)
    <3>1. id \in DOMAIN everyone /\ id \notin Range(gone)
      BY <1>3, <1>11, <1>15, <2>3
    <3> QED BY <1>6, <1>10, <2>3, <3>1
  <2> QED BY <1>13, <2>1, <2>2, <2>3
<1>18. ASSUME NEW id \in Range(away) PROVE id \in Range(tracked) \cup Range(lost) /\ final[id].state = "LOST"
  <2>1. id \in Range(tracked) \cup Range(lost) /\ id \notin Range(gone)
    BY <1>14 DEF Assigned
  <2>2. final[id] = all[id]
    BY <1>3, <1>16, <2>1
  <2>3. CASE id \in Range(newlyLost)
    BY <2>1, <2>2, <2>3 DEF Assigned
  <2>4. CASE id \notin Range(newlyLost)
    <3>1. id \in Range(lost) /\ id \notin used
      BY <1>13, <1>14, <2>4
    <3>2. all[id] = tracks[id] /\ tracks[id].state # "TRACKED"
      BY <1>3, <2>4, <3>1 DEF Assigned
    <3>3. tracks[id].state \in {"TRACKED", "LOST"}
      BY <3>1 DEF TrackInv, ListsApart
    <3> QED BY <2>1, <2>2, <3>2, <3>3
  <2> QED BY <2>3, <2>4
<1>19. Range(still) \subseteq Range(tracked) \cup Range(lost) \cup Range(fresh)
  <2>1. used \subseteq Range(tracked) \cup Range(lost)
    BY DEF Assigned
  <2> QED BY <1>12, <1>13, <2>1
<1>20. Renewed(final, gone, still, away, Range(fresh))
  <2>1. Range(away) \cup Range(gone) \subseteq DOMAIN everyone
    BY <1>3, <1>11, <1>15, <1>18
  <2>2. \A id \in Range(gone) : final[id].state = "REMOVED"
    BY <1>10, <2>1
  <2> QED BY <1>8, <1>10, <1>11, <1>13, <1>14, <1>15, <1>17, <1>18, <1>19, <2>1, <2>2 DEF Renewed
<1>21. {id \in Range(tracked) \ Range(gone) : all[id].state = "TRACKED"} \subseteq Range(still)
  BY <1>3, <1>12, <1>13, <1>16
<1>22. (Range(lost) \cup Range(newlyLost)) \ Range(gone) \subseteq Range(still) \cup Range(away)
  BY <1>14
<1>23. used \subseteq Range(still)
  BY <1>13
<1>24. Range(gone) = Range(unmatched) \cup {id \in Range(lost) : now - all[id].frame > MaxTimeLost}
  BY <1>7, <1>8
<1> HIDE DEF away
<1> QED BY <1>1, <1>20, <1>21, <1>22, <1>23, <1>24, Zenon DEF Remade

\* What an exception leaves behind: no track of the lost list was removed.
Unharmed(all) ==
  /\ all \in Seq(Track) /\ DOMAIN all = DOMAIN tracks
  /\ \A id \in Range(lost) : all[id].state \in {"TRACKED", "LOST"}

LEMMA RaiseInv ==
  ASSUME TrackInv, NEW now \in Nat, NEW all, Unharmed(all), Raise(now, all)
  PROVE  TrackInv'
<1>1. TrackTypes'
  BY DEF TrackInv, TrackTypes, Unharmed, Raise
<1>2. ListsApart'
  BY DEF TrackInv, ListsApart, Unharmed, Raise
<1> QED BY <1>1, <1>2 DEF TrackInv, Raise

\* An update raises, or makes the lists anew after its assignments.
LEMMA UpdateSteps ==
  ASSUME TrackInv, NEW n \in Nat, NEW high \in [1..n -> BOOLEAN], NEW low, Update(high, low)
  PROVE  \/ \E all : Unharmed(all) /\ Raise(frame + 1, all)
         \/ \E all, activated, refound, newlyLost, unmatched : \E started \in Nat :
              /\ Assigned(frame + 1, all, activated, refound, newlyLost, unmatched)
              /\ Finish(frame + 1, all, activated, refound, newlyLost, unmatched, started)
<1> DEFINE now == frame + 1
           unconfirmed == Picked(tracked, {k \in DOMAIN tracked : ~tracks[tracked[k]].activated})
           confirmed == Picked(tracked, {k \in DOMAIN tracked : tracks[tracked[k]].activated})
           pool == Join(confirmed, lost)
<1>1. /\ frame \in Nat /\ now \in Nat /\ tracks \in Seq(Track)
      /\ tracked \in Seq(Nat) /\ lost \in Seq(Nat)
      /\ Range(tracked) \cup Range(lost) \subseteq DOMAIN tracks
      /\ IsInjective(tracked) /\ Range(tracked) \cap Range(lost) = {}
      /\ \A id \in Range(lost) : tracks[id].state \in {"TRACKED", "LOST"}
  BY DEF TrackInv, TrackTypes, ListsApart
<1> DEFINE Hit(first) == MatchedRows(pool, first)
           All1(first) == Consumed(tracks, Hit(first), now)
           Rest(first) == WithState(All1(first), UnmatchedRows(pool, first), "TRACKED")
           NewlyLost(first, second) == UnmatchedRows(Rest(first), second)
           Hit2(first, second) == MatchedRows(Rest(first), second)
           Between(first, second) == Consumed(All1(first), Hit2(first, second), now)
           All2(first, second) == SetState(Between(first, second), NewlyLost(first, second), "LOST")
           Hit3(third) == MatchedRows(unconfirmed, third)
           All3(first, second, third) == Consumed(All2(first, second), Hit3(third), now)
           Left(first) == UnmatchedColumns(high, first)
           Started(first, third) == Cardinality({k \in DOMAIN Left(first) : Left(first)[k] /\ k \notin Range(third)})
           Activated(first, second, third) ==
             WithState(tracks, Hit(first), "TRACKED") \o Hit2(first, second) \o Hit3(third)
           Refound(first) == Picked(Hit(first), {k \in DOMAIN Hit(first) : tracks[Hit(first)[k]].state # "TRACKED"})
<1>2. \/ Raise(now, tracks)
      \/ \E first : Raise(now, All1(first))
      \/ \E first, second : Raise(now, All2(first, second))
      \/ \E first, second, third :
           Finish(now, All3(first, second, third), Activated(first, second, third), Refound(first),
                  NewlyLost(first, second), UnmatchedRows(unconfirmed, third), Started(first, third))
  BY Zenon DEF Update, MatchLow, MatchUnconfirmed
<1>3. /\ unconfirmed \in Seq(Nat) /\ IsInjective(unconfirmed)
      /\ Range(unconfirmed) = {id \in Range(tracked) : ~tracks[id].activated}
  <2> DEFINE I == {k \in DOMAIN tracked : ~tracks[tracked[k]].activated}
  <2>1. /\ Picked(tracked, I) \in Seq(Nat) /\ Range(Picked(tracked, I)) = {tracked[i] : i \in I}
        /\ IsInjective(Picked(tracked, I))
    BY <1>1, PickedSubset
  <2>2. {tracked[i] : i \in I} = {id \in Range(tracked) : ~tracks[id].activated}
    BY DEF Range
  <2> QED BY <2>1, <2>2
<1>4. /\ pool \in Seq(Nat) /\ IsInjective(pool)
      /\ Range(pool) = {id \in Range(tracked) : tracks[id].activated} \cup Range(lost)
  <2> DEFINE I == {k \in DOMAIN tracked : tracks[tracked[k]].activated}
  <2>1. confirmed \in Seq(Nat) /\ Range(confirmed) = {tracked[i] : i \in I}
    BY <1>1, PickedSubset
  <2>2. {tracked[i] : i \in I} = {id \in Range(tracked) : tracks[id].activated}
    BY DEF Range
  <2> HIDE DEF confirmed, I
  <2> QED BY <1>1, <2>1, <2>2, JoinExact
<1> HIDE DEF now, unconfirmed, pool
<1>5. ASSUME NEW first
      PROVE  /\ Hit(first) \in Seq(Nat) /\ IsInjective(Hit(first)) /\ Range(Hit(first)) \subseteq Range(pool)
             /\ All1(first) \in Seq(Track) /\ DOMAIN All1(first) = DOMAIN tracks
             /\ \A id \in DOMAIN tracks :
                  /\ id \in Range(Hit(first)) => All1(first)[id].state = "TRACKED" /\ All1(first)[id].frame = now
                  /\ id \notin Range(Hit(first)) => All1(first)[id] = tracks[id]
             /\ Rest(first) \in Seq(Nat) /\ IsInjective(Rest(first))
             /\ Range(Rest(first)) = {id \in Range(pool) \ Range(Hit(first)) : tracks[id].state = "TRACKED"}
  <2> DEFINE others == UnmatchedRows(pool, first)
             hit == Hit(first)
             all1 == All1(first)
  <2>1. /\ hit \in Seq(Nat) /\ others \in Seq(Nat) /\ IsInjective(hit) /\ IsInjective(others)
        /\ Range(hit) \cup Range(others) = Range(pool) /\ Range(hit) \cap Range(others) = {}
    BY <1>4, RowsParted
  <2>2. Range(pool) \subseteq DOMAIN tracks
    BY <1>1, <1>4
  <2> HIDE DEF others
  <2>3. /\ all1 \in Seq(Track) /\ DOMAIN all1 = DOMAIN tracks
        /\ \A id \in DOMAIN tracks :
             /\ id \in Range(hit) => all1[id].state = "TRACKED" /\ all1[id].frame = now
             /\ id \notin Range(hit) => all1[id] = tracks[id]
    <3>1. all1 \in Seq(Track)
      BY <1>1, ConsumedExact
    <3>2. DOMAIN all1 = DOMAIN tracks
      BY <1>1, ConsumedExact
    <3>3. \A id \in DOMAIN tracks : id \in Range(hit) => all1[id].state = "TRACKED" /\ all1[id].frame = now
      BY <1>1, ConsumedExact
    <3>4. \A id \in DOMAIN tracks : id \notin Range(hit) => all1[id] = tracks[id]
      BY <1>1, ConsumedExact
    <3> HIDE DEF all1
    <3> QED BY <3>1, <3>2, <3>3, <3>4
  <2>4. /\ Rest(first) \in Seq(Nat) /\ IsInjective(Rest(first))
        /\ Range(Rest(first)) = {id \in Range(others) : all1[id].state = "TRACKED"}
    <3>1. Rest(first) = WithState(all1, others, "TRACKED")
      BY DEF others
    <3> HIDE DEF all1
    <3>2. WithState(all1, others, "TRACKED") \in Seq(Nat) /\ IsInjective(WithState(all1, others, "TRACKED"))
      BY <2>1, WithStateExact
    <3>3. Range(WithState(all1, others, "TRACKED")) = {id \in Range(others) : all1[id].state = "TRACKED"}
      BY <2>1, WithStateExact
    <3> QED BY <3>1, <3>2, <3>3
  <2>5. {id \in Range(others) : all1[id].state = "TRACKED"}
          = {id \in Range(pool) \ Range(hit) : tracks[id].state = "TRACKED"}
    <3> HIDE DEF all1, hit
    <3> QED BY <2>1, <2>2, <2>3
  <2> QED BY <2>1, <2>3, <2>4, <2>5
<1> HIDE DEF Hit, All1, Rest
<1>6. ASSUME NEW first, NEW second
      PROVE  /\ Hit2(first, second) \in Seq(Nat) /\ NewlyLost(first, second) \in Seq(Nat)
             /\ Range(Hit2(first, second)) \cup Range(NewlyLost(first, second)) = Range(Rest(first))
             /\ Range(Hit2(first, second)) \cap Range(NewlyLost(first, second)) = {}
             /\ All2(first, second) \in Seq(Track) /\ DOMAIN All2(first, second) = DOMAIN tracks
             /\ \A id \in Range(Hit(first)) \cup Range(Hit2(first, second)) :
                  All2(first, second)[id].state = "TRACKED" /\ All2(first, second)[id].frame = now
             /\ \A id \in Range(NewlyLost(first, second)) :
                  All2(first, second)[id].state = "LOST" /\ All2(first, second)[id].frame = tracks[id].frame
             /\ \A id \in DOMAIN tracks \ (Range(Hit(first)) \cup Range(Rest(first))) :
                  All2(first, second)[id] = tracks[id]
  <2> DEFINE all1 == All1(first)
             hit2 == Hit2(first, second)
             away == NewlyLost(first, second)
             mid == Between(first, second)
             all2 == All2(first, second)
  <2>1. Rest(first) \in Seq(Nat) /\ IsInjective(Rest(first))
    BY <1>5
  <2>2. /\ hit2 \in Seq(Nat) /\ away \in Seq(Nat)
        /\ Range(hit2) \cup Range(away) = Range(Rest(first)) /\ Range(hit2) \cap Range(away) = {}
    BY <2>1, RowsParted
  <2>3. all1 \in Seq(Track) /\ DOMAIN all1 = DOMAIN tracks
    BY <1>5
  <2> HIDE DEF all1, hit2, away
  <2>4. mid = Consumed(all1, hit2, now)
    BY DEF all1, hit2
  <2> HIDE DEF mid
  <2>5. /\ mid \in Seq(Track) /\ DOMAIN mid = DOMAIN all1
        /\ \A id \in DOMAIN all1 :
             /\ id \in Range(hit2) => mid[id].state = "TRACKED" /\ mid[id].frame = now
             /\ id \notin Range(hit2) => mid[id] = all1[id]
    <3>1. mid \in Seq(Track)
      BY <1>1, <2>3, <2>4, ConsumedExact
    <3>2. DOMAIN mid = DOMAIN all1
      BY <1>1, <2>3, <2>4, ConsumedExact
    <3>3. \A id \in DOMAIN all1 : id \in Range(hit2) => mid[id].state = "TRACKED" /\ mid[id].frame = now
      BY <1>1, <2>3, <2>4, ConsumedExact
    <3>4. \A id \in DOMAIN all1 : id \notin Range(hit2) => mid[id] = all1[id]
      BY <1>1, <2>3, <2>4, ConsumedExact
    <3> QED BY <3>1, <3>2, <3>3, <3>4
  <2>6. all2 = SetState(mid, away, "LOST")
    BY DEF mid, away
  <2> HIDE DEF all2
  <2>7. all2 \in Seq(Track) /\ DOMAIN all2 = DOMAIN mid
    <3>1. mid \in Seq(Track)
      BY <2>5
    <3>2. SetState(mid, away, "LOST") \in Seq(Track)
      BY <3>1, SetStateExact
    <3>3. DOMAIN SetState(mid, away, "LOST") = DOMAIN mid
      BY <3>1, SetStateExact
    <3> QED BY <2>6, <3>2, <3>3
  <2>8. \A id \in DOMAIN mid : id \in Range(away) => all2[id].state = "LOST" /\ all2[id].frame = mid[id].frame
    <3>1. mid \in Seq(Track)
      BY <2>5
    <3>2. \A id \in DOMAIN mid : id \in Range(away) => SetState(mid, away, "LOST")[id].state = "LOST"
      BY <3>1, SetStateExact
    <3>3. \A id \in DOMAIN mid : id \in Range(away) => SetState(mid, away, "LOST")[id].frame = mid[id].frame
      BY <3>1, SetStateExact
    <3> QED BY <2>6, <3>2, <3>3
  <2>9. \A id \in DOMAIN mid : id \notin Range(away) => all2[id] = mid[id]
    BY <2>5, <2>6, SetStateExact
  <2>10. Range(Hit(first)) \cap Range(Rest(first)) = {}
    BY <1>5
  <2>11. Range(Hit(first)) \cup Range(Rest(first)) \subseteq DOMAIN tracks
    BY <1>1, <1>4, <1>5
  <2>12. \A id \in DOMAIN tracks :
           /\ id \in Range(Hit(first)) => all1[id].state = "TRACKED" /\ all1[id].frame = now
           /\ id \notin Range(Hit(first)) => all1[id] = tracks[id]
    BY <1>5 DEF all1
  <2>13. \A id \in Range(Hit(first)) \cup Range(hit2) : all2[id].state = "TRACKED" /\ all2[id].frame = now
    BY <2>2, <2>3, <2>5, <2>9, <2>10, <2>11, <2>12
  <2>14. \A id \in Range(away) : all2[id].state = "LOST" /\ all2[id].frame = tracks[id].frame
    BY <2>2, <2>3, <2>5, <2>8, <2>10, <2>11, <2>12
  <2>15. \A id \in DOMAIN tracks \ (Range(Hit(first)) \cup Range(Rest(first))) : all2[id] = tracks[id]
    BY <2>2, <2>3, <2>5, <2>9, <2>12
  <2> QED BY <2>2, <2>3, <2>5, <2>7, <2>13, <2>14, <2>15 DEF hit2, away, all2
<1> HIDE DEF Hit2, NewlyLost, All2
<1>7. Unharmed(tracks)
  BY <1>1 DEF Unharmed
<1>8. ASSUME NEW first PROVE Unharmed(All1(first))
  BY <1>1, <1>5 DEF Unharmed
<1>9. ASSUME NEW first, NEW second PROVE Unharmed(All2(first, second))
  <2>1. ASSUME NEW id \in Range(lost) PROVE All2(first, second)[id].state \in {"TRACKED", "LOST"}
    BY <1>1, <1>6
  <2> QED BY <1>6, <2>1 DEF Unharmed
<1>10. ASSUME NEW first, NEW second, NEW third
       PROVE  Assigned(now, All3(first, second, third), Activated(first, second, third), Refound(first),
                       NewlyLost(first, second), UnmatchedRows(unconfirmed, third))
  <2> DEFINE all2 == All2(first, second)
             all3 == All3(first, second, third)
             hit == Hit(first)
             hit2 == Hit2(first, second)
             hit3 == Hit3(third)
             away == NewlyLost(first, second)
             dropped == UnmatchedRows(unconfirmed, third)
             activated == Activated(first, second, third)
             refound == Refound(first)
  <2>1. /\ hit3 \in Seq(Nat) /\ dropped \in Seq(Nat)
        /\ Range(hit3) \cup Range(dropped) = Range(unconfirmed) /\ Range(hit3) \cap Range(dropped) = {}
    BY <1>3, RowsParted
  <2> HIDE DEF hit3, dropped
  <2>2. /\ all2 \in Seq(Track) /\ DOMAIN all2 = DOMAIN tracks
    BY <1>6
  <2>3. all3 = Consumed(all2, hit3, now)
    BY DEF hit3
  <2> HIDE DEF all2, all3
  <2>4. /\ all3 \in Seq(Track) /\ DOMAIN all3 = DOMAIN all2
        /\ \A id \in DOMAIN all2 :
             /\ id \in Range(hit3) => all3[id].state = "TRACKED" /\ all3[id].frame = now
             /\ id \notin Range(hit3) => all3[id] = all2[id]
    <3>1. all3 \in Seq(Track)
      BY <1>1, <2>2, <2>3, ConsumedExact
    <3>2. DOMAIN all3 = DOMAIN all2
      BY <1>1, <2>2, <2>3, ConsumedExact
    <3>3. \A id \in DOMAIN all2 : id \in Range(hit3) => all3[id].state = "TRACKED" /\ all3[id].frame = now
      BY <1>1, <2>2, <2>3, ConsumedExact
    <3>4. \A id \in DOMAIN all2 : id \notin Range(hit3) => all3[id] = all2[id]
      BY <1>1, <2>2, <2>3, ConsumedExact
    <3> QED BY <3>1, <3>2, <3>3, <3>4
  <2>5. /\ hit \in Seq(Nat) /\ Range(hit) \subseteq Range(pool)
        /\ Range(hit) \cap Range(Rest(first)) = {} /\ Range(Rest(first)) \subseteq Range(pool)
        /\ \A id \in Range(pool) \ Range(hit) : tracks[id].state = "TRACKED" => id \in Range(Rest(first))
    BY <1>5
  <2>6. /\ hit2 \in Seq(Nat) /\ away \in Seq(Nat)
        /\ Range(hit2) \cup Range(away) = Range(Rest(first)) /\ Range(hit2) \cap Range(away) = {}
    BY <1>6
  <2>7. /\ \A id \in Range(hit) \cup Range(hit2) : all2[id].state = "TRACKED" /\ all2[id].frame = now
        /\ \A id \in Range(away) : all2[id].state = "LOST" /\ all2[id].frame = tracks[id].frame
        /\ \A id \in DOMAIN tracks \ (Range(hit) \cup Range(Rest(first))) : all2[id] = tracks[id]
    BY <1>6 DEF all2
  <2> HIDE DEF hit, hit2, away
  <2>8. activated \in Seq(Nat) /\ refound \in Seq(Nat) /\ Range(activated) \cup Range(refound) = Range(hit) \cup Range(hit2) \cup Range(hit3)
    <3> DEFINE known == WithState(tracks, hit, "TRACKED")
               I == {k \in DOMAIN hit : tracks[hit[k]].state # "TRACKED"}
    <3>1. known \in Seq(Nat) /\ Range(known) = {id \in Range(hit) : tracks[id].state = "TRACKED"}
      BY <2>5, WithStateExact
    <3>2. refound = Picked(hit, I)
      BY DEF hit
    <3>3. Picked(hit, I) \in Seq(Nat) /\ Range(Picked(hit, I)) = {hit[i] : i \in I}
      BY <2>5, PickedRange
    <3>4. {hit[i] : i \in I} = {id \in Range(hit) : tracks[id].state # "TRACKED"}
      BY DEF Range
    <3>5. activated = (known \o hit2) \o hit3
      BY DEF hit, hit2, hit3
    <3> HIDE DEF known, activated, refound
    <3>6. known \o hit2 \in Seq(Nat) /\ Range(known \o hit2) = Range(known) \cup Range(hit2)
      <4>1. known \in Seq(Nat) /\ hit2 \in Seq(Nat)
        BY <2>6, <3>1
      <4> QED BY <4>1, ConcatProperties, RangeConcatenation
    <3>7. activated \in Seq(Nat) /\ Range(activated) = Range(known \o hit2) \cup Range(hit3)
      <4>1. known \o hit2 \in Seq(Nat) /\ hit3 \in Seq(Nat)
        BY <2>1, <3>6
      <4> DEFINE former == known \o hit2
      <4>2. former \in Seq(Nat) /\ activated = former \o hit3
        BY <3>5, <4>1
      <4> HIDE DEF former
      <4>3. former \o hit3 \in Seq(Nat) /\ Range(former \o hit3) = Range(former) \cup Range(hit3)
        BY <4>1, <4>2, ConcatProperties, RangeConcatenation
      <4> QED BY <4>2, <4>3 DEF former
    <3>8. {id \in Range(hit) : tracks[id].state = "TRACKED"} \cup {id \in Range(hit) : tracks[id].state # "TRACKED"} = Range(hit)
      OBVIOUS
    <3> QED BY <3>1, <3>2, <3>3, <3>4, <3>6, <3>7, <3>8
  <2> HIDE DEF activated, refound
  <2>9. Range(pool) \cap Range(unconfirmed) = {}
    BY <1>1, <1>3, <1>4
  <2>10. Len(all3) = Len(tracks)
    <3>1. /\ DOMAIN all3 = 1..Len(all3) /\ Len(all3) \in Nat
          /\ DOMAIN tracks = 1..Len(tracks) /\ Len(tracks) \in Nat
      BY <1>1, <2>4, LenProperties
    <3>2. DOMAIN all3 = DOMAIN tracks
      BY <2>2, <2>4
    <3> DEFINE a == Len(all3)
               b == Len(tracks)
    <3>3. a \in Nat /\ b \in Nat /\ 1..a = 1..b
      BY <3>1, <3>2
    <3> HIDE DEF a, b
    <3>4. a \in 1..b \/ a = 0
      BY <3>3
    <3>5. b \in 1..a \/ b = 0
      BY <3>3
    <3>6. a = b
      BY <3>3, <3>4, <3>5
    <3> QED BY <3>6 DEF a, b
  <2>11. Range(pool) \cup Range(unconfirmed) \subseteq Range(tracked) \cup Range(lost)
    BY <1>3, <1>4
  <2>12. Range(pool) \cup Range(unconfirmed) \subseteq DOMAIN tracks
    BY <1>1, <2>11
  <2> DEFINE used == Range(activated) \cup Range(refound)
  <2>13. /\ used \cup Range(away) \subseteq Range(tracked) \cup Range(lost)
         /\ Range(dropped) \subseteq {id \in Range(tracked) : ~tracks[id].activated}
         /\ used \cap Range(away) = {} /\ used \cap Range(dropped) = {} /\ Range(away) \cap Range(dropped) = {}
    BY <1>3, <2>1, <2>5, <2>6, <2>8, <2>9, <2>11
  <2>14. \A id \in used : all3[id].state = "TRACKED" /\ all3[id].frame = now
    <3> SUFFICES ASSUME NEW id \in used PROVE all3[id].state = "TRACKED" /\ all3[id].frame = now
      OBVIOUS
    <3>1. id \in DOMAIN all2
      BY <2>1, <2>2, <2>5, <2>6, <2>8, <2>12
    <3>2. CASE id \in Range(hit3)
      BY <2>4, <3>1, <3>2
    <3>3. CASE id \notin Range(hit3)
      <4>1. all3[id] = all2[id] /\ id \in Range(hit) \cup Range(hit2)
        BY <2>4, <2>8, <3>1, <3>3
      <4> QED BY <2>7, <4>1
    <3> QED BY <3>2, <3>3
  <2>15. \A id \in Range(away) : all3[id].state = "LOST" /\ all3[id].frame = tracks[id].frame
    <3> SUFFICES ASSUME NEW id \in Range(away) PROVE all3[id].state = "LOST" /\ all3[id].frame = tracks[id].frame
      OBVIOUS
    <3>1. id \in DOMAIN all2 /\ id \notin Range(hit3)
      BY <2>1, <2>2, <2>5, <2>6, <2>9, <2>12
    <3>2. all3[id] = all2[id]
      BY <2>4, <3>1
    <3> QED BY <2>7, <3>2
  <2>16. \A id \in DOMAIN tracks \ (used \cup Range(away)) : all3[id] = tracks[id]
    BY <2>2, <2>4, <2>6, <2>7, <2>8
  <2>17. \A id \in Range(lost) \ (used \cup Range(away)) : tracks[id].state # "TRACKED"
    BY <1>4, <2>5, <2>6, <2>8
  <2>18. Assigned(now, all3, activated, refound, away, dropped)
    BY <2>1, <2>4, <2>6, <2>8, <2>10, <2>13, <2>14, <2>15, <2>16, <2>17 DEF Assigned
  <2> QED BY <2>18 DEF all3, activated, refound, away, dropped
<1>11. ASSUME NEW first, NEW third PROVE Started(first, third) \in Nat
  <2> DEFINE I == {k \in DOMAIN high : k \notin Range(first)}
             J == {k \in DOMAIN Left(first) : Left(first)[k] /\ k \notin Range(third)}
  <2>1. Left(first) = Picked(high, I)
    BY DEF UnmatchedColumns
  <2>2. high \in Seq(BOOLEAN)
    OBVIOUS
  <2>3. Picked(high, I) \in Seq(BOOLEAN)
    BY <2>2, PickedRange
  <2> HIDE DEF Left, I
  <2>4. DOMAIN Left(first) = 1..Len(Left(first)) /\ Len(Left(first)) \in Nat
    BY <2>1, <2>3, LenProperties
  <2>5. IsFiniteSet(1..Len(Left(first)))
    BY <2>4, FS_Interval
  <2>6. J \in SUBSET (1..Len(Left(first)))
    BY <2>4
  <2>7. IsFiniteSet(J)
    BY <2>5, <2>6, FS_Subset
  <2> QED BY <2>7, FS_CardinalityType
<1> HIDE DEF All3, Activated, Refound, Started
<1>12. CASE Raise(now, tracks)
  BY <1>7, <1>12 DEF now
<1>13. CASE \E first : Raise(now, All1(first))
  BY <1>8, <1>13 DEF now
<1>14. CASE \E first, second : Raise(now, All2(first, second))
  BY <1>9, <1>14 DEF now
<1>15. CASE \E first, second, third :
              Finish(now, All3(first, second, third), Activated(first, second, third), Refound(first),
                     NewlyLost(first, second), UnmatchedRows(unconfirmed, third), Started(first, third))
  BY <1>10, <1>11, <1>15, Zenon DEF now
<1> QED BY <1>2, <1>12, <1>13, <1>14, <1>15

LEMMA TrackInit == TInit => TrackInv
<1> SUFFICES ASSUME TInit PROVE TrackInv
  OBVIOUS
<1>1. Range(<<>>) = {}
  BY DEF Range
<1>2. TrackTypes
  <2>1. <<>> \in Seq(Track) /\ <<>> \in Seq(Nat)
    BY EmptySeq
  <2> QED BY <1>1, <2>1 DEF TInit, TrackTypes
<1>3. ListsApart /\ ListsState
  BY <1>1 DEF TInit, ListsApart, ListsState, IsInjective
<1> QED BY <1>2, <1>3 DEF TrackInv

\* The step of NoTrackLost.
TracksKept ==
  ~raised /\ ~raised' =>
    /\ Range(tracked) \cup Range(lost) \subseteq
         Range(tracked') \cup Range(lost') \cup Range(removed') \cup duplicates'
    /\ \A id \in Range(removed') \ Range(removed) :
         \/ id \in Range(tracked) /\ ~tracks[id].activated
         \/ id \in Range(lost) /\ frame' - tracks[id].frame > MaxTimeLost

\* An update keeps the invariant and accounts for every track.
LEMMA UpdateExact ==
  ASSUME TrackInv, NEW n \in Nat, NEW high \in [1..n -> BOOLEAN], NEW low, Update(high, low)
  PROVE  TrackInv' /\ TracksKept
<1>1. frame \in Nat /\ frame + 1 \in Nat
  BY DEF TrackInv, TrackTypes
<1>2. CASE \E all : Unharmed(all) /\ Raise(frame + 1, all)
  <2>1. PICK all : Unharmed(all) /\ Raise(frame + 1, all)
    BY <1>2
  <2>2. TrackInv'
    BY <1>1, <2>1, RaiseInv
  <2>3. raised' = TRUE
    BY <2>1 DEF Raise
  <2> QED BY <2>2, <2>3 DEF TracksKept
<1>3. CASE \E all, activated, refound, newlyLost, unmatched : \E started \in Nat :
             /\ Assigned(frame + 1, all, activated, refound, newlyLost, unmatched)
             /\ Finish(frame + 1, all, activated, refound, newlyLost, unmatched, started)
  <2>1. PICK all, activated, refound, newlyLost, unmatched : \E started \in Nat :
          /\ Assigned(frame + 1, all, activated, refound, newlyLost, unmatched)
          /\ Finish(frame + 1, all, activated, refound, newlyLost, unmatched, started)
    BY <1>3, Zenon
  <2>2. PICK final, gone, still, away, new, overlap :
          /\ Renewed(final, gone, still, away, new)
          /\ NewLists(frame + 1, final, gone, still, away, overlap)
          /\ duplicates' = (Range(still) \ Range(tracked')) \cup (Range(away) \ Range(lost'))
          /\ Range(gone) = Range(unmatched) \cup {id \in Range(lost) : (frame + 1) - all[id].frame > MaxTimeLost}
          /\ Range(activated) \cup Range(refound) \subseteq Range(still)
          /\ {id \in Range(tracked) \ Range(gone) : all[id].state = "TRACKED"} \subseteq Range(still)
          /\ (Range(lost) \cup Range(newlyLost)) \ Range(gone) \subseteq Range(still) \cup Range(away)
    <3>1. Remade(frame + 1, all, Range(activated) \cup Range(refound), newlyLost, unmatched)
      BY <1>1, <2>1, FinishRenews, Zenon
    <3> QED BY <3>1 DEF Remade
  <2>3. /\ TrackInv'
        /\ Range(removed') = Range(removed) \cup Range(gone)
    BY <1>1, <2>2, RenewedInv
  <2>4. ASSUME ~raised
        PROVE  Range(tracked) \cup Range(lost) \subseteq
                 Range(tracked') \cup Range(lost') \cup Range(removed') \cup duplicates'
    <3>1. Range(still) \cup Range(away) \subseteq Range(tracked') \cup Range(lost') \cup duplicates'
      BY <2>2
    <3>2. Range(tracked) \subseteq Range(still) \cup Range(away) \cup Range(gone)
      <4> SUFFICES ASSUME NEW id \in Range(tracked), id \notin Range(gone)
                   PROVE  id \in Range(still) \cup Range(away)
        OBVIOUS
      <4>1. CASE id \in Range(newlyLost)
        BY <2>2, <4>1
      <4>2. CASE id \in Range(activated) \cup Range(refound)
        BY <2>2, <4>2
      <4>3. CASE id \notin Range(newlyLost) \cup Range(activated) \cup Range(refound)
        <5>1. id \in DOMAIN tracks /\ tracks[id].state = "TRACKED"
          BY <2>4 DEF TrackInv, TrackTypes, ListsState
        <5>2. all[id] = tracks[id]
          BY <2>1, <4>3, <5>1 DEF Assigned
        <5> QED BY <2>2, <5>1, <5>2
      <4> QED BY <4>1, <4>2, <4>3
    <3>3. Range(lost) \subseteq Range(still) \cup Range(away) \cup Range(gone)
      BY <2>2
    <3> QED BY <2>3, <3>1, <3>2, <3>3
  <2>5. ASSUME NEW id \in Range(removed') \ Range(removed)
        PROVE  \/ id \in Range(tracked) /\ ~tracks[id].activated
               \/ id \in Range(lost) /\ frame' - tracks[id].frame > MaxTimeLost
    <3>1. id \in Range(gone)
      BY <2>3
    <3>2. CASE id \in Range(unmatched)
      BY <2>1, <3>2 DEF Assigned
    <3>3. CASE id \notin Range(unmatched)
      <4>1. id \in Range(lost) /\ (frame + 1) - all[id].frame > MaxTimeLost
        BY <2>2, <3>1, <3>3
      <4>2. id \in DOMAIN tracks
        BY <4>1 DEF TrackInv, TrackTypes
      <4>3. id \notin Range(activated) \cup Range(refound)
        <5> SUFFICES ASSUME id \in Range(activated) \cup Range(refound) PROVE FALSE
          OBVIOUS
        <5>1. all[id].frame = frame + 1
          BY <2>1 DEF Assigned
        <5> QED BY <1>1, <4>1, <5>1, ByteTrackAssumption
      <4>4. all[id].frame = tracks[id].frame
        BY <2>1, <4>2, <4>3 DEF Assigned
      <4>5. frame' = frame + 1
        BY <2>2 DEF NewLists
      <4> QED BY <4>1, <4>4, <4>5
    <3> QED BY <3>2, <3>3
  <2> QED BY <2>3, <2>4, <2>5 DEF TracksKept
<1> QED BY <1>2, <1>3, UpdateSteps

LEMMA TrackStep == TrackInv /\ [TNext]_tvars => TrackInv' /\ (TracksKept \/ UNCHANGED tvars)
<1>1. ASSUME TrackInv, TNext PROVE TrackInv' /\ TracksKept
  <2>1. PICK n \in 0..MaxDetections, low \in 0..MaxDetections : \E high \in [1..n -> BOOLEAN] : Update(high, low)
    BY <1>1 DEF TNext
  <2>2. n \in Nat
    BY ByteTrackAssumption
  <2>3. PICK high \in [1..n -> BOOLEAN] : Update(high, low)
    BY <2>1
  <2> QED BY <1>1, <2>2, <2>3, UpdateExact
<1>2. ASSUME TrackInv, UNCHANGED tvars PROVE TrackInv'
  BY <1>2 DEF TrackInv, TrackTypes, ListsApart, ListsState, tvars
<1> QED BY <1>1, <1>2

\* The lists of the tracker: after every update that returned, whatever the
\* ones before it raised, a track is in the list of its state, in one list
\* only, once, and never after it was removed.
THEOREM TracksConsistent == TSpec => []ListsConsistent
<1>1. TrackInv => ListsConsistent
  BY DEF TrackInv, ListsApart, ListsState, ListsConsistent
<1> QED BY <1>1, TrackInit, TrackStep, PTL DEF TSpec

\* Between two updates that returned no track disappears, and a confirmed one
\* is removed only after it was lost for longer than max_time_lost.
THEOREM TracksAccounted == TSpec => NoTrackLost
<1>1. TracksKept \/ UNCHANGED tvars
        <=> [~raised /\ ~raised' =>
               /\ Range(tracked) \cup Range(lost) \subseteq
                    Range(tracked') \cup Range(lost') \cup Range(removed') \cup duplicates'
               /\ \A id \in Range(removed') \ Range(removed) :
                    \/ id \in Range(tracked) /\ ~tracks[id].activated
                    \/ id \in Range(lost) /\ frame' - tracks[id].frame > MaxTimeLost]_tvars
  BY DEF TracksKept
<1> QED BY <1>1, TrackInit, TrackStep, PTL DEF TSpec, NoTrackLost

-----------------------------------------------------------------------------
(* NativeApi: the life of a call.                                          *)

NativeResult == [status : {0, 1}, records : UNION {UNION {Records(m, k) : k \in 1..3} : m \in Methods}, owned : BOOLEAN]

\* What may leave a block.
IsOutcome(o) == o = Nothing \/ o = Raised \/ \E v : o = Value(v)

CallTypes ==
  /\ call \in Methods \cup {None}
  /\ results \in Seq(NativeResult) /\ releases \in Seq(Nat) /\ Len(releases) = Len(results)
  /\ IsOutcome(outcome) /\ IsOutcome(answer)
  /\ call = None => /\ request = NoRequest /\ results = <<>>
                    /\ outcome = Nothing /\ answer = Nothing
  /\ call # None => request.args \in Requests(call) /\ request.sent = Sent(call, request.args)
  /\ call # None => Current <= NativeCalls(call)
  /\ \A k \in 1..Current : results[k].records \in Records(call, k)

\* Only the newest result may be owned, it is while an outcome is on its way,
\* and a result that is not owned any more was released once.
CallOwns ==
  /\ \A k \in 1..Current : releases[k] = IF results[k].owned THEN 0 ELSE 1
  /\ \A k \in 1..Current : k < Current => ~results[k].owned /\ results[k].status = 0
  /\ outcome # Nothing => Current > 0 /\ results[Current].owned /\ answer = Nothing
  /\ answer # Nothing => \A k \in 1..Current : ~results[k].owned
  /\ Current > 0 /\ ~results[Current].owned /\ answer = Nothing
       => results[Current].status = 0 /\ Current < NativeCalls(call)

\* The k-th answer is about the groups g.
SaidOf(records, k, g) ==
  /\ Len(records) = Len(g)
  /\ \A i \in 1..Len(g) : /\ records[i].index = i - 1
                          /\ records[i].inv = g[i].inv
                          /\ records[i].state = g[i].states[k]

\* What the groups g say about the first n answers of inspect_group_coverage.
Covered(n, g) ==
  n > 0 =>
    /\ g \in Seq([index : Int, inv : Nat, states : Seq(States)])
    /\ \A i \in 1..Len(g) : g[i].index = i - 1 /\ Len(g[i].states) = n
    /\ \A k \in 1..n : SaidOf(results[k].records, k, g)

\* The value v that the call has made of its first n native results.
MadeOf(n, v) ==
  IF call = "coverage" THEN Covered(n, v) ELSE n = 1 => v \in Converted(call, 1, <<>>, results[1].records)

\* The results that are converted.
Done == IF Owned /\ outcome = Nothing THEN Current - 1 ELSE Current

CallValues ==
  /\ outcome.kind = "value" => outcome.value = groups /\ results[Current].status = 0
  /\ answer.kind = "value" => /\ answer.value = groups /\ Current = NativeCalls(call)
                              /\ \A k \in 1..Current : results[k].status = 0
  /\ call # None /\ outcome # Raised /\ answer # Raised => MadeOf(Done, groups)

CallInv == CallTypes /\ CallOwns /\ CallValues

LEMMA Kinds ==
  /\ Nothing # Raised /\ Nothing.kind = "nothing" /\ Raised.kind = "raised"
  /\ \A v : /\ Value(v) # Nothing /\ Value(v) # Raised
            /\ Value(v).kind = "value" /\ Value(v).value = v
<1>1. Nothing.kind = "nothing" /\ Raised.kind = "raised" /\ \A v : Value(v).kind = "value" /\ Value(v).value = v
  BY DEF Nothing, Raised, Value
<1> QED BY <1>1

LEMMA CallInit == AInit => CallInv
<1> SUFFICES ASSUME AInit PROVE CallInv
  OBVIOUS
<1>1. <<>> \in Seq(NativeResult) /\ <<>> \in Seq(Nat) /\ Len(<<>>) = 0
  BY EmptySeq
<1>2. CallTypes
  BY <1>1, NativeAssumption DEF AInit, CallTypes, IsOutcome, Current
<1>3. CallOwns
  BY <1>1, Kinds DEF AInit, CallOwns, Current
<1>4. CallValues
  BY <1>1, Kinds DEF AInit, CallValues, Current
<1> QED BY <1>2, <1>3, <1>4 DEF CallInv

\* A method is called, with no native result yet.
LEMMA CallCalls ==
  ASSUME CallInv, NEW m \in Methods, NEW args \in Requests(m), Call(m, args)
  PROVE  CallInv'
<1>1. call = None /\ results = <<>> /\ results' = <<>> /\ call' = m /\ m # None /\ outcome = Nothing
  BY NativeAssumption DEF CallInv, CallTypes, Call
<1>2. Current = 0 /\ Current' = 0
  BY <1>1, EmptySeq DEF Current
<1>3. IsOutcome(answer') /\ answer'.kind # "value"
  BY Kinds DEF Call, IsOutcome
<1>4. NativeCalls(m) \in Nat
  BY DEF NativeCalls
<1>5. CallTypes'
  BY <1>1, <1>2, <1>3, <1>4 DEF CallInv, CallTypes, Call
<1>6. CallOwns'
  BY <1>1, <1>2 DEF CallOwns, CallInv, CallTypes, Call
<1>7. CallValues'
  <2>1. ~Owned'
    BY <1>2 DEF Owned, Current
  <2>2. Done' = 0
    BY <1>2, <2>1 DEF Done
  <2>3. MadeOf(0, groups)'
    BY DEF MadeOf, Covered
  <2>4. outcome' = Nothing
    BY <1>1 DEF Call
  <2> QED BY <1>3, <2>2, <2>3, <2>4, Kinds DEF CallValues
<1> QED BY <1>5, <1>6, <1>7 DEF CallInv

\* The native library returns a record.
LEMMA CallRecords ==
  ASSUME CallInv, Running, NEW status \in {0, 1}, NEW r \in Records(call, Current + 1), NativeCall(status, r)
  PROVE  CallInv'
<1> DEFINE new == [status |-> status, records |-> r, owned |-> TRUE]
<1>1. /\ call \in Methods /\ call # None /\ outcome = Nothing /\ answer = Nothing /\ ~Owned
      /\ results \in Seq(NativeResult) /\ releases \in Seq(Nat) /\ Len(releases) = Current /\ Current \in Nat
  BY LenProperties DEF CallInv, CallTypes, Running, Ready, NativeCall, Current
<1>2. Current < NativeCalls(call) /\ NativeCalls(call) \in 1..3
  BY <1>1 DEF CallInv, CallOwns, Owned, NativeCalls
<1>3. Current + 1 \in 1..3
  BY <1>1, <1>2
<1>4. new \in NativeResult
  BY <1>1, <1>3 DEF NativeResult
<1>5. /\ results' \in Seq(NativeResult) /\ releases' \in Seq(Nat)
      /\ Current' = Current + 1 /\ Len(releases') = Current + 1
      /\ \A k \in 1..Current : results'[k] = results[k] /\ releases'[k] = releases[k]
      /\ results'[Current + 1] = new /\ releases'[Current + 1] = 0
  <2>1. results' = Append(results, new) /\ releases' = Append(releases, 0) /\ Len(results) = Current
    BY DEF NativeCall, Current
  <2> HIDE DEF new
  <2>2. /\ results' \in Seq(NativeResult) /\ Len(results') = Len(results) + 1
        /\ \A k \in 1..Len(results) : results'[k] = results[k]
        /\ results'[Len(results) + 1] = new
    BY <1>1, <1>4, <2>1, AppendProperties
  <2>3. /\ releases' \in Seq(Nat) /\ Len(releases') = Len(releases) + 1
        /\ \A k \in 1..Len(releases) : releases'[k] = releases[k]
        /\ releases'[Len(releases) + 1] = 0
    BY <1>1, <2>1, AppendProperties
  <2> QED BY <1>1, <2>1, <2>2, <2>3 DEF Current
<1>6. UNCHANGED <<request, call, groups, outcome, answer>>
  BY DEF NativeCall
<1>7. \A k \in 1..Current' : k \in 1..Current \/ k = Current + 1
  BY <1>1, <1>5
<1>8. CallTypes'
  <2>1. \A k \in 1..Current' : results'[k].records \in Records(call, k)
    BY <1>5, <1>7 DEF CallInv, CallTypes
  <2>2. Current' <= NativeCalls(call)
    BY <1>1, <1>2, <1>5
  <2>3. Len(releases') = Len(results')
    BY <1>5 DEF Current
  <2> QED BY <1>1, <1>5, <1>6, <2>1, <2>2, <2>3 DEF CallInv, CallTypes
<1>9. CallOwns'
  <2>1. \A k \in 1..Current : ~results[k].owned /\ results[k].status = 0 /\ releases[k] = 1
    <3> SUFFICES ASSUME NEW k \in 1..Current PROVE ~results[k].owned /\ results[k].status = 0 /\ releases[k] = 1
      OBVIOUS
    <3>1. CASE k < Current
      BY <3>1 DEF CallInv, CallOwns
    <3>2. CASE k = Current
      BY <1>1, <3>2 DEF CallInv, CallOwns, Owned
    <3> QED BY <1>1, <3>1, <3>2
  <2>2. /\ outcome' = Nothing /\ answer' = Nothing
        /\ results'[Current'].owned /\ releases'[Current'] = 0
    BY <1>1, <1>5, <1>6
  <2>3. ASSUME NEW k \in 1..Current'
        PROVE  /\ releases'[k] = IF results'[k].owned THEN 0 ELSE 1
               /\ k < Current' => ~results'[k].owned /\ results'[k].status = 0
    <3>1. CASE k \in 1..Current
      BY <1>5, <2>1, <3>1
    <3>2. CASE k = Current + 1
      BY <1>1, <1>5, <3>2
    <3> QED BY <1>7, <3>1, <3>2
  <2> QED BY <2>2, <2>3 DEF CallOwns
<1>10. CallValues'
  <2>1. Owned' /\ Done' = Current /\ Done = Current
    BY <1>1, <1>5, <1>6 DEF Owned, Done
  <2>2. PICK n \in Nat : n = Current
    BY <1>1
  <2>3. MadeOf(n, groups)
    BY <1>1, <2>1, <2>2, Kinds DEF CallInv, CallValues
  <2>4. MadeOf(n, groups)'
    <3>1. CASE call = "coverage"
      <4>1. \A k \in 1..n : results'[k] = results[k]
        BY <1>5, <2>2
      <4>2. Covered(n, groups)
        BY <2>3, <3>1 DEF MadeOf
      <4>3. Covered(n, groups)'
        BY <1>6, <4>1, <4>2 DEF Covered
      <4> QED BY <1>6, <3>1, <4>3 DEF MadeOf
    <3>2. CASE call # "coverage"
      <4>1. n = 1 => results'[1] = results[1]
        BY <1>5, <2>2
      <4> QED BY <1>6, <2>3, <3>2, <4>1 DEF MadeOf
    <3> QED BY <3>1, <3>2
  <2>5. MadeOf(Done, groups)'
    BY <2>1, <2>2, <2>4
  <2>6. outcome'.kind # "value" /\ answer'.kind # "value"
    BY <1>1, <1>6, Kinds
  <2> QED BY <2>5, <2>6 DEF CallValues
<1> QED BY <1>8, <1>9, <1>10 DEF CallInv

\* An outcome is on its way: nothing else changes.
LEMMA CallRaises ==
  ASSUME CallInv, InTry, outcome' = Raised, UNCHANGED <<request, call, results, groups, answer, releases>>
  PROVE  CallInv'
<1>1. Current > 0 /\ results[Current].owned /\ answer = Nothing /\ call # None /\ Current' = Current
  BY DEF InTry, Running, Owned, Current
<1>2. CallTypes'
  BY <1>1 DEF CallInv, CallTypes, IsOutcome, Current
<1>3. CallOwns'
  BY <1>1 DEF CallInv, CallOwns
<1>4. CallValues'
  BY <1>1, Kinds DEF CallInv, CallValues
<1> QED BY <1>2, <1>3, <1>4 DEF CallInv

\* One answer of inspect_group_coverage is merged.
LEMMA CoverageCovers ==
  ASSUME CallTypes, call = "coverage", NEW n \in 1..Current,
         NEW made, Covered(n - 1, made),
         NEW v \in Coverage(n, made, results[n].records)
  PROVE  Covered(n, v)
<1> DEFINE r == results[n].records
           step(i) == [index |-> i - 1, inv |-> r[i].inv,
                       states |-> (IF n = 1 THEN <<>> ELSE made[i].states) \o <<r[i].state>>]
<1>1. r \in Seq([short : BOOLEAN, index : Nat, inv : Nat, state : {r[i].state : i \in DOMAIN r}])
  <2>1. "coverage" \in Methods /\ n \in 1..3 /\ r \in Records("coverage", n)
    <3>1. call # None /\ Current \in Nat /\ Current <= 3 /\ r \in Records(call, n) /\ call \in Methods
      BY LenProperties, NativeAssumption, EmptySeq DEF CallTypes, Current, NativeCalls
    <3> QED BY <3>1
  <2> HIDE DEF r
  <2> QED BY <2>1, NativeAssumption
<1>2. /\ \A i \in DOMAIN r : /\ ~r[i].short /\ r[i].index = i - 1 /\ r[i].state \in States
      /\ n > 1 => /\ Len(r) = Len(made)
                  /\ \A i \in DOMAIN r : r[i].inv = made[i].inv
      /\ v = [i \in DOMAIN r |-> step(i)]
  BY DEF Coverage
<1>3. DOMAIN r = 1..Len(r) /\ Len(r) \in Nat /\ \A i \in DOMAIN r : r[i].inv \in Nat
  <2> HIDE DEF r
  <2>1. DOMAIN r = 1..Len(r) /\ Len(r) \in Nat
    BY <1>1, LenProperties
  <2>2. \A i \in DOMAIN r : r[i].inv \in Nat
    <3> DEFINE S == [short : BOOLEAN, index : Nat, inv : Nat, state : {r[i].state : i \in DOMAIN r}]
    <3>1. r \in Seq(S)
      BY <1>1
    <3> HIDE DEF S
    <3>2. \A i \in DOMAIN r : r[i] \in S
      BY <2>1, <3>1, ElementOfSeq
    <3> QED BY <3>2 DEF S
  <2> QED BY <2>1, <2>2
<1>4. n \in Nat /\ n - 1 \in Nat
  OBVIOUS
<1>5. n > 1 => /\ made \in Seq([index : Int, inv : Nat, states : Seq(States)])
               /\ \A i \in 1..Len(r) : made[i].states \in Seq(States) /\ Len(made[i].states) = n - 1
  <2> HIDE DEF r
  <2> SUFFICES ASSUME n > 1
               PROVE  /\ made \in Seq([index : Int, inv : Nat, states : Seq(States)])
                      /\ \A i \in 1..Len(r) : made[i].states \in Seq(States) /\ Len(made[i].states) = n - 1
    OBVIOUS
  <2>1. /\ made \in Seq([index : Int, inv : Nat, states : Seq(States)])
        /\ \A i \in 1..Len(made) : Len(made[i].states) = n - 1
    BY <1>4 DEF Covered
  <2>2. \A i \in 1..Len(made) : made[i] \in [index : Int, inv : Nat, states : Seq(States)]
    BY <2>1, ElementOfSeq
  <2> QED BY <1>2, <2>1, <2>2
<1> DEFINE before(i) == IF n = 1 THEN <<>> ELSE made[i].states
<1>6. \A i \in 1..Len(r) : /\ before(i) \in Seq(States) /\ Len(before(i)) = n - 1
                           /\ n > 1 => before(i) = made[i].states
  <2>1. <<>> \in Seq(States) /\ Len(<<>>) = 0
    BY EmptySeq
  <2>2. n = 1 \/ n > 1
    BY <1>4
  <2> HIDE DEF r
  <2> QED BY <1>5, <2>1, <2>2
<1>7. ASSUME NEW i \in 1..Len(r)
      PROVE  /\ v[i].index = i - 1 /\ v[i].inv = r[i].inv /\ v[i] \in [index : Int, inv : Nat, states : Seq(States)]
             /\ Len(v[i].states) = n /\ v[i].states[n] = r[i].state
             /\ \A k \in 1..(n - 1) : v[i].states[k] = before(i)[k]
  <2>1. v[i] = [index |-> i - 1, inv |-> r[i].inv, states |-> before(i) \o <<r[i].state>>]
    BY <1>2, <1>3
  <2> HIDE DEF r, before
  <2>2. r[i].state \in States /\ r[i].inv \in Nat /\ <<r[i].state>> \in Seq(States) /\ Len(<<r[i].state>>) = 1
    BY <1>2, <1>3 DEF r
  <2> DEFINE last == <<r[i].state>>
             all == before(i) \o last
  <2>3. last \in Seq(States) /\ Len(last) = 1 /\ last[1] = r[i].state
    BY <2>2
  <2> HIDE DEF last
  <2>4. /\ all \in Seq(States) /\ Len(all) = n - 1 + 1
        /\ \A k \in 1..(n - 1 + 1) : all[k] = IF k <= n - 1 THEN before(i)[k] ELSE last[k - (n - 1)]
    <3> DEFINE first == before(i)
    <3>1. first \in Seq(States) /\ Len(first) = n - 1 /\ all = first \o last
      BY <1>6
    <3> HIDE DEF first, all
    <3>2. /\ all \in Seq(States) /\ Len(all) = Len(first) + Len(last)
          /\ \A k \in 1..Len(first) + Len(last) : all[k] = IF k <= Len(first) THEN first[k] ELSE last[k - Len(first)]
      BY <2>3, <3>1, ConcatProperties
    <3>3. /\ all \in Seq(States) /\ Len(all) = n - 1 + 1
          /\ \A k \in 1..(n - 1 + 1) : all[k] = IF k <= n - 1 THEN first[k] ELSE last[k - (n - 1)]
      BY <2>3, <3>1, <3>2
    <3> QED BY <3>3 DEF first
  <2>5. v[i].states = all /\ v[i].index = i - 1 /\ v[i].inv = r[i].inv
        /\ v[i] = [index |-> i - 1, inv |-> r[i].inv, states |-> all]
    BY <2>1 DEF last
  <2> HIDE DEF all
  <2>6. n - 1 + 1 = n /\ n \in 1..n /\ n - (n - 1) = 1 /\ ~(n <= n - 1)
    BY <1>4
  <2>7. all[n] = r[i].state
    <3>1. all[n] = IF n <= n - 1 THEN before(i)[n] ELSE last[n - (n - 1)]
      BY <2>4, <2>6
    <3> QED BY <2>3, <2>6, <3>1
  <2>8. ASSUME NEW k \in 1..(n - 1) PROVE all[k] = before(i)[k]
    <3>1. k \in 1..(n - 1 + 1) /\ k <= n - 1
      BY <1>4
    <3>2. all[k] = IF k <= n - 1 THEN before(i)[k] ELSE last[k - (n - 1)]
      BY <2>4, <3>1
    <3> QED BY <3>1, <3>2
  <2>9. i - 1 \in Int
    OBVIOUS
  <2> QED BY <2>2, <2>4, <2>5, <2>6, <2>7, <2>8, <2>9
<1> HIDE DEF before
<1>8. DOMAIN v = 1..Len(r) /\ v \in Seq([index : Int, inv : Nat, states : Seq(States)]) /\ Len(v) = Len(r)
  <2>1. v = [i \in 1..Len(r) |-> v[i]]
    BY <1>2, <1>3
  <2> HIDE DEF r
  <2> QED BY <1>3, <1>7, <2>1
<1>9. ASSUME NEW k \in 1..n
      PROVE  SaidOf(results[k].records, k, v)
  <2>1. CASE k = n
    BY <1>2, <1>3, <1>7, <1>8, <2>1 DEF SaidOf
  <2>2. CASE k # n
    <3>1. n > 1 /\ n - 1 > 0 /\ k \in 1..(n - 1)
      BY <1>4, <2>2
    <3>2. /\ Len(results[k].records) = Len(made)
          /\ \A i \in 1..Len(made) : /\ results[k].records[i].index = i - 1
                                     /\ results[k].records[i].inv = made[i].inv
                                     /\ results[k].records[i].state = made[i].states[k]
      BY <3>1 DEF Covered, SaidOf
    <3>3. Len(r) = Len(made) /\ \A i \in 1..Len(r) : r[i].inv = made[i].inv
      BY <1>2, <1>3, <3>1
    <3> HIDE DEF r
    <3>4. \A i \in 1..Len(r) : v[i].states[k] = made[i].states[k]
      BY <1>6, <1>7, <3>1
    <3> QED BY <1>7, <1>8, <3>2, <3>3, <3>4 DEF SaidOf
  <2> QED BY <2>1, <2>2
<1> QED BY <1>7, <1>8, <1>9 DEF Covered

\* A record is converted: the groups and the outcome are what it says.
LEMMA CallConverts ==
  ASSUME CallInv, Convert
  PROVE  CallInv'
<1>1. /\ Current > 0 /\ results[Current].owned /\ answer = Nothing /\ outcome = Nothing /\ call # None
      /\ results[Current].status = 0 /\ Owned /\ call \in Methods
  BY DEF Convert, InTry, Running, Owned, CallInv, CallTypes
<1> DEFINE made == Converted(call, Current, groups, results[Current].records)
<1>2. UNCHANGED <<request, call, results, answer, releases>>
  BY DEF Convert
<1>3. CASE made = {}
  <2>1. outcome' = Raised /\ groups' = groups
    BY <1>3 DEF Convert
  <2>2. InTry
    BY DEF Convert
  <2> QED BY <1>2, <2>1, <2>2, CallRaises
<1>4. CASE made # {}
  <2>1. PICK v \in made : outcome' = Value(v) /\ groups' = v
    BY <1>4 DEF Convert
  <2>2. Current' = Current /\ Current \in Nat
    BY <1>2, LenProperties DEF CallInv, CallTypes, Current
  <2>3. CallTypes'
    BY <1>1, <1>2, <2>1, <2>2 DEF CallInv, CallTypes, IsOutcome, Current
  <2>4. CallOwns'
    BY <1>1, <1>2, <2>2 DEF CallInv, CallOwns
  <2>5. PICK n \in 1..Current : n = Current
    BY <1>1, <2>2
  <2>6. Done = n - 1 /\ Done' = n
    <3>1. outcome' # Nothing
      BY <2>1, Kinds
    <3> QED BY <1>1, <2>2, <2>5, <3>1 DEF Done
  <2>7. MadeOf(n - 1, groups)
    BY <1>1, <2>6, Kinds DEF CallInv, CallValues
  <2>8. MadeOf(n, v)
    <3>1. CASE call = "coverage"
      <4>1. v \in Coverage(n, groups, results[n].records)
        BY <2>1, <2>5, <3>1 DEF Converted
      <4>2. Covered(n - 1, groups)
        BY <2>7, <3>1 DEF MadeOf
      <4>3. Covered(n, v)
        BY <3>1, <4>1, <4>2, CoverageCovers DEF CallInv
      <4> QED BY <3>1, <4>3 DEF MadeOf
    <3>2. CASE call # "coverage"
      <4>1. n = 1
        BY <1>1, <2>2, <2>5, <3>2 DEF CallInv, CallTypes, NativeCalls
      <4>2. v \in Converted(call, 1, groups, results[1].records)
        BY <2>1, <2>5, <4>1
      <4>3. Converted(call, 1, groups, results[1].records) = Converted(call, 1, <<>>, results[1].records)
        BY <1>1, <3>2, NativeAssumption DEF Converted, MethodNames
      <4> QED BY <3>2, <4>2, <4>3 DEF MadeOf
    <3> QED BY <3>1, <3>2
  <2>9. MadeOf(n, v)'
    <3>1. Covered(n, v) <=> Covered(n, v)'
      BY <1>2 DEF Covered
    <3> QED BY <1>2, <2>8, <3>1 DEF MadeOf
  <2>10. MadeOf(Done, groups)'
    BY <2>1, <2>6, <2>9
  <2>11. /\ outcome'.kind = "value" /\ outcome'.value = groups' /\ results'[Current'].status = 0
         /\ answer'.kind # "value"
    BY <1>1, <1>2, <2>1, <2>2, Kinds
  <2>12. CallValues'
    BY <2>10, <2>11 DEF CallValues
  <2> QED BY <2>3, <2>4, <2>12 DEF CallInv
<1> QED BY <1>3, <1>4

\* The finally clause releases the result; the exception or the last value is
\* what the method returns.
LEMMA CallFinishes ==
  ASSUME CallInv, Finally
  PROVE  CallInv'
<1>1. /\ outcome # Nothing /\ Current > 0 /\ results[Current].owned /\ answer = Nothing /\ call # None
      /\ results \in Seq(NativeResult) /\ releases \in Seq(Nat) /\ Len(releases) = Current /\ Current \in Nat
      /\ Owned /\ call \in Methods /\ Current <= NativeCalls(call)
  BY LenProperties DEF CallInv, CallTypes, CallOwns, Finally, Current, Owned
<1>2. PICK n \in Nat : n = Current
  BY <1>1
<1>3. n \in 1..Len(results) /\ n \in 1..Len(releases) /\ releases[n] = 0 /\ results[n] \in NativeResult /\ results[n].owned
  <2>1. n \in 1..Len(results) /\ n \in 1..Len(releases)
    BY <1>1, <1>2 DEF Current
  <2>2. releases[n] = 0
    BY <1>1, <1>2, <2>1 DEF CallInv, CallOwns, Current
  <2> QED BY <1>1, <1>2, <2>1, <2>2, ElementOfSeq
<1> DEFINE freed == [results[n] EXCEPT !.owned = FALSE]
<1>4. /\ freed \in NativeResult /\ freed.owned = FALSE /\ freed.status = results[n].status
      /\ freed.records = results[n].records
  BY <1>3 DEF NativeResult
<1>5. results' = [results EXCEPT ![n] = freed] /\ releases' = [releases EXCEPT ![n] = 1]
  BY <1>2, <1>3 DEF Finally
<1>6. UNCHANGED <<request, call, groups>> /\ outcome' = Nothing
  BY DEF Finally
<1> HIDE DEF freed
<1>7. /\ results' \in Seq(NativeResult) /\ Len(results') = Len(results)
      /\ \A k \in 1..Len(results) : results'[k] = IF k = n THEN freed ELSE results[k]
  BY <1>1, <1>3, <1>4, <1>5, ExceptSeq
<1>8. /\ releases' \in Seq(Nat) /\ Len(releases') = Len(releases)
      /\ \A k \in 1..Len(releases) : releases'[k] = IF k = n THEN 1 ELSE releases[k]
  BY <1>1, <1>3, <1>5, ExceptSeq
<1>9. Current' = n /\ Len(releases) = n
  BY <1>1, <1>2, <1>7 DEF Current
<1>10. /\ ~results'[n].owned /\ releases'[n] = 1 /\ results'[n].status = results[n].status
       /\ results'[n].records = results[n].records
       /\ \A k \in 1..n : k # n => results'[k] = results[k] /\ releases'[k] = releases[k]
  BY <1>2, <1>3, <1>4, <1>7, <1>8, <1>9 DEF Current
<1>11. IF outcome = Raised \/ n = NativeCalls(call) THEN answer' = outcome ELSE answer' = Nothing
  BY <1>1, <1>2 DEF Finally
<1>12. IsOutcome(outcome) /\ (outcome = Raised \/ (outcome.kind = "value" /\ outcome.value = groups /\ results[n].status = 0))
  BY <1>1, <1>2, Kinds DEF CallInv, CallTypes, CallValues, IsOutcome
<1>13. CallTypes'
  <2>1. \A k \in 1..n : results'[k].records = results[k].records
    BY <1>10
  <2>2. \A k \in 1..n : results'[k].records \in Records(call, k)
    BY <1>2, <2>1 DEF CallInv, CallTypes
  <2>3. IsOutcome(answer') /\ IsOutcome(outcome')
    BY <1>6, <1>11, <1>12 DEF IsOutcome
  <2>4. Len(releases') = Len(results')
    BY <1>7, <1>8 DEF CallInv, CallTypes
  <2>5. call' = call /\ call # None /\ request' = request /\ n <= NativeCalls(call)
    BY <1>1, <1>2, <1>6
  <2> QED BY <1>7, <1>8, <1>9, <2>2, <2>3, <2>4, <2>5 DEF CallInv, CallTypes
<1>14. ASSUME NEW k \in 1..n
       PROVE  releases'[k] = 1 /\ ~results'[k].owned /\ results'[k].records = results[k].records
  <2>1. CASE k = n
    BY <1>10, <2>1
  <2>2. CASE k # n
    <3>1. ~results[k].owned /\ releases[k] = 1
      BY <1>2, <2>2 DEF CallInv, CallOwns
    <3> QED BY <1>10, <2>2, <3>1
  <2> QED BY <2>1, <2>2
<1>15. ASSUME NEW k \in 1..n, k < n \/ outcome # Raised
       PROVE  results'[k].status = 0
  <2>1. CASE k = n
    BY <1>10, <1>12, <1>15, <2>1
  <2>2. CASE k # n
    <3>1. results[k].status = 0
      BY <1>2, <2>2 DEF CallInv, CallOwns
    <3> QED BY <1>10, <2>2, <3>1
  <2> QED BY <2>1, <2>2
<1>16. n \in 1..n
  BY <1>3
<1>17. CallOwns'
  <2>1. \A k \in 1..n : /\ releases'[k] = IF results'[k].owned THEN 0 ELSE 1
                        /\ k < n => ~results'[k].owned /\ results'[k].status = 0
    BY <1>14, <1>15
  <2>2. answer' = Nothing => results'[n].status = 0 /\ n < NativeCalls(call)
    <3>1. answer' = Nothing => outcome # Raised /\ n # NativeCalls(call)
      BY <1>1, <1>11
    <3>2. NativeCalls(call) \in Nat /\ n <= NativeCalls(call)
      BY <1>1, <1>2 DEF NativeCalls
    <3> QED BY <1>15, <1>16, <3>1, <3>2
  <2> QED BY <1>6, <1>9, <1>14, <2>1, <2>2 DEF CallOwns
<1>18. CallValues'
  <2>1. Done' = n
    <3>1. ~Owned'
      BY <1>9, <1>10 DEF Owned
    <3> QED BY <1>9, <3>1 DEF Done
  <2>2. answer'.kind = "value" => outcome.kind = "value" /\ answer' = outcome /\ n = NativeCalls(call)
    BY <1>11, <1>12, Kinds
  <2>3. answer' # Raised => outcome # Raised
    BY <1>11
  <2>4. outcome # Raised => MadeOf(n, groups)
    <3>1. Done = n
      BY <1>1, <1>2 DEF Done
    <3> QED BY <1>1, <3>1, Kinds DEF CallInv, CallValues
  <2>5. MadeOf(n, groups) => MadeOf(n, groups)'
    <3> SUFFICES ASSUME MadeOf(n, groups) PROVE MadeOf(n, groups)'
      OBVIOUS
    <3>1. CASE call = "coverage"
      <4>1. Covered(n, groups)
        BY <3>1 DEF MadeOf
      <4>2. Covered(n, groups)'
        BY <1>6, <1>14, <4>1 DEF Covered
      <4> QED BY <1>6, <3>1, <4>2 DEF MadeOf
    <3>2. CASE call # "coverage"
      <4>1. n = 1 => results'[1].records = results[1].records
        BY <1>14, <1>16
      <4> QED BY <1>6, <3>2, <4>1 DEF MadeOf
    <3> QED BY <3>1, <3>2
  <2>6. answer' # Raised => MadeOf(Done, groups)'
    BY <2>1, <2>3, <2>4, <2>5
  <2>7. answer'.kind = "value" => answer'.value = groups' /\ \A k \in 1..n : results'[k].status = 0
    <3>1. outcome.kind = "value" => outcome # Raised
      BY Kinds
    <3> QED BY <1>6, <1>12, <1>15, <2>2, <3>1
  <2>8. outcome'.kind # "value"
    BY <1>6, Kinds
  <2> QED BY <1>6, <1>9, <2>2, <2>6, <2>7, <2>8 DEF CallValues
<1> QED BY <1>13, <1>17, <1>18 DEF CallInv

LEMMA CallStep == CallInv /\ [ANext]_avars => CallInv'
<1> SUFFICES ASSUME CallInv, [ANext]_avars PROVE CallInv'
  OBVIOUS
<1>1. ASSUME NEW m \in Methods, NEW args \in Requests(m), Call(m, args) PROVE CallInv'
  BY <1>1, CallCalls
<1>2. ASSUME Running, NEW status \in {0, 1}, NEW r \in Records(call, Current + 1), NativeCall(status, r) PROVE CallInv'
  BY <1>2, CallRecords
<1>3. CASE Fail
  BY <1>3, CallRaises DEF Fail
<1>4. CASE WarningRaises
  BY <1>4, CallRaises DEF WarningRaises
<1>5. CASE Convert
  BY <1>5, CallConverts
<1>6. CASE Finally
  BY <1>6, CallFinishes
<1>7. CASE Return
  <2>1. call' = None /\ request' = NoRequest /\ outcome' = Nothing /\ answer' = Nothing /\ results' = <<>> /\ releases' = <<>>
    BY <1>7 DEF Return
  <2>2. <<>> \in Seq(NativeResult) /\ <<>> \in Seq(Nat) /\ Len(<<>>) = 0
    BY EmptySeq
  <2>3. Current' = 0
    BY <2>1, <2>2 DEF Current
  <2>4. CallTypes'
    BY <2>1, <2>2, <2>3 DEF CallTypes, IsOutcome
  <2>5. CallOwns'
    BY <2>1, <2>3 DEF CallOwns
  <2>6. CallValues'
    BY <2>1, <2>3, Kinds DEF CallValues
  <2> QED BY <2>4, <2>5, <2>6 DEF CallInv
<1>8. CASE UNCHANGED avars
  <2>1. Current' = Current /\ Done' = Done
    BY <1>8 DEF avars, Current, Done, Owned
  <2>2. CallTypes' /\ CallOwns'
    BY <1>8, <2>1 DEF avars, CallInv, CallTypes, CallOwns
  <2>3. CallValues'
    BY <1>8, <2>1 DEF avars, CallInv, CallValues, MadeOf, Covered
  <2> QED BY <2>2, <2>3 DEF CallInv
<1> QED BY <1>1, <1>2, <1>3, <1>4, <1>5, <1>6, <1>7, <1>8 DEF ANext

\* Every record that the library returned is released, once, whichever way
\* the method leaves.
THEOREM ResultsReleasedOnce == ASpec => []ResultsReleased
<1>1. ASSUME CallInv PROVE ResultsReleased
  <2> SUFFICES ASSUME ~Running
               PROVE  /\ \A k \in DOMAIN releases : releases[k] = 1
                      /\ answer.kind = "value" => \A k \in DOMAIN results : results[k].status = 0
    BY DEF ResultsReleased
  <2>1. DOMAIN releases = 1..Current /\ DOMAIN results = 1..Current /\ Current \in Nat
    BY <1>1, LenProperties DEF CallInv, CallTypes, Current
  <2>2. CASE call = None
    <3>1. Current = 0
      BY <1>1, <2>2, EmptySeq DEF CallInv, CallTypes, Current
    <3> QED BY <2>1, <3>1
  <2>3. CASE call # None
    <3>1. answer # Nothing
      BY <2>3 DEF Running
    <3> QED BY <1>1, <2>1, <3>1 DEF CallInv, CallOwns, CallValues
  <2> QED BY <2>2, <2>3
<1> QED BY <1>1, CallInit, CallStep, PTL DEF ASpec

-----------------------------------------------------------------------------
(* NativeApi: what is sent.                                                *)

\* Roles and precisions have different names, so a name and its number stand
\* for each other.
LEMMA CodesExact ==
  /\ \A x \in Range(RoleNames) : Code(RoleNames, x) \in DOMAIN RoleNames /\ RoleNames[Code(RoleNames, x)] = x
  /\ \A k \in DOMAIN RoleNames : RoleNames[k] \in Range(RoleNames) /\ Code(RoleNames, RoleNames[k]) = k
  /\ \A x \in Range(PrecisionNames) :
       Code(PrecisionNames, x) \in DOMAIN PrecisionNames /\ PrecisionNames[Code(PrecisionNames, x)] = x
  /\ \A k \in DOMAIN PrecisionNames :
       PrecisionNames[k] \in Range(PrecisionNames) /\ Code(PrecisionNames, PrecisionNames[k]) = k
<1>1. \A j, k \in DOMAIN RoleNames : RoleNames[j] = RoleNames[k] => j = k
  BY DEF RoleNames
<1>2. \A j, k \in DOMAIN PrecisionNames : PrecisionNames[j] = PrecisionNames[k] => j = k
  BY DEF PrecisionNames
<1>3. ASSUME NEW names, NEW x \in Range(names)
      PROVE  Code(names, x) \in DOMAIN names /\ names[Code(names, x)] = x
  BY DEF Code, Range
<1>4. ASSUME NEW names, NEW k \in DOMAIN names, \A i, j \in DOMAIN names : names[i] = names[j] => i = j
      PROVE  names[k] \in Range(names) /\ Code(names, names[k]) = k
  BY <1>4 DEF Code, Range
<1> QED BY <1>1, <1>2, <1>3, <1>4

\* A tensor whose role and precision are replaced.
LEMMA Replaced ==
  ASSUME NEW x, NEW r, NEW i, NEW d, NEW c, NEW s, NEW p, NEW q,
         x = [role |-> r, index |-> i, dtype |-> d, count |-> c, span |-> s]
  PROVE  [x EXCEPT !.role = p, !.dtype = q] = [role |-> p, index |-> i, dtype |-> q, count |-> c, span |-> s]
<1> DEFINE y == [x EXCEPT !.role = p]
<1>1. y = [role |-> p, index |-> i, dtype |-> d, count |-> c, span |-> s]
  OBVIOUS
<1>2. [x EXCEPT !.role = p, !.dtype = q] = [y EXCEPT !.dtype = q]
  OBVIOUS
<1> HIDE DEF y
<1>3. [y EXCEPT !.dtype = q] = [role |-> p, index |-> i, dtype |-> q, count |-> c, span |-> s]
  BY <1>1
<1> QED BY <1>2, <1>3

\* A target of the second version is the same on both sides.
LEMMA ClientTargets ==
  ASSUME NEW t, OfTensors(t, ClientTensor)
  PROVE  TargetV2(NativeTargetV2(t)) = t
<1>1. t = [tensors |-> t.tensors] /\ t.tensors \in Seq(ClientTensor)
  BY DEF OfTensors
<1> DEFINE s == t.tensors
           coded(x) == [x EXCEPT !.role = Code(RoleNames, @), !.dtype = Code(PrecisionNames, @)]
           named(x) == [x EXCEPT !.role = RoleNames[@], !.dtype = PrecisionNames[@]]
<1>2. \A k \in DOMAIN s : s[k] \in ClientTensor
  BY <1>1, LenProperties, ElementOfSeq
<1>3. ASSUME NEW x \in ClientTensor PROVE named(coded(x)) = x
  <2>1. /\ x = [role |-> x.role, index |-> x.index, dtype |-> x.dtype, count |-> x.count, span |-> x.span]
        /\ x.role \in Range(RoleNames) /\ x.dtype \in Range(PrecisionNames)
    BY DEF ClientTensor
  <2>2. RoleNames[Code(RoleNames, x.role)] = x.role /\ PrecisionNames[Code(PrecisionNames, x.dtype)] = x.dtype
    BY <2>1, CodesExact
  <2>3. coded(x) = [role |-> Code(RoleNames, x.role), index |-> x.index, dtype |-> Code(PrecisionNames, x.dtype),
                    count |-> x.count, span |-> x.span]
    <3>1. coded(x) = [x EXCEPT !.role = Code(RoleNames, x.role), !.dtype = Code(PrecisionNames, x.dtype)]
      OBVIOUS
    <3> HIDE DEF coded
    <3> QED BY <2>1, <3>1, Replaced
  <2> HIDE DEF coded
  <2>4. named(coded(x)) = [role |-> RoleNames[Code(RoleNames, x.role)], index |-> x.index,
                           dtype |-> PrecisionNames[Code(PrecisionNames, x.dtype)], count |-> x.count, span |-> x.span]
    <3>1. ASSUME NEW y, NEW r, NEW d,
                 y = [role |-> r, index |-> x.index, dtype |-> d, count |-> x.count, span |-> x.span]
          PROVE  named(y) = [role |-> RoleNames[r], index |-> x.index,
                           dtype |-> PrecisionNames[d], count |-> x.count, span |-> x.span]
      <4>1. y.role = r /\ y.dtype = d
        BY <3>1
      <4>2. named(y) = [y EXCEPT !.role = RoleNames[y.role], !.dtype = PrecisionNames[y.dtype]]
        OBVIOUS
      <4> HIDE DEF named
      <4>3. named(y) = [y EXCEPT !.role = RoleNames[r], !.dtype = PrecisionNames[d]]
        BY <4>1, <4>2
      <4> QED BY <3>1, <4>3, Replaced
    <3> HIDE DEF named
    <3> QED BY <2>3, <3>1
  <2> QED BY <2>1, <2>2, <2>4
<1>4. NativeTargetV2(t) = [tensors |-> [k \in DOMAIN s |-> coded(s[k])]]
  BY DEF NativeTargetV2
<1> HIDE DEF coded, named, s
<1>5. TargetV2(NativeTargetV2(t)) = [tensors |-> [k \in DOMAIN s |-> named(coded(s[k]))]]
  <2>1. NativeTargetV2(t).tensors = [k \in DOMAIN s |-> coded(s[k])]
    BY <1>4
  <2>2. TargetV2(NativeTargetV2(t)) = [tensors |-> [k \in DOMAIN NativeTargetV2(t).tensors |-> named(NativeTargetV2(t).tensors[k])]]
    BY DEF TargetV2, named
  <2> QED BY <2>1, <2>2
<1>6. [k \in DOMAIN s |-> named(coded(s[k]))] = [k \in DOMAIN s |-> s[k]]
  BY <1>2, <1>3
<1>7. [k \in DOMAIN s |-> s[k]] = s
  BY <1>1 DEF s
<1> QED BY <1>1, <1>5, <1>6, <1>7 DEF s

LEMMA NativeTargets ==
  ASSUME NEW t, OfTensors(t, NativeTensor),
         \A k \in DOMAIN t.tensors : t.tensors[k].role \in DOMAIN RoleNames /\ t.tensors[k].dtype \in DOMAIN PrecisionNames
  PROVE  NativeTargetV2(TargetV2(t)) = t
<1>1. t = [tensors |-> t.tensors] /\ t.tensors \in Seq(NativeTensor)
  BY DEF OfTensors
<1> DEFINE s == t.tensors
           coded(x) == [x EXCEPT !.role = Code(RoleNames, @), !.dtype = Code(PrecisionNames, @)]
           named(x) == [x EXCEPT !.role = RoleNames[@], !.dtype = PrecisionNames[@]]
<1>2. \A k \in DOMAIN s : s[k] \in NativeTensor
  BY <1>1, LenProperties, ElementOfSeq
<1>3. ASSUME NEW x \in NativeTensor, x.role \in DOMAIN RoleNames, x.dtype \in DOMAIN PrecisionNames
      PROVE  coded(named(x)) = x
  <2>1. x = [role |-> x.role, index |-> x.index, dtype |-> x.dtype, count |-> x.count, span |-> x.span]
    BY DEF NativeTensor
  <2>2. Code(RoleNames, RoleNames[x.role]) = x.role /\ Code(PrecisionNames, PrecisionNames[x.dtype]) = x.dtype
    BY <1>3, CodesExact
  <2>3. named(x) = [role |-> RoleNames[x.role], index |-> x.index, dtype |-> PrecisionNames[x.dtype],
                    count |-> x.count, span |-> x.span]
    <3>1. named(x) = [x EXCEPT !.role = RoleNames[x.role], !.dtype = PrecisionNames[x.dtype]]
      OBVIOUS
    <3> HIDE DEF named
    <3> QED BY <2>1, <3>1, Replaced
  <2> HIDE DEF named
  <2>4. coded(named(x)) = [role |-> Code(RoleNames, RoleNames[x.role]), index |-> x.index,
                           dtype |-> Code(PrecisionNames, PrecisionNames[x.dtype]), count |-> x.count, span |-> x.span]
    <3>1. ASSUME NEW y, NEW r, NEW d,
                 y = [role |-> r, index |-> x.index, dtype |-> d, count |-> x.count, span |-> x.span]
          PROVE  coded(y) = [role |-> Code(RoleNames, r), index |-> x.index,
                           dtype |-> Code(PrecisionNames, d), count |-> x.count, span |-> x.span]
      <4>1. y.role = r /\ y.dtype = d
        BY <3>1
      <4>2. coded(y) = [y EXCEPT !.role = Code(RoleNames, y.role), !.dtype = Code(PrecisionNames, y.dtype)]
        OBVIOUS
      <4> HIDE DEF coded
      <4>3. coded(y) = [y EXCEPT !.role = Code(RoleNames, r), !.dtype = Code(PrecisionNames, d)]
        BY <4>1, <4>2
      <4> QED BY <3>1, <4>3, Replaced
    <3> HIDE DEF coded
    <3> QED BY <2>3, <3>1
  <2> QED BY <2>1, <2>2, <2>4
<1>4. TargetV2(t) = [tensors |-> [k \in DOMAIN s |-> named(s[k])]]
  BY DEF TargetV2
<1>5. \A k \in DOMAIN s : s[k].role \in DOMAIN RoleNames /\ s[k].dtype \in DOMAIN PrecisionNames
  OBVIOUS
<1> HIDE DEF coded, named, s
<1>6. NativeTargetV2(TargetV2(t)) = [tensors |-> [k \in DOMAIN s |-> coded(named(s[k]))]]
  <2>1. TargetV2(t).tensors = [k \in DOMAIN s |-> named(s[k])]
    BY <1>4
  <2>2. NativeTargetV2(TargetV2(t)) = [tensors |-> [k \in DOMAIN TargetV2(t).tensors |-> coded(TargetV2(t).tensors[k])]]
    BY DEF NativeTargetV2, coded
  <2> QED BY <2>1, <2>2
<1>7. [k \in DOMAIN s |-> coded(named(s[k]))] = [k \in DOMAIN s |-> s[k]]
  BY <1>2, <1>3, <1>5
<1>8. [k \in DOMAIN s |-> s[k]] = s
  BY <1>1 DEF s
<1> QED BY <1>1, <1>6, <1>7, <1>8 DEF s

\* Equal native selectors select the same argument, and only a name carries
\* the largest word as its index.
LEMMA Selectors ==
  ASSUME NEW v, NEW w, ValidSelector(v), ValidSelector(w), MaxWord \in Nat,
         v.name = None \/ v.name \in [id : {v.name.id}, size : Nat],
         w.name = None \/ w.name \in [id : {w.name.id}, size : Nat]
  PROVE  /\ NativeSelector(v) = NativeSelector(w) =>
              \/ v.name # None /\ v.name = w.name
              \/ v.name = None /\ w.name = None /\ v.index = w.index
         /\ NativeSelector(v).index = MaxWord <=> NativeSelector(v).name.size > 0
<1>1. /\ NativeSelector(v).index = (IF v.name = None THEN v.index ELSE MaxWord)
      /\ NativeSelector(w).index = (IF w.name = None THEN w.index ELSE MaxWord)
      /\ NativeSelector(v).name = Optional(v.name) /\ NativeSelector(w).name = Optional(w.name)
  BY DEF NativeSelector
<1>2. ASSUME NEW u \in {v, w}, u.name = None
      PROVE  u.index # MaxWord /\ Optional(u.name).size = 0
  <2>1. u.index \in 0..(MaxWord - 1)
    BY <1>2 DEF ValidSelector
  <2>2. Optional(u.name) = View(NoBytes)
    BY <1>2 DEF Optional
  <2> QED BY <2>1, <2>2 DEF View, NoBytes
<1>3. ASSUME NEW u \in {v, w}, u.name # None
      PROVE  /\ u.name = [id |-> u.name.id, size |-> u.name.size] /\ u.name.size \in Nat \ {0}
             /\ Optional(u.name).pointer = u.name.id /\ Optional(u.name).size = u.name.size
  <2>1. u.name \in [id : {u.name.id}, size : Nat] /\ u.name.size > 0
    BY <1>3 DEF ValidSelector
  <2>2. u.name = [id |-> u.name.id, size |-> u.name.size] /\ u.name.size \in Nat \ {0}
    BY <2>1
  <2>3. Optional(u.name) = View(u.name)
    BY <1>3 DEF Optional
  <2>4. View(u.name).pointer = u.name.id /\ View(u.name).size = u.name.size
    BY <2>2 DEF View
  <2> QED BY <2>2, <2>3, <2>4
<1>4. CASE v.name = None /\ w.name = None
  BY <1>1, <1>2, <1>4
<1>5. CASE v.name # None /\ w.name # None
  <2>1. ASSUME NativeSelector(v) = NativeSelector(w) PROVE v.name = w.name
    <3>1. v.name.id = w.name.id /\ v.name.size = w.name.size
      BY <1>1, <1>3, <1>5, <2>1
    <3> QED BY <1>3, <1>5, <3>1
  <2>2. NativeSelector(v).index = MaxWord /\ NativeSelector(v).name.size > 0
    BY <1>1, <1>3, <1>5
  <2> QED BY <1>5, <2>1, <2>2
<1>6. CASE v.name = None /\ w.name # None
  BY <1>1, <1>2, <1>6
<1>7. CASE v.name # None /\ w.name = None
  <2>1. NativeSelector(v).index = MaxWord /\ NativeSelector(v).name.size > 0
    BY <1>1, <1>3, <1>7
  <2>2. NativeSelector(w).index # MaxWord
    BY <1>1, <1>2, <1>7
  <2> QED BY <2>1, <2>2
<1> QED BY <1>4, <1>5, <1>6, <1>7

\* The inputs of an inference are sent one by one.
LEMMA InputsSent ==
  ASSUME call \in {"infer", "infer_copied", "infer_shared"},
         NEW a \in Requests(call), NEW sent \in Sent(call, a)
  PROVE  \A i \in DOMAIN a.inputs : ValidSelector(a.inputs[i]) /\ sent.inputs[i] = NativeSelector(a.inputs[i])
<1>1. ASSUME NEW s \in InferGraph(a)
      PROVE  \A i \in DOMAIN a.inputs : ValidSelector(a.inputs[i]) /\ s.inputs[i] = NativeSelector(a.inputs[i])
  <2>1. /\ s = [graph |-> View(a.graph), inputs |-> [i \in DOMAIN a.inputs |-> NativeSelector(a.inputs[i])],
                data |-> [i \in DOMAIN a.inputs |-> View(a.inputs[i].data)]]
        /\ \A i \in DOMAIN a.inputs : ValidInput(a.inputs[i])
    BY <1>1 DEF InferGraph, Require
  <2>2. s.inputs = [i \in DOMAIN a.inputs |-> NativeSelector(a.inputs[i])]
    BY <2>1
  <2> QED BY <2>1, <2>2 DEF ValidInput
<1>2. CASE call = "infer"
  BY <1>1, <1>2 DEF Sent
<1>3. CASE call = "infer_copied"
  <2>1. sent \in InferCopied(a)
    BY <1>3 DEF Sent
  <2>2. sent \in InferGraph(a)
    BY <2>1 DEF InferCopied
  <2> QED BY <1>1, <2>2
<1>4. CASE call = "infer_shared"
  <2>1. sent \in InferShared(a)
    BY <1>4 DEF Sent
  <2>2. PICK b \in BindingArray(a.inputs) : sent.inputs = b
    BY <2>1 DEF InferShared
  <2>3. /\ b = [i \in DOMAIN a.inputs |-> NativeSelector(a.inputs[i])]
        /\ \A i \in DOMAIN a.inputs : ValidSelector(a.inputs[i])
    BY <2>2 DEF BindingArray, Require
  <2> QED BY <2>2, <2>3
<1> QED BY <1>2, <1>3, <1>4

\* What the native library is asked is what the client asked, for any
\* arguments of the types that the methods declare.
THEOREM RequestsFaithful == ASpec => []RequestFaithful
<1>1. ASSUME CallInv PROVE RequestFaithful
  <2> SUFFICES ASSUME NEW sent \in request.sent
               PROVE  LET args == request.args
                      IN /\ call = "patch" =>
                              /\ sent.count = Len(sent.targets) /\ sent.count > 0
                              /\ \A i \in DOMAIN args.targets :
                                   args.targets[i] = IF IsV2(args.targets[i]) THEN TargetV2(sent.targets[i]) ELSE sent.targets[i]
                         /\ call \in {"infer", "infer_copied", "infer_shared"} => \A i, j \in DOMAIN args.inputs :
                              /\ \/ sent.inputs[i] # sent.inputs[j]
                                 \/ args.inputs[i].name # None /\ args.inputs[i].name = args.inputs[j].name
                                 \/ args.inputs[i].name = None /\ args.inputs[j].name = None /\ args.inputs[i].index = args.inputs[j].index
                              /\ sent.inputs[i].index = MaxWord <=> sent.inputs[i].name.size > 0
    BY DEF RequestFaithful
  <2> DEFINE a == request.args
  <2>1. call \in Methods /\ a \in Requests(call) /\ sent \in Sent(call, a)
    <3>1. call # None
      <4>1. NoRequest.sent = {}
        BY DEF NoRequest
      <4> QED BY <1>1, <4>1 DEF CallInv, CallTypes
    <3> QED BY <1>1, <3>1 DEF CallInv, CallTypes
  <2> HIDE DEF a
  <2>2. ASSUME call = "patch"
        PROVE  /\ sent.count = Len(sent.targets) /\ sent.count > 0
               /\ \A i \in DOMAIN a.targets :
                    a.targets[i] = IF IsV2(a.targets[i]) THEN TargetV2(sent.targets[i]) ELSE sent.targets[i]
    <3> DEFINE ts == a.targets
               v2 == \A i \in DOMAIN ts : IsV2(ts[i])
               v1 == \A i \in DOMAIN ts : ~IsV2(ts[i])
    <3>1. /\ ts \in Seq(Range(ts)) /\ \A t \in Range(ts) : "tensors" \in DOMAIN t => OfTensors(t, ClientTensor)
      BY <2>1, <2>2, NativeAssumption
    <3>2. DOMAIN ts = 1..Len(ts) /\ Len(ts) \in Nat
      BY <3>1, LenProperties
    <3>3. sent \in PatchGraph(a)
      BY <2>1, <2>2 DEF Sent
    <3>4. /\ ts # <<>> /\ (v1 \/ v2) /\ sent.count = Len(ts)
          /\ sent.targets = [i \in DOMAIN ts |-> IF v2 THEN NativeTargetV2(ts[i]) ELSE ts[i]]
      <4>1. ts # <<>> /\ (v1 \/ v2)
        BY <3>3 DEF PatchGraph, Require
      <4>2. sent = [v2 |-> v2, graph |-> View(a.graph), elf |-> View(a.elf), count |-> Len(ts),
                    targets |-> [i \in DOMAIN ts |-> IF v2 THEN NativeTargetV2(ts[i]) ELSE ts[i]]]
        BY <3>3 DEF PatchGraph, Require
      <4> HIDE DEF v1, v2, ts
      <4> QED BY <4>1, <4>2
    <3>5. \A i \in DOMAIN ts : ts[i] \in Range(ts)
      BY DEF Range
    <3>6. Len(ts) > 0
      BY <3>1, <3>2, <3>4, EmptySeq, SeqEqual
    <3>7. Len(sent.targets) = Len(ts)
      <4>1. DOMAIN sent.targets = 1..Len(ts)
        BY <3>2, <3>4
      <4>2. sent.targets \in [1..Len(ts) -> Range(sent.targets)]
        <5>1. \A i \in DOMAIN sent.targets : sent.targets[i] \in Range(sent.targets)
          BY DEF Range
        <5>2. sent.targets = [i \in DOMAIN sent.targets |-> sent.targets[i]]
          BY <3>4
        <5> QED BY <4>1, <5>1, <5>2
      <4> HIDE DEF ts
      <4>3. sent.targets \in Seq(Range(sent.targets))
        BY <3>2, <4>2, SeqDef
      <4> QED BY <3>2, <4>1, <4>3, LenProperties
    <3>8. ASSUME NEW i \in DOMAIN ts
          PROVE  ts[i] = IF IsV2(ts[i]) THEN TargetV2(sent.targets[i]) ELSE sent.targets[i]
      <4>1. CASE IsV2(ts[i])
        <5>1. v2
          BY <3>4, <4>1
        <5>2. sent.targets[i] = NativeTargetV2(ts[i])
          BY <3>4, <5>1
        <5>3. OfTensors(ts[i], ClientTensor)
          BY <3>1, <3>5, <4>1 DEF IsV2
        <5> QED BY <4>1, <5>2, <5>3, ClientTargets
      <4>2. CASE ~IsV2(ts[i])
        <5>1. ~v2
          BY <4>2
        <5> QED BY <3>4, <4>2, <5>1
      <4> QED BY <4>1, <4>2
    <3> QED BY <3>4, <3>6, <3>7, <3>8
  <2>3. ASSUME call \in {"infer", "infer_copied", "infer_shared"}, NEW i \in DOMAIN a.inputs, NEW j \in DOMAIN a.inputs
        PROVE  /\ \/ sent.inputs[i] # sent.inputs[j]
                  \/ a.inputs[i].name # None /\ a.inputs[i].name = a.inputs[j].name
                  \/ a.inputs[i].name = None /\ a.inputs[j].name = None /\ a.inputs[i].index = a.inputs[j].index
               /\ sent.inputs[i].index = MaxWord <=> sent.inputs[i].name.size > 0
    <3>1. \A k \in DOMAIN a.inputs : ValidSelector(a.inputs[k]) /\ sent.inputs[k] = NativeSelector(a.inputs[k])
      BY <2>1, <2>3, InputsSent
    <3>2. MaxWord \in Nat /\ \A k \in DOMAIN a.inputs :
            a.inputs[k].name = None \/ a.inputs[k].name \in [id : {a.inputs[k].name.id}, size : Nat]
      BY <2>1, <2>3, NativeAssumption
    <3>3. PICK v, w : v = a.inputs[i] /\ w = a.inputs[j]
      OBVIOUS
    <3>4. /\ NativeSelector(v) = NativeSelector(w) =>
               \/ v.name # None /\ v.name = w.name
               \/ v.name = None /\ w.name = None /\ v.index = w.index
          /\ NativeSelector(v).index = MaxWord <=> NativeSelector(v).name.size > 0
      <4>1. ValidSelector(v) /\ ValidSelector(w) /\ MaxWord \in Nat
        BY <3>1, <3>2, <3>3
      <4>2. /\ v.name = None \/ v.name \in [id : {v.name.id}, size : Nat]
            /\ w.name = None \/ w.name \in [id : {w.name.id}, size : Nat]
        BY <3>2, <3>3
      <4> QED BY <4>1, <4>2, Selectors
    <3> QED BY <3>1, <3>3, <3>4
  <2> QED BY <2>2, <2>3 DEF a
<1> QED BY <1>1, CallInit, CallStep, PTL DEF ASpec

-----------------------------------------------------------------------------
(* NativeApi: what is returned.                                            *)

\* Every target is in its group, after the group's earlier targets, and the
\* group holds nothing else.
LEMMA GroupedExact ==
  ASSUME NEW count \in Nat, NEW targets, targets \in Seq(Range(targets)),
         \A i \in DOMAIN targets : targets[i].group \in 0..(count - 1)
  PROVE  /\ DOMAIN Grouped(count, targets) = 1..count /\ Len(Grouped(count, targets)) = count
         /\ \A g \in 1..count :
              Len(Grouped(count, targets)[g]) = Cardinality({i \in DOMAIN targets : targets[i].group = g - 1})
         /\ \A i \in DOMAIN targets :
              LET g == targets[i].group
                  before == Cardinality({j \in 1..(i - 1) : targets[j].group = g})
              IN /\ before + 1 \in DOMAIN Grouped(count, targets)[g + 1]
                 /\ Grouped(count, targets)[g + 1][before + 1] = targets[i].target
<1> DEFINE In(g) == {i \in DOMAIN targets : targets[i].group = g - 1}
           own(g) == Picked(targets, In(g))
           G == Grouped(count, targets)
<1>1. G = [g \in 1..count |-> [i \in DOMAIN own(g) |-> own(g)[i].target]]
  BY DEF Grouped
<1> HIDE DEF G, own
<1>2. DOMAIN targets = 1..Len(targets) /\ Len(targets) \in Nat
  BY LenProperties
<1>3. ASSUME NEW f, NEW n \in Nat, DOMAIN f = 1..n, f = [k \in DOMAIN f |-> f[k]] PROVE Len(f) = n
  <2>1. f \in [1..n -> Range(f)]
    BY <1>3 DEF Range
  <2>2. f \in Seq(Range(f))
    BY <2>1, SeqDef
  <2> QED BY <1>3, <2>2, LenProperties
<1>4. DOMAIN G = 1..count /\ Len(G) = count
  <2>1. DOMAIN G = 1..count /\ G = [k \in DOMAIN G |-> G[k]]
    BY <1>1
  <2> QED BY <1>3, <2>1
<1>5. ASSUME NEW g \in 1..count
      PROVE  /\ DOMAIN G[g] = 1..Cardinality(In(g)) /\ Cardinality(In(g)) \in Nat
             /\ Len(G[g]) = Cardinality(In(g))
             /\ Ascending(In(g)) \in [1..Cardinality(In(g)) -> In(g)]
             /\ \A k \in 1..Cardinality(In(g)) :
                  /\ G[g][k] = targets[Ascending(In(g))[k]].target
                  /\ Cardinality({m \in In(g) : m < Ascending(In(g))[k]}) = k - 1
             /\ \A i \in In(g) : \E k \in 1..Cardinality(In(g)) : Ascending(In(g))[k] = i
  <2> DEFINE n == Cardinality(In(g))
  <2>1. In(g) \in SUBSET (DOMAIN targets)
    OBVIOUS
  <2> HIDE DEF In
  <2>2. /\ n \in Nat /\ DOMAIN own(g) = 1..n
        /\ \A k \in 1..n : own(g)[k] = targets[Ascending(In(g))[k]]
    <3>1. own(g) = Picked(targets, In(g))
      BY DEF own
    <3> HIDE DEF own
    <3>2. n \in Nat /\ DOMAIN own(g) = 1..n
      BY <2>1, <3>1, PickedExact
    <3>3. \A k \in 1..n : Picked(targets, In(g))[k] = targets[Ascending(In(g))[k]]
      BY <2>1, PickedExact
    <3> QED BY <3>1, <3>2, <3>3
  <2>3. /\ Ascending(In(g)) \in [1..n -> In(g)]
        /\ \A i \in In(g) : \E k \in 1..n : Ascending(In(g))[k] = i
    BY <2>1, PickedExact
  <2>4. \A k \in 1..n : Cardinality({m \in In(g) : m < Ascending(In(g))[k]}) = k - 1
    BY <2>1, PickedExact
  <2>5. G[g] = [i \in 1..n |-> own(g)[i].target]
    BY <1>1, <2>2
  <2>6. DOMAIN G[g] = 1..n /\ G[g] = [k \in DOMAIN G[g] |-> G[g][k]]
    BY <2>5
  <2> HIDE DEF n
  <2>7. Len(G[g]) = n
    BY <1>3, <2>2, <2>6
  <2>8. \A k \in 1..n : G[g][k] = targets[Ascending(In(g))[k]].target
    BY <2>2, <2>5
  <2> QED BY <2>2, <2>3, <2>4, <2>6, <2>7, <2>8 DEF n
<1>6. ASSUME NEW i \in DOMAIN targets
      PROVE  LET g == targets[i].group
                 before == Cardinality({j \in 1..(i - 1) : targets[j].group = g})
             IN before + 1 \in DOMAIN G[g + 1] /\ G[g + 1][before + 1] = targets[i].target
  <2>1. PICK g \in 1..count : targets[i].group = g - 1
    <3>1. targets[i].group \in 0..(count - 1)
      OBVIOUS
    <3>2. targets[i].group + 1 \in 1..count /\ targets[i].group = (targets[i].group + 1) - 1
      BY <3>1
    <3> QED BY <3>2
  <2> DEFINE Before == {j \in 1..(i - 1) : targets[j].group = g - 1}
  <2>2. i \in In(g)
    BY <2>1
  <2>3. PICK k \in 1..Cardinality(In(g)) : Ascending(In(g))[k] = i
    BY <1>5, <2>2
  <2>4. {m \in In(g) : m < i} = Before
    BY <1>2
  <2>5. Cardinality(Before) = k - 1
    <3>1. Cardinality({m \in In(g) : m < Ascending(In(g))[k]}) = k - 1
      BY <1>5
    <3> HIDE DEF In, Before
    <3> QED BY <2>3, <2>4, <3>1
  <2>6. G[g][k] = targets[i].target /\ k \in DOMAIN G[g]
    <3> HIDE DEF In
    <3> QED BY <1>5, <2>3
  <2>7. Cardinality(Before) + 1 = k
    BY <1>5, <2>5
  <2>8. (g - 1) + 1 = g
    OBVIOUS
  <2> HIDE DEF Before
  <2>9. Cardinality(Before) + 1 \in DOMAIN G[g] /\ G[g][Cardinality(Before) + 1] = targets[i].target
    BY <2>6, <2>7
  <2> QED BY <2>1, <2>8, <2>9 DEF Before
<1>7. \A g \in 1..count : Len(G[g]) = Cardinality(In(g))
  BY <1>5
<1> HIDE DEF In
<1> QED BY <1>4, <1>6, <1>7 DEF G, In

\* Different precisions have different names.
LEMMA DtypesDiffer ==
  ASSUME NEW p, NEW q, DtypeName(p) = DtypeName(q)
  PROVE  p = q
<1> DEFINE D == GraphinferDtypes
<1>1. /\ DOMAIN D = {1, 2, 3, 4, 5, 6, 7, 10, 17}
      /\ D[1] = "f32" /\ D[2] = "f16" /\ D[3] = "u16" /\ D[4] = "u8" /\ D[5] = "i32"
      /\ D[6] = "i16" /\ D[7] = "i8" /\ D[10] = "u32" /\ D[17] = "i64"
  BY DEF GraphinferDtypes
<1> HIDE DEF D
<1>2. \A x, y \in DOMAIN D : D[x] = D[y] => x = y
  BY <1>1
<1>3. \A x : DtypeName(x) = IF x \in DOMAIN D THEN <<D[x]>> ELSE <<"precision", x>>
  BY DEF DtypeName, D
<1>4. CASE p \in DOMAIN D /\ q \in DOMAIN D
  BY <1>2, <1>3, <1>4
<1>5. CASE p \notin DOMAIN D /\ q \notin DOMAIN D
  BY <1>3, <1>5
<1>6. CASE p \in DOMAIN D /\ q \notin DOMAIN D
  <2>1. <<D[p]>> = <<"precision", q>>
    BY <1>3, <1>6
  <2> QED BY <2>1
<1>7. CASE p \notin DOMAIN D /\ q \in DOMAIN D
  <2>1. <<D[q]>> = <<"precision", p>>
    BY <1>3, <1>7
  <2> QED BY <2>1
<1> QED BY <1>4, <1>5, <1>6, <1>7

\* The targets of group g, and the place of target i in its group.
TargetsOf(targets, g) == {i \in DOMAIN targets : targets[i].group = g - 1}
PlaceOf(targets, i) == Cardinality({j \in 1..(i - 1) : targets[j].group = targets[i].group}) + 1

\* The groups v list the targets.
Listed(v, count, targets) ==
  /\ Len(v) = count /\ <<>> \notin Range(v)
  /\ \A g \in DOMAIN v : Len(v[g]) = Cardinality(TargetsOf(targets, g))
  /\ \A i \in DOMAIN targets : v[targets[i].group + 1][PlaceOf(targets, i)] = targets[i].target

\* What a discovery says of the targets of its record.
LEMMA DiscoveryExact ==
  ASSUME NEW count \in Nat, NEW targets, NEW v, targets \in Seq(Range(targets)),
         \A i \in DOMAIN targets : targets[i].group \in Nat /\ targets[i].group < count,
         v = Grouped(count, targets), \A k \in DOMAIN v : v[k] # <<>>
  PROVE  Listed(v, count, targets)
<1>1. \A i \in DOMAIN targets : targets[i].group \in 0..(count - 1)
  OBVIOUS
<1>2. DOMAIN v = 1..count /\ Len(v) = count
  BY <1>1, GroupedExact
<1>3. ASSUME NEW g \in DOMAIN v PROVE Len(v[g]) = Cardinality(TargetsOf(targets, g))
  BY <1>1, <1>2, GroupedExact DEF TargetsOf
<1>4. ASSUME NEW i \in DOMAIN targets PROVE v[targets[i].group + 1][PlaceOf(targets, i)] = targets[i].target
  <2>1. \A k \in DOMAIN targets :
          LET g == targets[k].group
              before == Cardinality({j \in 1..(k - 1) : targets[j].group = g})
          IN /\ before + 1 \in DOMAIN Grouped(count, targets)[g + 1]
             /\ Grouped(count, targets)[g + 1][before + 1] = targets[k].target
    BY <1>1, GroupedExact
  <2> QED BY <2>1 DEF PlaceOf
<1>5. <<>> \notin Range(v)
  BY DEF Range
<1> QED BY <1>2, <1>3, <1>4, <1>5 DEF Listed

\* The records of a discovery, by their types.
AreTargets(targets) == \A i \in DOMAIN targets : IsTarget(targets[i])
ListTensors(targets) == \A i \in DOMAIN targets : OfTensors(targets[i].target, NativeTensor)

LEMMA DiscoveryRecords ==
  ASSUME NEW m \in Methods, m \in {"discover", "discover_v2"}, NEW r \in Records(m, 1)
  PROVE  /\ r.count \in Nat /\ r.targets \in Seq(Range(r.targets))
         /\ AreTargets(r.targets) /\ (m = "discover_v2" => ListTensors(r.targets))
<1>1. 1 \in 1..3
  OBVIOUS
<1>2. /\ r.count \in Nat /\ r.targets \in Seq(Range(r.targets))
      /\ \A t \in Range(r.targets) : /\ IsTarget(t)
                                     /\ m = "discover_v2" => OfTensors(t.target, NativeTensor)
  BY <1>1, NativeAssumption
<1>3. \A i \in DOMAIN r.targets : r.targets[i] \in Range(r.targets)
  BY DEF Range
<1> QED BY <1>2, <1>3 DEF AreTargets, ListTensors

LEMMA Targets ==
  ASSUME NEW t, IsTarget(t)
  PROVE  t.group \in Nat /\ \A u : LET s == [t EXCEPT !.target = u] IN s.group = t.group /\ s.target = u
BY DEF IsTarget

\* The first version of the discovery.
LEMMA DiscoverAnswers ==
  ASSUME call = "discover", call \in Methods, NEW r \in Records(call, 1), NEW v \in Discovered(r)
  PROVE  Listed(v, r.count, r.targets)
<1>1. /\ r.count \in Nat /\ r.targets \in Seq(Range(r.targets))
      /\ \A i \in DOMAIN r.targets : r.targets[i].group \in Nat
  <2>1. r.count \in Nat /\ r.targets \in Seq(Range(r.targets))
    BY DiscoveryRecords
  <2>2. AreTargets(r.targets)
    BY DiscoveryRecords
  <2> QED BY <2>1, <2>2, Targets DEF AreTargets
<1>2. /\ v = Grouped(r.count, r.targets)
      /\ \A i \in DOMAIN r.targets : r.targets[i].group < r.count
      /\ \A k \in DOMAIN v : v[k] # <<>>
  BY DEF Discovered
<1> QED BY <1>1, <1>2, DiscoveryExact

\* The second version: what it returns can be patched as it stands.
LEMMA DiscoverV2Answers ==
  ASSUME call = "discover_v2", call \in Methods, NEW r \in Records(call, 1), NEW v \in DiscoveredV2(r)
  PROVE  /\ Len(v) = r.count /\ <<>> \notin Range(v)
         /\ \A g \in DOMAIN v : Len(v[g]) = Cardinality(TargetsOf(r.targets, g))
         /\ \A i \in DOMAIN r.targets :
              NativeTargetV2(v[r.targets[i].group + 1][PlaceOf(r.targets, i)]) = r.targets[i].target
<1>1. r.count \in Nat /\ r.targets \in Seq(Range(r.targets))
  BY DiscoveryRecords
<1>2. PICK rs : rs = r.targets
  OBVIOUS
<1>3. /\ rs \in Seq(Range(rs)) /\ DOMAIN rs = 1..Len(rs) /\ Len(rs) \in Nat
  BY <1>1, <1>2, LenProperties
<1>4. \A i \in DOMAIN rs : IsTarget(rs[i]) /\ OfTensors(rs[i].target, NativeTensor)
  <2>1. AreTargets(r.targets) /\ ListTensors(r.targets)
    BY DiscoveryRecords
  <2> QED BY <1>2, <2>1 DEF AreTargets, ListTensors
<1> DEFINE named == [i \in DOMAIN rs |-> [rs[i] EXCEPT !.target = TargetV2(@)]]
           all == Grouped(r.count, named)
<1>5. /\ \A i \in DOMAIN rs :
           /\ rs[i].group < r.count
           /\ \A k \in DOMAIN rs[i].target.tensors : /\ rs[i].target.tensors[k].role \in DOMAIN RoleNames
                                                     /\ rs[i].target.tensors[k].dtype \in DOMAIN PrecisionNames
      /\ v = all /\ <<>> \notin Range(v)
  <2>1. v \in IF \A i \in DOMAIN rs :
                   LET t == rs[i]
                   IN /\ t.group < r.count
                      /\ \A k \in DOMAIN t.target.tensors : /\ t.target.tensors[k].role \in DOMAIN RoleNames
                                                            /\ t.target.tensors[k].dtype \in DOMAIN PrecisionNames
                      /\ ValidTargetV2(TargetV2(t.target))
              THEN Require(<<>> \notin Range(all), all) ELSE {}
    BY <1>2 DEF DiscoveredV2
  <2> HIDE DEF all
  <2>2. v \in Require(<<>> \notin Range(all), all)
    BY <2>1
  <2>3. v = all /\ <<>> \notin Range(v)
    BY <2>2 DEF Require
  <2> QED BY <2>1, <2>3
<1>6. DOMAIN named = DOMAIN rs
  OBVIOUS
<1>7. ASSUME NEW i \in DOMAIN rs
      PROVE  named[i].group = rs[i].group /\ named[i].target = TargetV2(rs[i].target) /\ rs[i].group \in Nat
  <2>1. named[i] = [rs[i] EXCEPT !.target = TargetV2(rs[i].target)]
    OBVIOUS
  <2> HIDE DEF named
  <2> QED BY <1>4, <2>1, Targets
<1>8. named \in Seq(Range(named))
  <2>1. named = [i \in 1..Len(rs) |-> named[i]]
    BY <1>3
  <2> HIDE DEF named
  <2>2. \A i \in 1..Len(rs) : named[i] \in Range(named)
    BY <1>3, <1>6 DEF Range
  <2>3. named \in [1..Len(rs) -> Range(named)]
    BY <2>1, <2>2
  <2> QED BY <1>3, <2>3, SeqDef
<1>9. PICK ns : ns = named
  OBVIOUS
<1> HIDE DEF named
<1>10. \A i \in DOMAIN ns : ns[i].group \in Nat /\ ns[i].group < r.count
  BY <1>5, <1>6, <1>7, <1>9
<1>11. /\ ns \in Seq(Range(ns)) /\ v = Grouped(r.count, ns) /\ DOMAIN ns = DOMAIN rs
       /\ \A k \in DOMAIN v : v[k] # <<>>
  BY <1>5, <1>6, <1>8, <1>9 DEF Range
<1>12. Listed(v, r.count, ns)
  BY <1>1, <1>10, <1>11, DiscoveryExact
<1>13. ASSUME NEW g \in DOMAIN v PROVE Len(v[g]) = Cardinality(TargetsOf(rs, g))
  <2>1. TargetsOf(ns, g) = TargetsOf(rs, g)
    BY <1>7, <1>9, <1>11 DEF TargetsOf
  <2> QED BY <1>12, <2>1 DEF Listed
<1>14. ASSUME NEW i \in DOMAIN rs
       PROVE  NativeTargetV2(v[rs[i].group + 1][PlaceOf(rs, i)]) = rs[i].target
  <2>1. ns[i].group = rs[i].group /\ ns[i].target = TargetV2(rs[i].target)
    BY <1>7, <1>9
  <2>2. PlaceOf(ns, i) = PlaceOf(rs, i)
    <3>1. \A j \in 1..(i - 1) : j \in DOMAIN rs
      BY <1>3
    <3>2. {j \in 1..(i - 1) : ns[j].group = ns[i].group} = {j \in 1..(i - 1) : rs[j].group = rs[i].group}
      BY <1>7, <1>9, <2>1, <3>1
    <3> QED BY <3>2 DEF PlaceOf
  <2>3. v[ns[i].group + 1][PlaceOf(ns, i)] = ns[i].target
    BY <1>11, <1>12 DEF Listed
  <2>4. NativeTargetV2(TargetV2(rs[i].target)) = rs[i].target
    <3>1. PICK t : t = rs[i].target
      OBVIOUS
    <3>2. OfTensors(t, NativeTensor)
      BY <1>4, <3>1
    <3>3. \A k \in DOMAIN t.tensors : t.tensors[k].role \in DOMAIN RoleNames /\ t.tensors[k].dtype \in DOMAIN PrecisionNames
      BY <1>5, <3>1
    <3> QED BY <3>1, <3>2, <3>3, NativeTargets
  <2> QED BY <2>1, <2>2, <2>3, <2>4
<1>15. Len(v) = r.count /\ <<>> \notin Range(v)
  BY <1>12 DEF Listed
<1> QED BY <1>2, <1>13, <1>14, <1>15

\* The answers of inspect_group_coverage, from the three native answers.
LEMMA CoverageAnswers ==
  ASSUME NEW v, Covered(3, v)
  PROVE  CoverageOf(v)
<1>1. /\ v \in Seq([index : Int, inv : Nat, states : Seq(States)])
      /\ \A i \in 1..Len(v) : v[i].index = i - 1 /\ Len(v[i].states) = 3
      /\ \A k \in 1..3 : SaidOf(results[k].records, k, v)
  BY DEF Covered
<1>2. DOMAIN v = 1..Len(v)
  BY <1>1, LenProperties
<1>3. ASSUME NEW i \in DOMAIN v, NEW k \in 1..3
      PROVE  /\ Len(results[k].records) = Len(v)
             /\ results[k].records[i].index = v[i].index
             /\ results[k].records[i].inv = v[i].inv
             /\ k \in ObservedKinds(v[i]) <=> results[k].records[i].state # "not_observed"
             /\ k \in CompleteKinds(v[i]) <=> results[k].records[i].state = "complete"
  <2>1. SaidOf(results[k].records, k, v)
    BY <1>1
  <2>2. /\ Len(results[k].records) = Len(v) /\ results[k].records[i].index = i - 1
        /\ results[k].records[i].inv = v[i].inv /\ results[k].records[i].state = v[i].states[k]
    BY <1>2, <2>1 DEF SaidOf
  <2>3. v[i] \in [index : Int, inv : Nat, states : Seq(States)] /\ Len(v[i].states) = 3 /\ v[i].index = i - 1
    BY <1>1, <1>2, ElementOfSeq
  <2>4. v[i].states \in Seq(States)
    BY <2>3
  <2>5. DOMAIN v[i].states = 1..3
    BY <2>3, <2>4, LenProperties
  <2>6. k \in ObservedKinds(v[i]) <=> v[i].states[k] # "not_observed"
    BY <2>5 DEF ObservedKinds
  <2>7. k \in CompleteKinds(v[i]) <=> v[i].states[k] = "complete"
    BY <2>5 DEF CompleteKinds
  <2> QED BY <2>2, <2>3, <2>6, <2>7
<1> QED BY <1>3 DEF CoverageOf

\* What a method returns is what the library answered, for any records of the
\* types that the native structures declare.
THEOREM AnswersExact == ASpec => []AnswerExact
<1>1. ASSUME CallInv PROVE AnswerExact
  <2> SUFFICES ASSUME answer.kind = "value" PROVE AnswerExact
    BY DEF AnswerExact
  <2>1. call \in Methods /\ call # None
    <3>1. answer # Nothing
      BY Kinds
    <3> QED BY <1>1, <3>1 DEF CallInv, CallTypes
  <2>2. /\ answer.value = groups /\ Current = NativeCalls(call) /\ Current \in 1..3
    BY <1>1 DEF CallInv, CallValues, NativeCalls
  <2>3. Done = Current
    <3>1. answer # Nothing
      BY Kinds
    <3>2. ~Owned
      BY <1>1, <2>2, <3>1 DEF CallInv, CallOwns, Owned
    <3> QED BY <3>2 DEF Done
  <2>4. outcome # Raised /\ answer # Raised
    <3>1. answer # Raised /\ answer # Nothing
      BY Kinds
    <3>2. outcome = Nothing
      BY <1>1, <3>1 DEF CallInv, CallOwns
    <3> QED BY <3>1, <3>2, Kinds
  <2>5. PICK v : v = answer.value
    OBVIOUS
  <2>6. MadeOf(NativeCalls(call), v)
    BY <1>1, <2>1, <2>2, <2>3, <2>4, <2>5 DEF CallInv, CallValues
  <2>7. PICK r : r = results[1].records
    OBVIOUS
  <2>8. r \in Records(call, 1)
    BY <1>1, <2>2, <2>7 DEF CallInv, CallTypes
  <2>9. call # "coverage" => v \in Converted(call, 1, <<>>, r)
    BY <2>6, <2>7 DEF MadeOf, NativeCalls
  <2>10. ASSUME call \in {"discover", "discover_v2"}
         PROVE  /\ Len(v) = r.count /\ <<>> \notin Range(v)
                /\ \A g \in DOMAIN v : Len(v[g]) = Cardinality(TargetsOf(r.targets, g))
                /\ \A i \in DOMAIN r.targets :
                     (IF call = "discover" THEN v[r.targets[i].group + 1][PlaceOf(r.targets, i)]
                      ELSE NativeTargetV2(v[r.targets[i].group + 1][PlaceOf(r.targets, i)])) = r.targets[i].target
    <3>1. CASE call = "discover"
      <4>1. v \in Discovered(r)
        BY <2>9, <3>1 DEF Converted
      <4>2. Listed(v, r.count, r.targets)
        BY <2>1, <2>8, <3>1, <4>1, DiscoverAnswers
      <4> QED BY <3>1, <4>2 DEF Listed
    <3>2. CASE call = "discover_v2"
      <4>1. v \in DiscoveredV2(r)
        BY <2>9, <3>2 DEF Converted
      <4>2. /\ Len(v) = r.count /\ <<>> \notin Range(v)
            /\ \A g \in DOMAIN v : Len(v[g]) = Cardinality(TargetsOf(r.targets, g))
        BY <2>1, <2>8, <3>2, <4>1, DiscoverV2Answers
      <4>3. \A i \in DOMAIN r.targets :
              NativeTargetV2(v[r.targets[i].group + 1][PlaceOf(r.targets, i)]) = r.targets[i].target
        BY <2>1, <2>8, <3>2, <4>1, DiscoverV2Answers
      <4> QED BY <3>2, <4>2, <4>3
    <3> QED BY <2>10, <3>1, <3>2
  <2>11. ASSUME call = "coverage" PROVE CoverageOf(v)
    <3>1. Covered(3, v)
      BY <2>6, <2>11 DEF MadeOf, NativeCalls
    <3> QED BY <3>1, CoverageAnswers
  <2>12. ASSUME call = "compare" PROVE Len(v.changed) = r.count
    <3>1. v \in GraphComparison(r)
      BY <2>9, <2>12 DEF Converted
    <3>2. v.changed = SubSeq(r.indices, 1, r.count)
      BY <3>1 DEF GraphComparison
    <3>3. r.indices \in Seq(Nat) /\ r.count \in 0..Len(r.indices)
      <4>1. 1 \in 1..3
        OBVIOUS
      <4> QED BY <2>1, <2>8, <2>12, <4>1, NativeAssumption
    <3>4. Len(r.indices) \in Nat
      BY <3>3, LenProperties
    <3>5. CASE r.count = 0
      BY <3>2, <3>3, <3>5, SubSeqProperties, EmptySeq
    <3>6. CASE r.count > 0
      BY <3>2, <3>3, <3>4, <3>6, SubSeqProperties
    <3> QED BY <3>3, <3>4, <3>5, <3>6
  <2>13. ASSUME call \in {"infer", "infer_copied"}, NEW i \in DOMAIN v, NEW j \in DOMAIN v, v[i].dtype = v[j].dtype
         PROVE  r.outputs[i].precision = r.outputs[j].precision
    <3>1. v \in InferenceOutputs(r)
      BY <2>9, <2>13 DEF Converted
    <3>2. \A k \in DOMAIN v : v[k].dtype = DtypeName(r.outputs[k].precision)
      <4>1. v = [k \in 1..r.count |->
                   LET o == r.outputs[k]
                   IN [index |-> o.index, name |-> BufferBytes(o.name), shape |-> SubSeq(o.dims, 1, o.rank),
                       dtype |-> DtypeName(o.precision), data |-> BufferBytes(o.data)]]
        BY <3>1 DEF InferenceOutputs, Require
      <4>2. DOMAIN v = 1..r.count
        BY <4>1
      <4> QED BY <4>1, <4>2
    <3>3. PICK p, q : p = r.outputs[i].precision /\ q = r.outputs[j].precision
      OBVIOUS
    <3>4. DtypeName(p) = DtypeName(q)
      BY <2>13, <3>2, <3>3
    <3> QED BY <3>3, <3>4, DtypesDiffer
  <2>14. ASSUME call \in {"discover", "discover_v2"} PROVE DiscoveryOf(v, r)
    <3>1. ASSUME NEW i \in DOMAIN r.targets
          PROVE  LET Native(t) == IF call = "discover" THEN t ELSE NativeTargetV2(t)
                     g == r.targets[i].group
                     before == Cardinality({j \in 1..(i - 1) : r.targets[j].group = g})
                 IN Native(v[g + 1][before + 1]) = r.targets[i].target
      <4>1. (IF call = "discover" THEN v[r.targets[i].group + 1][PlaceOf(r.targets, i)]
             ELSE NativeTargetV2(v[r.targets[i].group + 1][PlaceOf(r.targets, i)])) = r.targets[i].target
        BY <2>10, <2>14
      <4> QED BY <4>1 DEF PlaceOf
    <3>2. ASSUME NEW g \in DOMAIN v
          PROVE  Len(v[g]) = Cardinality({i \in DOMAIN r.targets : r.targets[i].group = g - 1})
      BY <2>10, <2>14 DEF TargetsOf
    <3>3. Len(v) = r.count /\ <<>> \notin Range(v)
      BY <2>10, <2>14
    <3> QED BY <3>1, <3>2, <3>3 DEF DiscoveryOf
  <2> QED BY <2>5, <2>7, <2>11, <2>12, <2>13, <2>14 DEF AnswerExact
<1> QED BY <1>1, CallInit, CallStep, PTL DEF ASpec

\* What the methods of _native.py pass on, in both directions, and that they
\* release what they got, is exact (_native.py:1394, _native.py:1477).
THEOREM NativeValuesExact == ASpec => []ValuesExact
<1>1. ResultsReleased /\ RequestFaithful /\ AnswerExact => ValuesExact
  BY DEF ValuesExact
<1> QED BY <1>1, ResultsReleasedOnce, RequestsFaithful, AnswersExact, PTL

-----------------------------------------------------------------------------
(* Boundary: contracts.                                                    *)

LEMMA RequireExact ==
  ASSUME NEW condition, NEW v
  PROVE  /\ \A x : x \in Require(condition, v) <=> condition /\ x = v
         /\ condition => Require(condition, v) = {v}
         /\ ~condition => Require(condition, v) = {}
BY DEF Require

\* A contract that is remade from itself.
Valid(c) == TensorContract(c.name, c.spec) = {c}

LEMMA ContractExact ==
  ASSUME NEW n, NEW spec, NEW c \in TensorContract(n, spec)
  PROVE  /\ c = [name |-> n, spec |-> [shape |-> spec.shape, dtype |-> spec.dtype]]
         /\ n # <<>> /\ (\A i \in DOMAIN spec.shape : spec.shape[i] > 0)
         /\ Valid(c) /\ TensorContract(n, spec) = {c}
<1> DEFINE Positive(shape) == \A i \in DOMAIN shape : shape[i] > 0
           s == [shape |-> spec.shape, dtype |-> spec.dtype]
<1>1. \A m, t : TensorContract(m, t) =
                  {[name |-> m, spec |-> u] : u \in UNION {TensorSpec(t.shape, t.dtype) : x \in Require(m # <<>>, 0)}}
  BY DEF TensorContract
<1>2. \A m, t : m = <<>> => TensorContract(m, t) = {}
  BY <1>1 DEF Require
<1>3. \A m, t : m # <<>> => TensorContract(m, t) = {[name |-> m, spec |-> u] : u \in TensorSpec(t.shape, t.dtype)}
  BY <1>1 DEF Require
<1>4. \A t : TensorSpec(t.shape, t.dtype) = IF Positive(t.shape) THEN {[shape |-> t.shape, dtype |-> t.dtype]} ELSE {}
  BY DEF TensorSpec, Require
<1>5. ASSUME NEW m, NEW t, m # <<>>, Positive(t.shape)
      PROVE  TensorContract(m, t) = {[name |-> m, spec |-> [shape |-> t.shape, dtype |-> t.dtype]]}
  <2>1. TensorSpec(t.shape, t.dtype) = {[shape |-> t.shape, dtype |-> t.dtype]}
    BY <1>4, <1>5
  <2>2. TensorContract(m, t) = {[name |-> m, spec |-> u] : u \in TensorSpec(t.shape, t.dtype)}
    BY <1>3, <1>5
  <2> QED BY <2>1, <2>2
<1>6. n # <<>> /\ Positive(spec.shape)
  <2>1. n # <<>>
    BY <1>2
  <2>2. PICK u \in TensorSpec(spec.shape, spec.dtype) : TRUE
    BY <1>3, <2>1
  <2>3. TensorSpec(spec.shape, spec.dtype) = IF Positive(spec.shape) THEN {[shape |-> spec.shape, dtype |-> spec.dtype]} ELSE {}
    BY <1>4
  <2> HIDE DEF Positive
  <2> QED BY <2>1, <2>2, <2>3
<1>7. TensorContract(n, spec) = {[name |-> n, spec |-> s]}
  BY <1>5, <1>6
<1>8. c = [name |-> n, spec |-> s]
  BY <1>7
<1>9. c.name = n /\ c.spec = s /\ s.shape = spec.shape /\ s.dtype = spec.dtype
  BY <1>8
<1>10. Positive(s.shape)
  BY <1>6, <1>9
<1>11. TensorContract(n, s) = {[name |-> n, spec |-> s]}
  <2>1. TensorContract(n, s) = {[name |-> n, spec |-> [shape |-> s.shape, dtype |-> s.dtype]]}
    BY <1>5, <1>6, <1>10
  <2> QED BY <2>1, <1>9
<1>12. Valid(c)
  BY <1>8, <1>9, <1>11 DEF Valid
<1> QED BY <1>6, <1>7, <1>8, <1>12

\* One value of each: the sequences of the values.
LEMMA Each1Exact ==
  ASSUME NEW s
  PROVE  /\ \A v \in Each1(s) : /\ v = [k \in DOMAIN s |-> v[k]] /\ DOMAIN v = DOMAIN s
                                /\ \A k \in DOMAIN s : v[k] \in s[k]
         /\ Each1(s) = {} <=> \E k \in DOMAIN s : s[k] = {}
<1>1. {} \in Range(s) <=> \E k \in DOMAIN s : s[k] = {}
  BY DEF Range
<1>2. Each1(s) = IF {} \notin Range(s) THEN {[k \in DOMAIN s |-> CHOOSE v \in s[k] : TRUE]} ELSE {}
  BY DEF Each1, Require
<1>3. Each1(s) = {} <=> \E k \in DOMAIN s : s[k] = {}
  BY <1>1, <1>2
<1>4. ASSUME NEW v \in Each1(s)
      PROVE  /\ v = [k \in DOMAIN s |-> v[k]] /\ DOMAIN v = DOMAIN s
             /\ \A k \in DOMAIN s : v[k] \in s[k]
  <2>1. v = [k \in DOMAIN s |-> CHOOSE x \in s[k] : TRUE]
    BY <1>2
  <2>2. \A k \in DOMAIN s : s[k] # {}
    BY <1>1, <1>2
  <2>3. \A k \in DOMAIN s : v[k] \in s[k]
    BY <2>1, <2>2
  <2> QED BY <2>1, <2>3
<1> QED BY <1>3, <1>4

\* When there is one choice for each, there is one result.
LEMMA Each1Single ==
  ASSUME NEW c, c = [k \in DOMAIN c |-> c[k]],
         NEW s, DOMAIN s = DOMAIN c, \A k \in DOMAIN c : s[k] = {c[k]}
  PROVE  Each1(s) = {c}
<1>1. \A v \in Each1(s) : v = c
  <2> SUFFICES ASSUME NEW v \in Each1(s) PROVE v = c
    OBVIOUS
  <2>1. v = [k \in DOMAIN s |-> v[k]] /\ \A k \in DOMAIN s : v[k] \in s[k]
    BY Each1Exact
  <2> QED BY <2>1
<1>2. Each1(s) # {}
  BY Each1Exact
<1> QED BY <1>1, <1>2

IsList(s) == s \in Seq(Range(s))

LEMMA ListExact ==
  ASSUME NEW s
  PROVE  /\ IsList(s) => /\ s = [k \in 1..Len(s) |-> s[k]] /\ DOMAIN s = 1..Len(s) /\ Len(s) \in Nat
         /\ \A n \in Nat : (s = [k \in 1..n |-> s[k]]) => IsList(s) /\ Len(s) = n
<1>1. IsList(s) => /\ s = [k \in 1..Len(s) |-> s[k]] /\ DOMAIN s = 1..Len(s) /\ Len(s) \in Nat
  <2> SUFFICES ASSUME NEW S, s \in Seq(S)
               PROVE  s = [k \in 1..Len(s) |-> s[k]] /\ DOMAIN s = 1..Len(s) /\ Len(s) \in Nat
    BY DEF IsList
  <2> QED OBVIOUS
<1>2. ASSUME NEW n \in Nat, s = [k \in 1..n |-> s[k]]
      PROVE  IsList(s) /\ Len(s) = n
  <2>1. DOMAIN s = 1..n /\ \A k \in 1..n : s[k] \in Range(s)
    BY <1>2 DEF Range
  <2>2. s \in [1..n -> Range(s)]
    BY <1>2, <2>1
  <2>3. s \in Seq(Range(s))
    BY <2>2, SeqDef
  <2>4. Len(s) = n
    BY <2>1, <2>3
  <2> QED BY <2>3, <2>4 DEF IsList
<1> QED BY <1>1, <1>2

\* The contracts of a program.
Contracts(c) == IsList(c) /\ c # <<>> /\ \A k \in DOMAIN c : Valid(c[k])

LEMMA ContractsMade ==
  ASSUME NEW t, IsList(t), t # <<>>,
         NEW s, DOMAIN s = DOMAIN t, \A k \in DOMAIN s : \A c \in s[k] : Valid(c),
         NEW v \in Each1(s)
  PROVE  Contracts(v) /\ Len(v) = Len(t) /\ DOMAIN v = DOMAIN t
<1>1. /\ v = [k \in DOMAIN s |-> v[k]] /\ DOMAIN v = DOMAIN s
      /\ \A k \in DOMAIN s : v[k] \in s[k]
  BY Each1Exact
<1>2. DOMAIN t = 1..Len(t) /\ Len(t) \in Nat
  BY ListExact
<1>3. IsList(v) /\ Len(v) = Len(t)
  BY <1>1, <1>2, ListExact
<1>4. v # <<>>
  <2>1. Len(t) # 0
    <3>1. t \in Seq(Range(t))
      BY DEF IsList
    <3> QED BY <3>1
  <2> QED BY <1>2, <1>3, <2>1
<1>5. \A k \in DOMAIN v : Valid(v[k])
  BY <1>1
<1> QED BY <1>1, <1>3, <1>4, <1>5 DEF Contracts

\* No two contracts of a list have the same name.
Apart(c) == \A j, k \in DOMAIN c : c[j].name = c[k].name => j = k

LEMMA NamesCounted ==
  ASSUME NEW c, IsList(c)
  PROVE  /\ Cardinality(Names(c)) \in Nat /\ Cardinality(Names(c)) <= Len(c)
         /\ Cardinality(Names(c)) = Len(c) => Apart(c)
<1> DEFINE f == [k \in 1..Len(c) |-> c[k].name]
<1>1. DOMAIN c = 1..Len(c) /\ Len(c) \in Nat
  BY ListExact
<1>2. f \in Surjection(1..Len(c), Names(c))
  <2>1. Names(c) = {c[k].name : k \in 1..Len(c)}
    BY <1>1 DEF Names
  <2>2. f \in [1..Len(c) -> Names(c)]
    BY <2>1
  <2>3. \A n \in Names(c) : \E k \in 1..Len(c) : f[k] = n
    BY <2>1
  <2> HIDE DEF f
  <2> QED BY <2>2, <2>3 DEF Surjection
<1>3. IsFiniteSet(1..Len(c)) /\ Cardinality(1..Len(c)) = Len(c)
  <2>1. ASSUME NEW n \in Nat PROVE IsFiniteSet(1..n) /\ Cardinality(1..n) = n
    <3>1. IsFiniteSet(1..n) /\ Cardinality(1..n) = IF 1 > n THEN 0 ELSE n - 1 + 1
      BY FS_Interval
    <3> QED BY <3>1
  <2> QED BY <1>1, <2>1
<1>4. /\ IsFiniteSet(Names(c)) /\ Cardinality(Names(c)) <= Len(c)
      /\ Cardinality(Names(c)) = Len(c) <=> f \in Injection(1..Len(c), Names(c))
  BY <1>2, <1>3, FS_Surjection
<1>5. f \in Injection(1..Len(c), Names(c)) => Apart(c)
  BY <1>1 DEF Injection, IsInjective, Apart
<1>6. Cardinality(Names(c)) \in Nat
  BY <1>4, FS_CardinalityType
<1> QED BY <1>4, <1>5, <1>6

\* What _manifest_contracts accepts.
Runs(c) ==
  /\ Cardinality(Names(c)) = Len(c)
  /\ \A k \in DOMAIN c : c[k].spec.dtype \in DOMAIN ItemSize /\ Len(c[k].spec.shape) <= 5

LEMMA ManifestContractsExact ==
  ASSUME NEW t, IsList(t)
  PROVE  /\ \A c \in ManifestContracts(t) : Contracts(c) /\ Runs(c) /\ Apart(c)
         /\ Contracts(t) => ManifestContracts(t) = IF Runs(t) THEN {t} ELSE {}
<1> DEFINE s == [k \in DOMAIN t |-> TensorContract(t[k].name, t[k].spec)]
<1>1. ManifestContracts(t) = {c \in Each1(s) : c # <<>> /\ Runs(c)}
  BY DEF ManifestContracts, Runs
<1>2. ASSUME NEW c \in ManifestContracts(t)
      PROVE  Contracts(c) /\ Runs(c) /\ Apart(c)
  <2>1. c \in Each1(s) /\ c # <<>> /\ Runs(c)
    BY <1>1
  <2>2. DOMAIN s = DOMAIN t /\ \A k \in DOMAIN s : \A x \in s[k] : Valid(x)
    BY ContractExact
  <2>3. t # <<>>
    <3> SUFFICES ASSUME t = <<>> PROVE FALSE
      OBVIOUS
    <3>1. DOMAIN t = {}
      OBVIOUS
    <3>2. c = [k \in DOMAIN s |-> c[k]] /\ DOMAIN c = DOMAIN s
      BY <2>1, Each1Exact
    <3>3. c = [k \in 1..0 |-> c[k]]
      BY <2>2, <3>1, <3>2
    <3>4. IsList(c) /\ Len(c) = 0
      BY <3>3, ListExact
    <3>5. c \in Seq(Range(c))
      BY <3>4 DEF IsList
    <3> QED BY <2>1, <3>4, <3>5
  <2> HIDE DEF s
  <2>4. Contracts(c)
    BY <2>1, <2>2, <2>3, ContractsMade
  <2>5. Apart(c)
    BY <2>1, <2>4, NamesCounted DEF Contracts, Runs
  <2> QED BY <2>1, <2>4, <2>5
<1>3. ASSUME Contracts(t)
      PROVE  ManifestContracts(t) = IF Runs(t) THEN {t} ELSE {}
  <2>1. t = [k \in DOMAIN t |-> t[k]]
    <3>1. t = [k \in 1..Len(t) |-> t[k]] /\ DOMAIN t = 1..Len(t)
      BY ListExact
    <3> QED BY <3>1
  <2>2. DOMAIN s = DOMAIN t /\ \A k \in DOMAIN t : s[k] = {t[k]}
    BY <1>3 DEF Contracts, Valid
  <2>3. t # <<>>
    BY <1>3 DEF Contracts
  <2> HIDE DEF s
  <2>4. Each1(s) = {t}
    BY <2>1, <2>2, Each1Single
  <2> QED BY <1>1, <2>3, <2>4
<1> QED BY <1>2, <1>3

-----------------------------------------------------------------------------
(* Boundary: the names of outputs.                                         *)

ClientNamed(t) == t.producer.name \notin {None, <<>>}

\* The two kinds of names that the code puts together.
Numbered(a, b, c) == <<a, "_", b>> \o <<".", c>>
ResultName(n) == <<"Result", "_", n>>

\* The parts of a numbered name.
LEMMA NumberedParts ==
  ASSUME NEW x, NEW y, NEW z
  PROVE  Len(Numbered(x, y, z)) = 5 /\ Numbered(x, y, z)[3] = y /\ Numbered(x, y, z)[5] = z
<1> DEFINE S == {x, "_", y, ".", z}
           p == <<x, "_", y>>
           q == <<".", z>>
<1>1. p \in Seq(S) /\ q \in Seq(S) /\ Len(p) = 3 /\ Len(q) = 2 /\ p[3] = y /\ q[2] = z
  OBVIOUS
<1>2. Numbered(x, y, z) = p \o q
  BY DEF Numbered
<1> HIDE DEF p, q, S
<1>3. ASSUME NEW A, NEW v \in Seq(A), NEW w \in Seq(A), Len(v) = 3, Len(w) = 2
      PROVE  Len(v \o w) = 5 /\ (v \o w)[3] = v[3] /\ (v \o w)[5] = w[2]
  <2>1. Len(v \o w) = Len(v) + Len(w)
    BY ConcatProperties, Zenon
  <2>2. \A i \in 1..(Len(v) + Len(w)) : (v \o w)[i] = IF i <= Len(v) THEN v[i] ELSE w[i - Len(v)]
    BY ConcatProperties, Zenon
  <2> QED BY <1>3, <2>1, <2>2
<1> QED BY <1>1, <1>2, <1>3

LEMMA NumberedApart ==
  ASSUME NEW a, NEW b, NEW c, NEW d, NEW e, NEW f, Numbered(a, b, c) = Numbered(d, e, f)
  PROVE  b = e /\ c = f
<1>1. Numbered(a, b, c)[3] = b /\ Numbered(a, b, c)[5] = c
  BY NumberedParts
<1>2. Numbered(d, e, f)[3] = e /\ Numbered(d, e, f)[5] = f
  BY NumberedParts
<1> QED BY <1>1, <1>2

LEMMA NumberedNotResult ==
  ASSUME NEW a, NEW b, NEW c, NEW d
  PROVE  Numbered(a, b, c) # ResultName(d)
<1>1. Len(Numbered(a, b, c)) = 5
  BY NumberedParts
<1>2. Len(ResultName(d)) = 3
  BY DEF ResultName
<1> QED BY <1>1, <1>2

LEMMA ResultsApart ==
  ASSUME NEW d, NEW e, ResultName(d) = ResultName(e)
  PROVE  d = e
BY DEF ResultName

\* Outputs of operators that the client did not name have the same name only
\* when they are the same output of the same operator.
LEMMA UnnamedApart ==
  ASSUME NEW t, NEW u, NEW j \in Nat, NEW k \in Nat,
         ~ClientNamed(t), ~ClientNamed(u), OutputName(t, j) = OutputName(u, k)
  PROVE  \/ j = k
         \/ t.producer.node = u.producer.node /\ t.index = u.index
<1> DEFINE Own(x) == Numbered(x.producer.op, x.producer.node, x.index)
           Put(x, n) == OutputName(x, n) \in {Own(x), ResultName(n - 1)}
<1>1. ASSUME NEW x, NEW n, ~ClientNamed(x)
      PROVE  Put(x, n)
  <2>1. x.producer.name \in {None, <<>>}
    BY <1>1 DEF ClientNamed
  <2> DEFINE own == IF x.producer.name \in {None, <<>>} THEN <<x.producer.op, "_", x.producer.node>> ELSE x.producer.name
             name == IF TensorName(x) = None /\ Len(x.producer.specs) > 1 THEN own \o <<".", x.index>> ELSE TensorName(x)
  <2>2. OutputName(x, n) = IF name \in {None, <<>>} THEN <<"Result", "_", n - 1>> ELSE name
    BY DEF OutputName
  <2>3. own \o <<".", x.index>> = Own(x)
    BY <2>1 DEF Numbered
  <2>4. TensorName(x) \in {None, <<>>}
    BY <2>1 DEF TensorName
  <2>5. name \in {Own(x), None, <<>>}
    BY <2>3, <2>4
  <2>6. <<"Result", "_", n - 1>> = ResultName(n - 1)
    BY DEF ResultName
  <2> HIDE DEF name, own, Own
  <2> QED BY <2>2, <2>5, <2>6
<1>2. Put(t, j) /\ Put(u, k)
  BY <1>1
<1>3. CASE OutputName(t, j) = Own(t) /\ OutputName(u, k) = Own(u)
  <2>1. Own(t) = Own(u)
    BY <1>3
  <2> QED BY <2>1, NumberedApart
<1>4. CASE OutputName(t, j) = ResultName(j - 1) /\ OutputName(u, k) = ResultName(k - 1)
  <2>1. ResultName(j - 1) = ResultName(k - 1)
    BY <1>4
  <2>2. j - 1 = k - 1
    BY <2>1, ResultsApart
  <2> QED BY <2>2
<1>5. CASE OutputName(t, j) = Own(t) /\ OutputName(u, k) = ResultName(k - 1)
  <2>1. Own(t) = ResultName(k - 1)
    BY <1>5
  <2> QED BY <2>1, NumberedNotResult
<1>6. CASE OutputName(t, j) = ResultName(j - 1) /\ OutputName(u, k) = Own(u)
  <2>1. Own(u) = ResultName(j - 1)
    BY <1>6
  <2> QED BY <2>1, NumberedNotResult
<1> HIDE DEF Own
<1> QED BY <1>2, <1>3, <1>4, <1>5, <1>6

-----------------------------------------------------------------------------
(* Boundary: what run() returns.                                           *)

\* The largest of a set of positions.
LEMMA MaxOf ==
  ASSUME NEW n \in Nat, NEW S \in SUBSET (1..n), S # {}
  PROVE  Max(S) \in S /\ \A x \in S : x <= Max(S)
<1> DEFINE T == {n - x : x \in S}
<1>1. T \in SUBSET Nat /\ T # {}
  <2>1. \A x \in S : n - x \in Nat
    OBVIOUS
  <2> QED BY <2>1
<1>2. PICK y \in T : \A z \in T : y <= z
  BY <1>1, LeastOf
<1>3. PICK x \in S : y = n - x
  OBVIOUS
<1>4. ASSUME NEW z \in S PROVE x >= z
  <2>1. n - z \in T
    OBVIOUS
  <2>2. n - x <= n - z
    BY <1>2, <1>3, <2>1
  <2>3. x \in Int /\ z \in Int
    OBVIOUS
  <2> QED BY <2>2, <2>3
<1>5. Max(S) \in S /\ \A z \in S : Max(S) >= z
  BY <1>4 DEF Max
<1> QED BY <1>5

\* The program that a graph or a bundle makes.
Origin(blob, gr, o) ==
  /\ gr = None => Apart(o)
  /\ gr # None => /\ gr \in Signatures /\ Len(o) = Len(gr.outputs)
                  /\ \A k \in DOMAIN o : o[k].name = OutputName(gr.outputs[k], k)

IsReport(x) == "preserved" \in DOMAIN x /\ "id" \in DOMAIN x

GoodProgram(blob, gr, r, i, o) ==
  /\ Contracts(i) /\ Contracts(o) /\ IsList(r) /\ (\A k \in DOMAIN r : IsReport(r[k]))
  /\ blob.sig \in Signatures /\ blob.size # 0
  /\ Origin(blob, gr, o)

Made(blob, gr, xml, m, r, i, o) ==
  [blob |-> blob, graph |-> gr, ir |-> xml, manifest |-> m, reports |-> r, inputs |-> i, outputs |-> o]

IsProgram(p) ==
  \E blob, gr, xml, m, r, i, o : GoodProgram(blob, gr, r, i, o) /\ p = Made(blob, gr, xml, m, r, i, o)

\* The outputs that the session returns, of the right length.
Returned(t, v) ==
  \E size : v = [spec |-> t.producer.specs[t.index + 1], id |-> <<t.producer.node, t.index>>, size |-> size]

LEMMA NativeExact ==
  ASSUME NEW code, code.sig \in Signatures, NEW out \in NativeOutputs(code)
  PROVE  /\ DOMAIN out = 1..Len(out) /\ Len(out) \in Nat
         /\ Len(out) = Len(code.sig.outputs) => \A k \in DOMAIN out : Returned(code.sig.outputs[k], out[k])
<1> DEFINE t == code.sig.outputs
           z(k) == LET spec == t[k].producer.specs[t[k].index + 1]
                   IN IF spec.dtype \in DOMAIN ItemSize THEN SizeOf(spec) ELSE 0
           right == [k \in DOMAIN t |->
                      [spec |-> t[k].producer.specs[t[k].index + 1], id |-> <<t[k].producer.node, t[k].index>>, size |-> z(k)]]
           n == Len(t)
<1>1. out \in {right, SubSeq(right, 1, Len(right) - 1), [right EXCEPT ![1].size = @ + 1]}
  BY DEF NativeOutputs
<1>2. DOMAIN t = 1..n /\ n \in Nat /\ n # 0
  <2>1. IsList(t) /\ t # <<>>
    BY BoundaryAssumption DEF IsList
  <2>2. t \in Seq(Range(t))
    BY <2>1 DEF IsList
  <2> QED BY <2>1, <2>2
<1> HIDE DEF t, z
<1>3. right = [k \in 1..n |-> right[k]] /\ DOMAIN right = 1..n
  BY <1>2
<1>4. IsList(right) /\ Len(right) = n
  BY <1>2, <1>3, ListExact
<1>5. \A k \in 1..n : Returned(t[k], right[k])
  BY <1>2 DEF Returned
<1>6. CASE out = right
  BY <1>2, <1>3, <1>4, <1>5, <1>6 DEF t
<1>7. CASE out = SubSeq(right, 1, Len(right) - 1)
  <2>1. DOMAIN out = 1..Len(out) /\ Len(out) = n - 1
    <3>1. out = [k \in 1..(n - 1) |-> right[k]]
      <4> HIDE DEF right
      <4>1. right \in Seq(Range(right))
        BY <1>4 DEF IsList
      <4>2. /\ SubSeq(right, 1, n - 1) \in Seq(Range(right)) /\ Len(SubSeq(right, 1, n - 1)) = n - 1
            /\ \A k \in 1..(n - 1) : SubSeq(right, 1, n - 1)[k] = right[k]
        BY <4>1, <1>2, <1>4
      <4> QED BY <1>4, <1>7, <4>2
    <3>2. out = [k \in 1..(n - 1) |-> out[k]] /\ n - 1 \in Nat
      BY <3>1, <1>2
    <3>3. IsList(out) /\ Len(out) = n - 1
      BY <3>2, ListExact
    <3> QED BY <3>1, <3>3
  <2> QED BY <1>2, <2>1 DEF t
<1>8. CASE out = [right EXCEPT ![1].size = @ + 1]
  <2>1. DOMAIN out = 1..n
    BY <1>3, <1>8
  <2>2. \A k \in 1..n : Returned(t[k], out[k])
    <3> SUFFICES ASSUME NEW k \in 1..n PROVE Returned(t[k], out[k])
      OBVIOUS
    <3>1. k # 1 => out[k] = right[k]
      BY <1>3, <1>8
    <3>2. k = 1 => out[k] = [right[k] EXCEPT !.size = @ + 1]
      BY <1>3, <1>8
    <3>3. k = 1 => Returned(t[k], out[k])
      BY <3>2, <1>2 DEF Returned
    <3> HIDE DEF right
    <3> QED BY <1>5, <3>1, <3>3
  <2>3. out = [k \in 1..n |-> out[k]]
    BY <1>3, <1>8
  <2>4. IsList(out) /\ Len(out) = n
    BY <1>2, <2>3, ListExact
  <2> QED BY <1>2, <2>1, <2>2, <2>4 DEF t
<1> QED BY <1>1, <1>6, <1>7, <1>8

\* What run() did last.
Replied(p, y) ==
  \/ y \in {None, Raised1}
  \/ \E out \in NativeOutputs(p.blob) : OutputsFit(p, out) /\ y = [values |-> ValuesOf(p, out), native |-> out]

LEMMA RunReplied ==
  ASSUME NEW arrays, RunProgram(arrays)
  PROVE  Replied(program, reply')
BY DEF RunProgram, Replied

LEMMA OutputsReturned ==
  ASSUME IsProgram(program), Replied(program, reply)
  PROVE  EveryOutputReturned
<1> SUFFICES ASSUME reply # None, reply # Raised1, program.graph \in {None, program.blob.sig},
                    NEW k \in DOMAIN program.outputs
             PROVE  LET name == program.outputs[k].name
                        hidden == {j \in DOMAIN program.outputs : j > k /\ program.outputs[j].name = name}
                    IN \/ reply.values[name] = reply.native[k] /\ reply.native[k].spec = program.outputs[k].spec
                       \/ \E j \in hidden : \/ reply.native[j] = reply.native[k]
                                           \/ \E i \in {j, k} : program.graph.outputs[i].producer.name \notin {None, <<>>}
  BY DEF EveryOutputReturned
<1>1. PICK blob, gr, xml, m, r, i, o : GoodProgram(blob, gr, r, i, o) /\ program = Made(blob, gr, xml, m, r, i, o)
  BY DEF IsProgram
<1>2. program.blob = blob /\ program.graph = gr /\ program.outputs = o
  BY <1>1 DEF Made
<1>3. PICK out \in NativeOutputs(blob) : OutputsFit(program, out) /\ reply = [values |-> ValuesOf(program, out), native |-> out]
  BY <1>2 DEF Replied
<1>4. reply.values = ValuesOf(program, out) /\ reply.native = out
  BY <1>3
<1>5. DOMAIN o = 1..Len(o) /\ Len(o) \in Nat
  BY <1>1, ListExact DEF GoodProgram, Contracts
<1>6. DOMAIN out = 1..Len(out) /\ Len(out) = Len(o)
  BY <1>1, <1>2, <1>3, NativeExact DEF GoodProgram, OutputsFit
<1>7. \A j \in DOMAIN o : out[j].spec = o[j].spec /\ out[j].size = SizeOf(o[j].spec)
  BY <1>2, <1>3, <1>5, <1>6 DEF OutputsFit
<1> DEFINE S == {j \in DOMAIN out : o[j].name = o[k].name}
           last == Max(S)
<1>8. last \in DOMAIN o /\ o[last].name = o[k].name /\ k <= last
  <2>1. k \in S /\ S \in SUBSET (1..Len(o))
    BY <1>2, <1>5, <1>6
  <2>2. last \in S /\ k <= last
    <3> HIDE DEF S
    <3> QED BY <1>5, <2>1, MaxOf
  <2> QED BY <1>5, <1>6, <2>2
<1>9. reply.values[o[k].name] = out[last]
  <2>1. o[k].name \in Names(o)
    BY <1>2 DEF Names
  <2>2. ValuesOf(program, out)[o[k].name] = out[Max({j \in DOMAIN out : o[j].name = o[k].name})]
    BY <1>2, <2>1 DEF ValuesOf
  <2> QED BY <1>4, <2>2
<1> HIDE DEF last
<1>10. CASE last = k
  BY <1>2, <1>4, <1>7, <1>9, <1>10
<1>11. CASE last # k
  <2>1. last > k /\ last \in Nat /\ k \in Nat
    BY <1>2, <1>5, <1>8, <1>11
  <2>2. last \in {j \in DOMAIN program.outputs : j > k /\ program.outputs[j].name = program.outputs[k].name}
    BY <1>2, <1>8, <2>1
  <2> DEFINE t == gr.outputs
  <2>3. gr # None
    <3>1. gr = None => Apart(o)
      BY <1>1 DEF GoodProgram, Origin
    <3>2. ~Apart(o)
      BY <1>2, <1>8, <1>11 DEF Apart
    <3> QED BY <3>1, <3>2
  <2>4. /\ gr \in Signatures /\ gr = blob.sig /\ Len(o) = Len(t)
        /\ o[last].name = OutputName(t[last], last) /\ o[k].name = OutputName(t[k], k)
    BY <1>1, <1>2, <1>8, <2>3 DEF GoodProgram, Origin
  <2>5. CASE ClientNamed(t[last]) \/ ClientNamed(t[k])
    <3>1. \E x \in {last, k} : program.graph.outputs[x].producer.name \notin {None, <<>>}
      BY <1>2, <2>5 DEF ClientNamed
    <3> QED BY <2>2, <3>1
  <2>6. CASE ~ClientNamed(t[last]) /\ ~ClientNamed(t[k])
    <3>1. OutputName(t[last], last) = OutputName(t[k], k)
      BY <1>8, <2>4
    <3>2. t[last].producer.node = t[k].producer.node /\ t[last].index = t[k].index
      <4> HIDE DEF t
      <4> QED BY <1>11, <2>1, <2>6, <3>1, UnnamedApart
    <3>3. last \in DOMAIN t /\ k \in DOMAIN t
      <4>1. DOMAIN t = 1..Len(t)
        BY <2>4, BoundaryAssumption, ListExact DEF IsList
      <4> QED BY <1>2, <1>5, <1>8, <2>4, <4>1
    <3>4. t[last].producer = t[k].producer
      BY <2>4, <3>2, <3>3, BoundaryAssumption
    <3>5. Returned(t[last], out[last]) /\ Returned(t[k], out[k])
      <4>1. Len(out) = Len(blob.sig.outputs)
        BY <1>6, <2>4
      <4>2. \A j \in DOMAIN out : Returned(blob.sig.outputs[j], out[j])
        BY <1>1, <1>3, <4>1, NativeExact DEF GoodProgram
      <4> QED BY <1>2, <1>5, <1>6, <1>8, <2>4, <4>2
    <3> DEFINE spec == t[k].producer.specs[t[k].index + 1]
               id == <<t[k].producer.node, t[k].index>>
    <3>6. PICK y : out[last] = [spec |-> spec, id |-> id, size |-> y]
      BY <3>2, <3>4, <3>5 DEF Returned
    <3>7. PICK z : out[k] = [spec |-> spec, id |-> id, size |-> z]
      BY <3>5 DEF Returned
    <3>8. y = z
      <4>1. y = SizeOf(spec)
        BY <1>7, <1>8, <3>6
      <4>2. z = SizeOf(spec)
        BY <1>2, <1>7, <3>7
      <4> QED BY <4>1, <4>2
    <3>9. out[last] = out[k]
      BY <3>6, <3>7, <3>8
    <3> QED BY <1>4, <2>2, <3>9
  <2> QED BY <2>5, <2>6
<1> QED BY <1>10, <1>11

-----------------------------------------------------------------------------
(* Boundary: bundles.                                                      *)

\* The manifest and the members of a program's bundle, and what the client
\* reads of a file.
ManifestOf(schema, gr, i, o, v, rs) ==
  [schema |-> schema, graph |-> gr, inputs |-> i, outputs |-> o, provenance |-> v, reports |-> rs]
EntriesOf(r) == [k \in DOMAIN r |-> Entry(ReportPath(k), r[k])]
PathsOf(r) == {GraphPath} \cup {ReportPath(k) : k \in DOMAIN r}
MembersOf(blob, r) == [x \in PathsOf(r) |-> IF x = GraphPath THEN blob ELSE r[x[2]]]
File(m, edited, of, f) == [manifest |-> m, edited |-> edited, of |-> of, members |-> f]

LEMMA PathsApart ==
  /\ \A k : ReportPath(k) # GraphPath /\ ReportPath(k) # Other /\ ReportPath(k)[2] = k
  /\ \A j, k : ReportPath(j) = ReportPath(k) => j = k
  /\ GraphPath # Other
<1>1. \A k : Len(ReportPath(k)) = 2 /\ ReportPath(k)[2] = k
  BY DEF ReportPath
<1>2. Len(GraphPath) = 1 /\ Len(Other) = 1 /\ GraphPath[1] = "graph.blob" /\ Other[1] = "other"
  BY DEF GraphPath, Other
<1>3. \A k : ReportPath(k) # GraphPath /\ ReportPath(k) # Other
  BY <1>1, <1>2
<1>4. GraphPath # Other
  BY <1>2
<1>5. \A j, k : ReportPath(j) = ReportPath(k) => j = k
  BY <1>1
<1> QED BY <1>1, <1>3, <1>4, <1>5

LEMMA MembersExact ==
  ASSUME NEW blob, NEW r
  PROVE  /\ DOMAIN MembersOf(blob, r) = PathsOf(r) /\ MembersOf(blob, r)[GraphPath] = blob
         /\ \A k \in DOMAIN r : MembersOf(blob, r)[ReportPath(k)] = r[k]
         /\ \A k : ReportPath(k) \in PathsOf(r) => k \in DOMAIN r
<1>1. DOMAIN MembersOf(blob, r) = PathsOf(r)
  BY DEF MembersOf
<1>2. MembersOf(blob, r)[GraphPath] = blob
  BY DEF MembersOf, PathsOf
<1>3. \A k \in DOMAIN r : MembersOf(blob, r)[ReportPath(k)] = r[k]
  <2> SUFFICES ASSUME NEW k \in DOMAIN r PROVE MembersOf(blob, r)[ReportPath(k)] = r[k]
    OBVIOUS
  <2>1. ReportPath(k) \in PathsOf(r)
    BY DEF PathsOf
  <2>2. MembersOf(blob, r)[ReportPath(k)] = IF ReportPath(k) = GraphPath THEN blob ELSE r[ReportPath(k)[2]]
    BY <2>1 DEF MembersOf
  <2> QED BY <2>2, PathsApart
<1>4. \A k : ReportPath(k) \in PathsOf(r) => k \in DOMAIN r
  BY PathsApart DEF PathsOf
<1> QED BY <1>1, <1>2, <1>3, <1>4

\* What load() makes of a file, if anything.
Gives(b, p, blob, r, i, o) ==
  /\ p = Made(blob, None, None, {b.manifest}, r, i, o)
  /\ blob = b.members[GraphPath] /\ blob.size # 0
  /\ DOMAIN b.members = PathsOf(b.manifest.reports)
  /\ r = [k \in DOMAIN b.manifest.reports |-> b.members[ReportPath(k)]] /\ IsList(r)
  /\ \A k \in DOMAIN b.manifest.reports : b.manifest.reports[k].path = ReportPath(k)
  /\ i \in ManifestContracts(b.manifest.inputs) /\ o \in ManifestContracts(b.manifest.outputs)
  /\ Contracts(i) /\ Contracts(o) /\ Apart(o) /\ Runs(o)

LEMMA LoadedExact ==
  ASSUME NEW b, NEW p \in LoadedProgram(b),
         IsList(b.manifest.inputs), IsList(b.manifest.outputs), IsList(b.manifest.reports)
  PROVE  \E blob, r, i, o : Gives(b, p, blob, r, i, o)
<1> DEFINE m == b.manifest
           s == [k \in DOMAIN m.reports |-> Member(b.members, m.reports[k], ReportPath(k))]
<1>1. ~(m.schema # "npunlock.program.v1" \/ m.graph.size = 0 \/ DOMAIN b.members # PathsOf(m.reports))
  BY DEF LoadedProgram, PathsOf
<1>2. PICK blob \in Member(b.members, m.graph, GraphPath), r \in Each1(s),
           i \in ManifestContracts(m.inputs), o \in ManifestContracts(m.outputs) :
        p = Made(blob, None, None, {m}, r, i, o)
  BY <1>1 DEF LoadedProgram, Made, PathsOf, Reports
<1>3. \A entry, path : \A x \in Member(b.members, entry, path) : x = b.members[path] /\ entry.path = path /\ x.size = entry.size
  BY DEF Member
<1>4. blob = b.members[GraphPath] /\ blob.size # 0
  BY <1>1, <1>3
<1>5. r = [k \in DOMAIN m.reports |-> r[k]] /\ \A k \in DOMAIN m.reports : r[k] \in Member(b.members, m.reports[k], ReportPath(k))
  <2>1. r = [k \in DOMAIN s |-> r[k]] /\ \A k \in DOMAIN s : r[k] \in s[k]
    BY Each1Exact
  <2> QED BY <2>1
<1>6. \A k \in DOMAIN m.reports : r[k] = b.members[ReportPath(k)] /\ m.reports[k].path = ReportPath(k)
  BY <1>3, <1>5
<1>7. r = [k \in DOMAIN m.reports |-> b.members[ReportPath(k)]]
  BY <1>5, <1>6
<1>8. IsList(r)
  <2>1. DOMAIN m.reports = 1..Len(m.reports) /\ Len(m.reports) \in Nat
    BY ListExact
  <2>2. r = [k \in 1..Len(m.reports) |-> r[k]]
    BY <1>5, <2>1
  <2> QED BY <2>1, <2>2, ListExact
<1>9. Contracts(i) /\ Contracts(o) /\ Apart(o) /\ Runs(o)
  BY ManifestContractsExact
<1>10. DOMAIN b.members = PathsOf(m.reports)
  BY <1>1
<1> HIDE DEF s
<1>11. Gives(b, p, blob, r, i, o)
  BY <1>2, <1>4, <1>6, <1>7, <1>8, <1>9, <1>10 DEF Gives
<1> QED BY <1>11

\* What load() sees of a file.
LEMMA LoadedAlike ==
  ASSUME NEW b, NEW c, b.manifest = c.manifest, b.members = c.members
  PROVE  LoadedProgram(b) = LoadedProgram(c)
BY DEF LoadedProgram

-----------------------------------------------------------------------------
(* Boundary: a bundle that nobody edited.                                  *)

\* The tensors that cannot be saved.
Unsavable(i, o) ==
  \/ Cardinality(Names(i)) < Len(i)
  \/ Cardinality(Names(o)) < Len(o)
  \/ \E k \in DOMAIN (i \o o) : \/ (i \o o)[k].spec.dtype \notin DOMAIN ItemSize
                                \/ Len((i \o o)[k].spec.shape) > 5

LEMMA SavableRuns ==
  ASSUME NEW i, NEW o, Contracts(i), Contracts(o)
  PROVE  Unsavable(i, o) <=> ~Runs(i) \/ ~Runs(o)
<1> DEFINE Bad(c) == c.spec.dtype \notin DOMAIN ItemSize \/ Len(c.spec.shape) > 5
<1>1. \A c \in {i, o} : Runs(c) <=> /\ ~(Cardinality(Names(c)) < Len(c))
                                    /\ \A k \in DOMAIN c : ~Bad(c[k])
  <2> SUFFICES ASSUME NEW c \in {i, o}
               PROVE  Runs(c) <=> /\ ~(Cardinality(Names(c)) < Len(c))
                                  /\ \A k \in DOMAIN c : ~Bad(c[k])
    OBVIOUS
  <2>1. IsList(c) /\ Contracts(c)
    BY DEF Contracts
  <2>2. Cardinality(Names(c)) \in Nat /\ Cardinality(Names(c)) <= Len(c) /\ Len(c) \in Nat
    BY <2>1, NamesCounted, ListExact
  <2>3. Cardinality(Names(c)) = Len(c) <=> ~(Cardinality(Names(c)) < Len(c))
    BY <2>2
  <2>4. \A k \in DOMAIN c : Len(c[k].spec.shape) <= 5 <=> ~(Len(c[k].spec.shape) > 5)
    OBVIOUS
  <2> QED BY <2>3, <2>4 DEF Runs
<1>2. (\E k \in DOMAIN (i \o o) : Bad((i \o o)[k])) <=> (\E k \in DOMAIN i : Bad(i[k])) \/ (\E k \in DOMAIN o : Bad(o[k]))
  <2>1. i \in Seq(Range(i)) /\ o \in Seq(Range(o))
    BY DEF Contracts, IsList
  <2> DEFINE S == Range(i) \cup Range(o)
  <2>2. i \in Seq(S) /\ o \in Seq(S)
    BY <2>1
  <2> HIDE DEF S, Bad
  <2>3. /\ Len(i \o o) = Len(i) + Len(o) /\ DOMAIN (i \o o) = 1..(Len(i) + Len(o))
        /\ \A k \in 1..(Len(i) + Len(o)) : (i \o o)[k] = IF k <= Len(i) THEN i[k] ELSE o[k - Len(i)]
    BY <2>2, ConcatProperties
  <2>4. DOMAIN i = 1..Len(i) /\ DOMAIN o = 1..Len(o) /\ Len(i) \in Nat /\ Len(o) \in Nat
    BY <2>2
  <2>5. \A k \in DOMAIN i : k \in DOMAIN (i \o o) /\ (i \o o)[k] = i[k]
    BY <2>3, <2>4
  <2>6. \A k \in DOMAIN o : k + Len(i) \in DOMAIN (i \o o) /\ (i \o o)[k + Len(i)] = o[k]
    BY <2>3, <2>4
  <2>7. ASSUME NEW k \in DOMAIN (i \o o)
        PROVE  \/ k \in DOMAIN i /\ (i \o o)[k] = i[k]
               \/ k - Len(i) \in DOMAIN o /\ (i \o o)[k] = o[k - Len(i)]
    <3>1. k \in 1..(Len(i) + Len(o))
      BY <2>3
    <3>2. k <= Len(i) => k \in 1..Len(i)
      BY <2>4, <3>1
    <3>3. ~(k <= Len(i)) => k - Len(i) \in 1..Len(o)
      BY <2>4, <3>1
    <3>4. (i \o o)[k] = IF k <= Len(i) THEN i[k] ELSE o[k - Len(i)]
      BY <2>3, <3>1
    <3> QED BY <2>4, <3>2, <3>3, <3>4
  <2> QED BY <2>5, <2>6, <2>7
<1> HIDE DEF Bad
<1>3. Unsavable(i, o) <=> \/ Cardinality(Names(i)) < Len(i)
                          \/ Cardinality(Names(o)) < Len(o)
                          \/ \E k \in DOMAIN (i \o o) : Bad((i \o o)[k])
  BY DEF Unsavable, Bad
<1> QED BY <1>1, <1>2, <1>3

\* The file that export() writes.
Exported(blob, r, i, o, v, p) ==
  File(ManifestOf("npunlock.program.v1", Entry(GraphPath, blob), i, o, v, EntriesOf(r)), FALSE, p, MembersOf(blob, r))

LEMMA EntriesExact ==
  ASSUME NEW r, IsList(r)
  PROVE  IsList(EntriesOf(r)) /\ DOMAIN EntriesOf(r) = DOMAIN r /\ PathsOf(EntriesOf(r)) = PathsOf(r)
<1>1. DOMAIN r = 1..Len(r) /\ Len(r) \in Nat
  BY ListExact
<1>2. EntriesOf(r) = [k \in 1..Len(r) |-> EntriesOf(r)[k]] /\ DOMAIN EntriesOf(r) = DOMAIN r
  BY <1>1 DEF EntriesOf
<1>3. IsList(EntriesOf(r))
  BY <1>1, <1>2, ListExact
<1> QED BY <1>2, <1>3 DEF PathsOf

LEMMA ProvenanceKept ==
  ASSUME NEW p, NEW v \in Provenance(p), NEW q, q.ir = None, NEW m, q.manifest = {m}, m.provenance = v
  PROVE  Provenance(q) = Provenance(p)
<1>1. \A w, x : w \in ProvenanceOf(x) => w = x /\ ProvenanceOf(x) = {x}
  BY DEF ProvenanceOf, Require
<1>2. Provenance(q) = IF v = None THEN {None} ELSE ProvenanceOf(v)
  BY DEF Provenance
<1>3. CASE p.ir # None
  <2>1. Provenance(p) = ProvenanceOf(p.ir)
    BY <1>3 DEF Provenance
  <2>2. v = p.ir
    BY <1>1, <2>1
  <2> QED BY <1>2, <1>3, <2>1, <2>2
<1>4. CASE p.ir = None /\ p.manifest = {}
  BY <1>2, <1>4 DEF Provenance
<1>5. CASE p.ir = None /\ p.manifest # {}
  BY <1>2, <1>5 DEF Provenance
<1> QED BY <1>3, <1>4, <1>5

\* An unedited bundle gives back the program, unless a tensor cannot be saved.
LEMMA UneditedLoaded ==
  ASSUME NEW blob, NEW gr, NEW r, NEW i, NEW o, GoodProgram(blob, gr, r, i, o),
         NEW p, NEW v \in Provenance(p), NEW e, e = Exported(blob, r, i, o, v, p), NEW q \in LoadedProgram(e)
  PROVE  /\ q.inputs = i /\ q.outputs = o /\ q.blob = blob /\ q.reports = r
         /\ Provenance(q) = Provenance(p)
<1> DEFINE m == e.manifest
<1>1. /\ e.members = MembersOf(blob, r) /\ m.inputs = i /\ m.outputs = o
      /\ m.provenance = v /\ m.reports = EntriesOf(r)
  BY DEF Exported, File, ManifestOf
<1>2. IsList(i) /\ IsList(o) /\ IsList(r) /\ Contracts(i) /\ Contracts(o)
  BY DEF GoodProgram, Contracts
<1>3. IsList(EntriesOf(r)) /\ DOMAIN EntriesOf(r) = DOMAIN r
  BY <1>2, EntriesExact
<1>10. IsList(m.inputs) /\ IsList(m.outputs) /\ IsList(m.reports)
  BY <1>1, <1>2, <1>3
<1>4. PICK blob1, r1, i1, o1 : Gives(e, q, blob1, r1, i1, o1)
  BY <1>10, LoadedExact
<1>5. q.blob = blob1 /\ q.reports = r1 /\ q.inputs = i1 /\ q.outputs = o1 /\ q.ir = None /\ q.manifest = {m}
  BY <1>4 DEF Gives, Made
<1>6. blob1 = blob
  BY <1>1, <1>4, MembersExact DEF Gives
<1>7. r1 = r
  <2>1. r = [k \in DOMAIN r |-> r[k]]
    <3>1. r = [k \in 1..Len(r) |-> r[k]] /\ DOMAIN r = 1..Len(r)
      BY <1>2, ListExact
    <3> QED BY <3>1
  <2>2. \A k \in DOMAIN r : e.members[ReportPath(k)] = r[k]
    BY <1>1, MembersExact
  <2> QED BY <1>1, <1>3, <1>4, <2>1, <2>2 DEF Gives
<1>8. i1 = i /\ o1 = o
  BY <1>1, <1>2, <1>4, ManifestContractsExact DEF Gives
<1>9. Provenance(q) = Provenance(p)
  BY <1>1, <1>5, ProvenanceKept
<1> QED BY <1>5, <1>6, <1>7, <1>8, <1>9

LEMMA LoadedMember ==
  ASSUME NEW b, b.manifest.schema = "npunlock.program.v1", b.manifest.graph.size # 0,
         DOMAIN b.members = PathsOf(b.manifest.reports),
         NEW x \in Member(b.members, b.manifest.graph, GraphPath),
         NEW y \in Reports(b.members, b.manifest.reports),
         NEW c \in ManifestContracts(b.manifest.inputs), NEW d \in ManifestContracts(b.manifest.outputs)
  PROVE  Made(x, None, None, {b.manifest}, y, c, d) \in LoadedProgram(b)
<1> DEFINE m == b.manifest
           paths == {GraphPath} \cup {ReportPath(k) : k \in DOMAIN m.reports}
           all == {[blob |-> w, graph |-> None, ir |-> None, manifest |-> {m}, reports |-> z, inputs |-> i, outputs |-> o] :
                     w \in Member(b.members, m.graph, GraphPath), z \in Reports(b.members, m.reports),
                     i \in ManifestContracts(m.inputs), o \in ManifestContracts(m.outputs)}
           refused == m.schema # "npunlock.program.v1" \/ m.graph.size = 0 \/ DOMAIN b.members # paths
<1>1. LoadedProgram(b) = IF refused THEN {} ELSE all
  BY DEF LoadedProgram
<1>2. ~refused
  BY DEF PathsOf
<1>3. Made(x, None, None, {m}, y, c, d) \in all
  <2> DEFINE A == Member(b.members, m.graph, GraphPath)
             B == Reports(b.members, m.reports)
             C == ManifestContracts(m.inputs)
             D == ManifestContracts(m.outputs)
  <2>1. x \in A /\ y \in B /\ c \in C /\ d \in D
    OBVIOUS
  <2>2. all = {Made(w, None, None, {m}, z, i, o) : w \in A, z \in B, i \in C, o \in D}
    BY DEF Made
  <2> HIDE DEF A, B, C, D, all, m
  <2> QED BY <2>1, <2>2
<1> HIDE DEF refused, all
<1> QED BY <1>1, <1>2, <1>3

LEMMA SavableLoaded ==
  ASSUME NEW blob, NEW gr, NEW r, NEW i, NEW o, GoodProgram(blob, gr, r, i, o),
         NEW v, NEW p, NEW e, e = Exported(blob, r, i, o, v, p)
  PROVE  LoadedProgram(e) = {} <=> Unsavable(i, o)
<1> DEFINE m == e.manifest
           f == MembersOf(blob, r)
           s == [k \in DOMAIN m.reports |-> Member(e.members, m.reports[k], ReportPath(k))]
<1>1. /\ e.members = f /\ m.inputs = i /\ m.outputs = o /\ m.reports = EntriesOf(r)
      /\ m.schema = "npunlock.program.v1" /\ m.graph = Entry(GraphPath, blob)
  BY DEF Exported, File, ManifestOf
<1>2. IsList(i) /\ IsList(o) /\ IsList(r) /\ Contracts(i) /\ Contracts(o) /\ blob.size # 0
  BY DEF GoodProgram, Contracts
<1>3. DOMAIN EntriesOf(r) = DOMAIN r /\ PathsOf(EntriesOf(r)) = PathsOf(r)
  BY <1>2, EntriesExact
<1>4. DOMAIN f = PathsOf(r) /\ f[GraphPath] = blob /\ \A k \in DOMAIN r : f[ReportPath(k)] = r[k]
  BY MembersExact
<1> HIDE DEF f
<1>5. \A path, x : path \in DOMAIN f /\ f[path] = x => Member(f, Entry(path, x), path) = {x}
  <2> SUFFICES ASSUME NEW path \in DOMAIN f PROVE Member(f, Entry(path, f[path]), path) = {f[path]}
    OBVIOUS
  <2>1. Entry(path, f[path]).path = path /\ Entry(path, f[path]).size = f[path].size /\ Entry(path, f[path]).sha256 = f[path].id
    BY DEF Entry
  <2> HIDE DEF m
  <2> QED BY <2>1 DEF Member
<1>6. Member(e.members, m.graph, GraphPath) = {blob}
  <2>1. GraphPath \in DOMAIN f
    BY <1>4 DEF PathsOf
  <2> QED BY <1>1, <1>4, <1>5, <2>1
<1>7. Each1(s) = {r}
  <2>1. r = [k \in DOMAIN r |-> r[k]]
    <3>1. r = [k \in 1..Len(r) |-> r[k]] /\ DOMAIN r = 1..Len(r)
      BY <1>2, ListExact
    <3> QED BY <3>1
  <2>2. DOMAIN s = DOMAIN r
    BY <1>1, <1>3
  <2>3. \A k \in DOMAIN r : s[k] = {r[k]}
    <3> SUFFICES ASSUME NEW k \in DOMAIN r PROVE s[k] = {r[k]}
      OBVIOUS
    <3>1. m.reports[k] = Entry(ReportPath(k), r[k])
      BY <1>1 DEF EntriesOf
    <3>2. ReportPath(k) \in DOMAIN f
      BY <1>4 DEF PathsOf
    <3>3. Member(f, Entry(ReportPath(k), r[k]), ReportPath(k)) = {r[k]}
      BY <1>4, <1>5, <3>2
    <3> QED BY <1>1, <1>3, <3>1, <3>3
  <2> HIDE DEF s
  <2> QED BY <2>1, <2>2, <2>3, Each1Single
<1>8. m.graph.size # 0
  BY <1>1, <1>2 DEF Entry
<1>9. PathsOf(m.reports) = DOMAIN e.members
  BY <1>1, <1>3, <1>4
<1>10. ASSUME NEW c \in ManifestContracts(i), NEW d \in ManifestContracts(o)
       PROVE  LoadedProgram(e) # {}
  <2>1. ~(m.schema # "npunlock.program.v1" \/ m.graph.size = 0 \/ DOMAIN e.members # PathsOf(m.reports))
    BY <1>1, <1>8, <1>9
  <2>2. blob \in Member(e.members, m.graph, GraphPath) /\ r \in Reports(e.members, m.reports)
    BY <1>6, <1>7 DEF Reports
  <2>3. c \in ManifestContracts(m.inputs) /\ d \in ManifestContracts(m.outputs)
    BY <1>1
  <2>4. Made(blob, None, None, {m}, r, c, d) \in LoadedProgram(e)
    BY <2>1, <2>2, <2>3, LoadedMember
  <2> QED BY <2>4
<1>11. LoadedProgram(e) # {} => ManifestContracts(i) # {} /\ ManifestContracts(o) # {}
  <2> SUFFICES ASSUME NEW q \in LoadedProgram(e)
               PROVE  ManifestContracts(i) # {} /\ ManifestContracts(o) # {}
    OBVIOUS
  <2>1. IsList(m.inputs) /\ IsList(m.outputs) /\ IsList(m.reports)
    BY <1>1, <1>2, EntriesExact
  <2>2. \E c, d : c \in ManifestContracts(m.inputs) /\ d \in ManifestContracts(m.outputs)
    BY <2>1, LoadedExact DEF Gives
  <2> QED BY <1>1, <2>2
<1>12. /\ ManifestContracts(i) = {} <=> ~Runs(i)
       /\ ManifestContracts(o) = {} <=> ~Runs(o)
  BY <1>2, ManifestContractsExact
<1> QED BY <1>2, <1>10, <1>11, <1>12, SavableRuns

-----------------------------------------------------------------------------
(* Boundary: a bundle that somebody edited.                                *)

LEMMA ListEdits ==
  ASSUME NEW s, IsList(s)
  PROVE  /\ \A k, x : IsList([s EXCEPT ![k] = x])
         /\ \A x : IsList(s \o <<x>>) /\ Len(s \o <<x>>) = Len(s) + 1
         /\ IsList(<<>>)
<1>1. DOMAIN s = 1..Len(s) /\ Len(s) \in Nat /\ s \in Seq(Range(s))
  BY ListExact DEF IsList
<1>2. ASSUME NEW k, NEW x PROVE IsList([s EXCEPT ![k] = x])
  <2> DEFINE t == [s EXCEPT ![k] = x]
  <2>1. DOMAIN t = 1..Len(s) /\ t = [j \in 1..Len(s) |-> t[j]]
    BY <1>1
  <2> HIDE DEF t
  <2> QED BY <1>1, <2>1, ListExact DEF t
<1>3. ASSUME NEW x PROVE IsList(s \o <<x>>) /\ Len(s \o <<x>>) = Len(s) + 1
  <2> DEFINE S == Range(s) \cup {x}
  <2>1. s \in Seq(S) /\ <<x>> \in Seq(S) /\ Len(<<x>>) = 1
    BY <1>1
  <2> HIDE DEF S
  <2>2. s \o <<x>> \in Seq(S) /\ Len(s \o <<x>>) = Len(s) + 1
    BY <2>1
  <2>3. s \o <<x>> = [j \in 1..Len(s \o <<x>>) |-> (s \o <<x>>)[j]] /\ Len(s \o <<x>>) \in Nat
    BY <2>2
  <2> QED BY <2>2, <2>3, ListExact
<1>4. IsList(<<>>)
  BY DEF IsList
<1> QED BY <1>2, <1>3, <1>4

\* The entries and the members of a file before and after an edit.
Edited(blob, rs, f, rs2, f2) ==
  \/ rs2 = rs /\ f2 = f
  \/ f2 = f /\ \E x : rs2 = rs \o <<x>>
  \/ rs2 = rs /\ f2 = [x \in DOMAIN f \cup {Other} |-> IF x = Other THEN blob ELSE f[x]]
  \/ rs2 = rs /\ f2 = [x \in DOMAIN f \ {GraphPath} |-> f[x]]
  \/ /\ \E k \in DOMAIN rs : \E x : rs2 = [rs EXCEPT ![k] = x]
     /\ \E k \in DOMAIN rs : \E id : f2 = [f EXCEPT ![ReportPath(k)] = [[f[ReportPath(k)] EXCEPT !.preserved = FALSE] EXCEPT !.id = id]]

AnEdit(p, rs, f, b) ==
  \E m2, f2 : /\ b = File(m2, TRUE, p, f2) /\ Edited(p.blob, rs, f, m2.reports, f2)
              /\ IsList(m2.inputs) /\ IsList(m2.outputs) /\ IsList(m2.reports)

\* A field of a file is replaced.
LEMMA FileExact ==
  ASSUME NEW m, NEW y, NEW p, NEW f
  PROVE  /\ \A z : [File(m, y, p, f) EXCEPT !.edited = z] = File(m, z, p, f)
         /\ \A z : [File(m, y, p, f) EXCEPT !.manifest = z] = File(z, y, p, f)
         /\ \A z : [File(m, y, p, f) EXCEPT !.members = z] = File(m, y, p, z)
BY DEF File

\* Each way of editing a file.
LEMMA EditExact ==
  ASSUME NEW schema, NEW gr, NEW i, NEW o, NEW v, NEW rs, NEW p, NEW f,
         IsList(i), IsList(o), IsList(rs),
         NEW b \in Edits(File(ManifestOf(schema, gr, i, o, v, rs), FALSE, p, f))
  PROVE  AnEdit(p, rs, f, [b EXCEPT !.edited = TRUE])
<1> DEFINE m == ManifestOf(schema, gr, i, o, v, rs)
           e == File(m, FALSE, p, f)
           Put(x) == [x EXCEPT !.edited = TRUE]
<1>0. ASSUME NEW m1, NEW f1 PROVE Put(File(m1, FALSE, p, f1)) = File(m1, TRUE, p, f1)
  <2>1. \A y, z : [File(m1, y, p, f1) EXCEPT !.edited = z] = File(m1, z, p, f1)
    BY FileExact
  <2> QED BY <2>1, Zenon
<1>1. ASSUME NEW m2, NEW f2, Edited(p.blob, rs, f, m2.reports, f2),
             IsList(m2.inputs), IsList(m2.outputs), IsList(m2.reports), b = File(m2, FALSE, p, f2)
      PROVE  AnEdit(p, rs, f, Put(b))
  <2>1. Put(b) = File(m2, TRUE, p, f2)
    BY <1>0, <1>1
  <2> QED BY <1>1, <2>1 DEF AnEdit
<1>2. ASSUME NEW schema2, NEW graph2, NEW i2, NEW o2, NEW v2, IsList(i2), IsList(o2),
             b = File(ManifestOf(schema2, graph2, i2, o2, v2, rs), FALSE, p, f)
      PROVE  AnEdit(p, rs, f, Put(b))
  <2> DEFINE m2 == ManifestOf(schema2, graph2, i2, o2, v2, rs)
  <2>1. m2.reports = rs /\ m2.inputs = i2 /\ m2.outputs = o2
    BY DEF ManifestOf
  <2>2. Edited(p.blob, rs, f, m2.reports, f)
    BY <2>1 DEF Edited
  <2> HIDE DEF m2
  <2>3. b = File(m2, FALSE, p, f)
    BY <1>2 DEF m2
  <2> QED BY <1>1, <1>2, <2>1, <2>2, <2>3
<1>3. ASSUME NEW rs2, NEW f2, IsList(rs2), Edited(p.blob, rs, f, rs2, f2),
             b = File(ManifestOf(schema, gr, i, o, v, rs2), FALSE, p, f2)
      PROVE  AnEdit(p, rs, f, Put(b))
  <2> DEFINE m2 == ManifestOf(schema, gr, i, o, v, rs2)
  <2>1. m2.reports = rs2 /\ m2.inputs = i /\ m2.outputs = o
    BY DEF ManifestOf
  <2> HIDE DEF m2
  <2>2. b = File(m2, FALSE, p, f2)
    BY <1>3 DEF m2
  <2> QED BY <1>1, <1>3, <2>1, <2>2
<1>4. e.manifest = m /\ e.members = f /\ e.of = p /\ m.reports = rs
  BY DEF File, ManifestOf
<1> DEFINE E1 == {[e EXCEPT !.manifest.schema = "other"], [e EXCEPT !.manifest.graph.path = Other],
                  [e EXCEPT !.manifest.graph.size = 0], [e EXCEPT !.manifest.graph.sha256 = "other"],
                  [e EXCEPT !.manifest.provenance = [driver |-> 0, compiler |-> <<0>>]]}
           E2 == {[e EXCEPT !.manifest.outputs = <<>>], [e EXCEPT !.manifest.outputs[1].name = <<>>],
                  [e EXCEPT !.manifest.outputs[1].spec.dtype = "boolean"],
                  [e EXCEPT !.manifest.outputs[1].spec.shape = <<1, 1, 1, 1, 1, 1>>],
                  [e EXCEPT !.manifest.outputs[1].spec.shape = <<3>>]}
           E3 == {[e EXCEPT !.manifest.outputs = @ \o <<@[1]>>], [e EXCEPT !.manifest.inputs = @ \o <<@[1]>>]}
           E4 == {[e EXCEPT !.manifest.reports = @ \o <<Entry(Other, e.of.blob)>>]}
           E5 == {[e EXCEPT !.members = [x \in DOMAIN @ \cup {Other} |-> IF x = Other THEN e.of.blob ELSE @[x]]],
                  [e EXCEPT !.members = [x \in DOMAIN @ \ {GraphPath} |-> @[x]]]}
           E6 == {Forged(e, k, id) : k \in DOMAIN e.manifest.reports, id \in {"forged", "other"}}
<1>5. b \in E1 \cup E2 \cup E3 \cup E4 \cup E5 \cup E6
  <2>1. Edits(e) = Damaged(e) \cup Retyped(e) \cup E6
    BY DEF Edits
  <2>2. Damaged(e) = E1 \cup E4 \cup E5
    BY DEF Damaged
  <2>3. Retyped(e) = E2 \cup E3
    BY DEF Retyped
  <2> HIDE DEF E1, E2, E3, E4, E5, E6
  <2> QED BY <2>1, <2>2, <2>3
<1>6. CASE b \in E1
  <2>1. \E schema2, graph2, v2 : b = File(ManifestOf(schema2, graph2, i, o, v2, rs), FALSE, p, f)
    BY <1>6 DEF File, ManifestOf
  <2> QED BY <1>2, <2>1
<1>7. CASE b \in E2
  <2> DEFINE Outputs(o2) == b = File(ManifestOf(schema, gr, i, o2, v, rs), FALSE, p, f)
             Output(x) == Outputs([o EXCEPT ![1] = x])
  <2>1. \/ Outputs(<<>>) \/ Output([o[1] EXCEPT !.name = <<>>])
        \/ Output([o[1] EXCEPT !.spec = [@ EXCEPT !.dtype = "boolean"]])
        \/ Output([o[1] EXCEPT !.spec = [@ EXCEPT !.shape = <<1, 1, 1, 1, 1, 1>>]])
        \/ Output([o[1] EXCEPT !.spec = [@ EXCEPT !.shape = <<3>>]])
    BY <1>7 DEF File, ManifestOf
  <2>2. \A o2 : Outputs(o2) /\ IsList(o2) => AnEdit(p, rs, f, Put(b))
    BY <1>2
  <2>3. \A x : IsList([o EXCEPT ![1] = x])
    BY ListEdits
  <2>4. \A x : Output(x) => AnEdit(p, rs, f, Put(b))
    BY <2>2, <2>3
  <2>5. Outputs(<<>>) => AnEdit(p, rs, f, Put(b))
    BY <2>2, ListEdits
  <2> HIDE DEF Outputs, Output
  <2> QED BY <2>1, <2>4, <2>5
<1>8. CASE b \in E3
  <2>1. \/ b = File(ManifestOf(schema, gr, i, o \o <<o[1]>>, v, rs), FALSE, p, f)
        \/ b = File(ManifestOf(schema, gr, i \o <<i[1]>>, o, v, rs), FALSE, p, f)
    BY <1>8 DEF File, ManifestOf
  <2> QED BY <1>2, <2>1, ListEdits
<1>9. CASE b \in E4
  <2>1. b = File(ManifestOf(schema, gr, i, o, v, rs \o <<Entry(Other, p.blob)>>), FALSE, p, f)
    BY <1>4, <1>9 DEF File, ManifestOf
  <2>2. Edited(p.blob, rs, f, rs \o <<Entry(Other, p.blob)>>, f)
    BY DEF Edited
  <2>3. IsList(rs \o <<Entry(Other, p.blob)>>)
    BY ListEdits
  <2> QED BY <1>3, <2>1, <2>2, <2>3
<1>10. CASE b \in E5
  <2> DEFINE f1 == [x \in DOMAIN f \cup {Other} |-> IF x = Other THEN p.blob ELSE f[x]]
             f2 == [x \in DOMAIN f \ {GraphPath} |-> f[x]]
  <2>1. b = File(m, FALSE, p, f1) \/ b = File(m, FALSE, p, f2)
    BY <1>4, <1>10 DEF File
  <2>2. Edited(p.blob, rs, f, rs, f1) /\ Edited(p.blob, rs, f, rs, f2)
    BY DEF Edited
  <2> HIDE DEF f1, f2
  <2> QED BY <1>3, <2>1, <2>2
<1>11. CASE b \in E6
  <2>1. PICK k \in DOMAIN e.manifest.reports, id \in {"forged", "other"} : b = Forged(e, k, id)
    <3> HIDE DEF e
    <3> QED BY <1>11
  <2>6. k \in DOMAIN rs
    BY <1>4
  <2> DEFINE x == [rs[k] EXCEPT !.sha256 = "forged"]
             rs2 == [rs EXCEPT ![k] = x]
             f1 == [f EXCEPT ![ReportPath(k)].preserved = FALSE, ![ReportPath(k)].id = id]
             f2 == [f EXCEPT ![ReportPath(k)] = [[f[ReportPath(k)] EXCEPT !.preserved = FALSE] EXCEPT !.id = id]]
  <2>2. b = File(ManifestOf(schema, gr, i, o, v, rs2), FALSE, p, f1)
    BY <2>1 DEF Forged, File, ManifestOf
  <2>3. f1 = f2
    OBVIOUS
  <2>4. Edited(p.blob, rs, f, rs2, f2)
    <3> HIDE DEF x
    <3> QED BY <2>6 DEF Edited
  <2>5. IsList(rs2)
    <3> HIDE DEF x
    <3> QED BY ListEdits
  <2> HIDE DEF rs2, f1, f2
  <2> QED BY <1>3, <2>2, <2>3, <2>4, <2>5
<1> HIDE DEF E1, E2, E3, E4, E5, E6
<1> QED BY <1>5, <1>6, <1>7, <1>8, <1>9, <1>10, <1>11

LEMMA EditedLoaded ==
  ASSUME NEW blob, NEW gr, NEW r, NEW i, NEW o, GoodProgram(blob, gr, r, i, o),
         NEW b, IsList(b.manifest.inputs), IsList(b.manifest.outputs), IsList(b.manifest.reports),
         Edited(blob, EntriesOf(r), MembersOf(blob, r), b.manifest.reports, b.members),
         NEW q \in LoadedProgram(b)
  PROVE  /\ IsProgram(q) /\ q.blob = blob /\ Cardinality(Names(q.outputs)) = Len(q.outputs)
         /\ q.reports = r \/ Evidence(q) = {}
<1> DEFINE rs == EntriesOf(r)
           f == MembersOf(blob, r)
           rs2 == b.manifest.reports
           f2 == b.members
<1>1. PICK blob1, r1, i1, o1 : Gives(b, q, blob1, r1, i1, o1)
  BY LoadedExact
<1>2. q.blob = blob1 /\ q.reports = r1 /\ q.outputs = o1
  BY <1>1 DEF Gives, Made
<1>3. /\ blob1 = f2[GraphPath] /\ DOMAIN f2 = PathsOf(rs2)
      /\ r1 = [k \in DOMAIN rs2 |-> f2[ReportPath(k)]] /\ IsList(r1)
      /\ Contracts(i1) /\ Contracts(o1) /\ Apart(o1) /\ Runs(o1)
  BY <1>1 DEF Gives
<1>4. /\ IsList(r) /\ (\A k \in DOMAIN r : IsReport(r[k])) /\ blob.sig \in Signatures /\ blob.size # 0
  BY DEF GoodProgram
<1>5. IsList(rs) /\ DOMAIN rs = DOMAIN r /\ PathsOf(rs) = PathsOf(r)
  BY <1>4, EntriesExact
<1>6. /\ DOMAIN f = PathsOf(r) /\ f[GraphPath] = blob
      /\ \A k \in DOMAIN r : f[ReportPath(k)] = r[k]
      /\ \A k : ReportPath(k) \in PathsOf(r) => k \in DOMAIN r
  BY MembersExact
<1>7. /\ GraphPath \in PathsOf(r) /\ Other \notin PathsOf(r)
      /\ \A k \in DOMAIN r : ReportPath(k) \in PathsOf(r)
  BY PathsApart DEF PathsOf
<1>8. r = [k \in DOMAIN r |-> r[k]]
  <2>1. r = [k \in 1..Len(r) |-> r[k]] /\ DOMAIN r = 1..Len(r)
    BY <1>4, ListExact
  <2> QED BY <2>1
<1> HIDE DEF rs, f, rs2, f2
<1> DEFINE Kept == blob1 = blob /\ r1 = r
           Unproved(x) == ~x.preserved
           Bad == blob1 = blob /\ (\A k \in DOMAIN r1 : IsReport(r1[k])) /\ \E k \in DOMAIN r1 : Unproved(r1[k])
<1>9. ASSUME rs2 = rs /\ f2 = f PROVE Kept
  <2>1. blob1 = blob
    BY <1>3, <1>6, <1>9
  <2>2. r1 = r
    BY <1>3, <1>5, <1>6, <1>8, <1>9
  <2> QED BY <2>1, <2>2
<1>10. ASSUME f2 = f, NEW x, rs2 = rs \o <<x>> PROVE FALSE
  <2>1. Len(rs2) = Len(rs) + 1 /\ IsList(rs2)
    BY <1>5, <1>10, ListEdits
  <2>2. DOMAIN rs2 = 1..(Len(rs) + 1) /\ DOMAIN rs = 1..Len(rs) /\ Len(rs) \in Nat
    BY <1>5, <2>1, ListExact
  <2>3. ReportPath(Len(rs) + 1) \in PathsOf(rs2)
    BY <2>2 DEF PathsOf
  <2>4. Len(rs) + 1 \in DOMAIN r
    BY <1>3, <1>6, <1>10, <2>3
  <2> QED BY <1>5, <2>2, <2>4
<1>11. ASSUME rs2 = rs, f2 = [x \in DOMAIN f \cup {Other} |-> IF x = Other THEN blob ELSE f[x]] PROVE FALSE
  <2>1. Other \in DOMAIN f2
    BY <1>11
  <2> QED BY <1>3, <1>5, <1>7, <1>11, <2>1
<1>12. ASSUME rs2 = rs, f2 = [x \in DOMAIN f \ {GraphPath} |-> f[x]] PROVE FALSE
  <2>1. GraphPath \notin DOMAIN f2
    BY <1>12
  <2> QED BY <1>3, <1>5, <1>7, <1>12, <2>1
<1>13. ASSUME NEW j \in DOMAIN rs, NEW x, rs2 = [rs EXCEPT ![j] = x], NEW k \in DOMAIN rs, NEW id,
              f2 = [f EXCEPT ![ReportPath(k)] = [[f[ReportPath(k)] EXCEPT !.preserved = FALSE] EXCEPT !.id = id]]
       PROVE  Bad
  <2> DEFINE y == [[r[k] EXCEPT !.preserved = FALSE] EXCEPT !.id = id]
  <2>1. DOMAIN rs2 = DOMAIN r /\ DOMAIN r1 = DOMAIN r
    BY <1>3, <1>5, <1>13
  <2>3. f2 = [f EXCEPT ![ReportPath(k)] = y]
    BY <1>5, <1>6, <1>13
  <2>4. IsReport(y) /\ Unproved(y)
    <3>1. IsReport(r[k])
      BY <1>4, <1>5
    <3>2. "preserved" \in DOMAIN y /\ "id" \in DOMAIN y
      BY <3>1 DEF IsReport
    <3>3. y.preserved = FALSE
      <4>1. "preserved" \in DOMAIN r[k]
        BY <3>1 DEF IsReport
      <4> QED BY <4>1
    <3> QED BY <3>2, <3>3 DEF IsReport
  <2> HIDE DEF y
  <2>5. blob1 = blob
    <3>1. GraphPath # ReportPath(k)
      BY PathsApart
    <3> QED BY <1>3, <1>6, <1>7, <2>3, <3>1
  <2>6. \A n \in DOMAIN r : r1[n] = IF n = k THEN y ELSE r[n]
    <3> SUFFICES ASSUME NEW n \in DOMAIN r PROVE r1[n] = IF n = k THEN y ELSE r[n]
      OBVIOUS
    <3>1. r1[n] = f2[ReportPath(n)]
      BY <1>3, <2>1
    <3>2. ReportPath(n) \in DOMAIN f
      BY <1>6, <1>7
    <3>3. n # k => ReportPath(n) # ReportPath(k)
      BY PathsApart
    <3> QED BY <1>6, <2>3, <3>1, <3>2, <3>3
  <2> QED BY <1>4, <1>5, <2>1, <2>4, <2>5, <2>6
<1>14. Edited(blob, rs, f, rs2, f2)
  BY DEF rs, f, rs2, f2
<1>15. Kept \/ Bad
  <2> HIDE DEF Kept, Bad
  <2> USE <1>14 DEF Edited
  <2>1. CASE rs2 = rs /\ f2 = f
    BY <1>9, <2>1
  <2>2. CASE f2 = f /\ \E x : rs2 = rs \o <<x>>
    BY <1>10, <2>2
  <2>3. CASE rs2 = rs /\ f2 = [x \in DOMAIN f \cup {Other} |-> IF x = Other THEN blob ELSE f[x]]
    BY <1>11, <2>3
  <2>4. CASE rs2 = rs /\ f2 = [x \in DOMAIN f \ {GraphPath} |-> f[x]]
    BY <1>12, <2>4
  <2>5. CASE /\ \E k \in DOMAIN rs : \E x : rs2 = [rs EXCEPT ![k] = x]
             /\ \E k \in DOMAIN rs : \E id : f2 = [f EXCEPT ![ReportPath(k)] = [[f[ReportPath(k)] EXCEPT !.preserved = FALSE] EXCEPT !.id = id]]
    <3>1. PICK j \in DOMAIN rs : \E x : rs2 = [rs EXCEPT ![j] = x]
      BY <2>5
    <3>2. PICK x : rs2 = [rs EXCEPT ![j] = x]
      BY <3>1
    <3>3. PICK k \in DOMAIN rs : \E id : f2 = [f EXCEPT ![ReportPath(k)] = [[f[ReportPath(k)] EXCEPT !.preserved = FALSE] EXCEPT !.id = id]]
      BY <2>5
    <3>4. PICK id : f2 = [f EXCEPT ![ReportPath(k)] = [[f[ReportPath(k)] EXCEPT !.preserved = FALSE] EXCEPT !.id = id]]
      BY <3>3
    <3> QED BY <1>13, <3>2, <3>4
  <2> QED BY <2>1, <2>2, <2>3, <2>4, <2>5
<1>16. blob1 = blob /\ \A k \in DOMAIN r1 : IsReport(r1[k])
  BY <1>4, <1>15
<1>17. r1 = r \/ Evidence(q) = {}
  <2> SUFFICES ASSUME NEW k \in DOMAIN r1, Unproved(r1[k]) PROVE Evidence(q) = {}
    BY <1>15
  <2> DEFINE s == [n \in DOMAIN r1 |-> Require(r1[n].schema \in {"v1", "v2"} /\ r1[n].preserved, r1[n])]
  <2>1. s[k] = {}
    BY DEF Require
  <2>2. Each1(s) = {}
    <3>1. \E n \in DOMAIN s : s[n] = {}
      BY <2>1
    <3> HIDE DEF s
    <3> QED BY <3>1, Each1Exact
  <2> QED BY <1>2, <2>2 DEF Evidence
<1>18. GoodProgram(blob, None, r1, i1, o1)
  <2>1. Origin(blob, None, o1)
    BY <1>3 DEF Origin
  <2> QED BY <1>3, <1>4, <1>16, <2>1 DEF GoodProgram
<1>19. IsProgram(q)
  <2>1. q = Made(blob, None, None, {b.manifest}, r1, i1, o1)
    BY <1>1, <1>16 DEF Gives
  <2> QED BY <1>18, <2>1 DEF IsProgram
<1> HIDE DEF Kept, Bad
<1> QED BY <1>2, <1>3, <1>16, <1>17, <1>19 DEF Runs

\* A file, as it was exported or after an edit.
Written(b, e) == b = e \/ \E x \in Edits(e) : b = [x EXCEPT !.edited = TRUE]

\* The file that was written last.
IsBundle(b) ==
  \E blob, gr, xml, m, r, i, o, v, e :
    /\ GoodProgram(blob, gr, r, i, o) /\ v \in Provenance(Made(blob, gr, xml, m, r, i, o))
    /\ e = Exported(blob, r, i, o, v, Made(blob, gr, xml, m, r, i, o))
    /\ Written(b, e)

\* What it holds.
Holds(b, blob, r, p) ==
  /\ b.of = p
  /\ IsList(b.manifest.inputs) /\ IsList(b.manifest.outputs) /\ IsList(b.manifest.reports)
  /\ Edited(blob, EntriesOf(r), MembersOf(blob, r), b.manifest.reports, b.members)

Changed(b) == b.edited

LEMMA BundleKinds ==
  ASSUME NEW b, NEW blob, NEW gr, NEW r, NEW i, NEW o, GoodProgram(blob, gr, r, i, o),
         NEW p, p.blob = blob, NEW v, NEW e, e = Exported(blob, r, i, o, v, p), Written(b, e)
  PROVE  Holds(b, blob, r, p) /\ (b = e \/ Changed(b))
<1>1. IsList(i) /\ IsList(o) /\ IsList(EntriesOf(r))
  BY EntriesExact DEF GoodProgram, Contracts
<1>2. CASE b = e
  <2>1. /\ e.of = p /\ e.members = MembersOf(blob, r)
        /\ e.manifest.inputs = i /\ e.manifest.outputs = o /\ e.manifest.reports = EntriesOf(r)
    BY DEF Exported, File, ManifestOf
  <2>2. Edited(blob, EntriesOf(r), MembersOf(blob, r), EntriesOf(r), MembersOf(blob, r))
    BY DEF Edited
  <2> QED BY <1>1, <1>2, <2>1, <2>2 DEF Holds
<1>3. CASE \E x \in Edits(e) : b = [x EXCEPT !.edited = TRUE]
  <2>1. PICK x \in Edits(e) : b = [x EXCEPT !.edited = TRUE]
    BY <1>3
  <2>2. AnEdit(p, EntriesOf(r), MembersOf(blob, r), b)
    BY <1>1, <2>1, EditExact DEF Exported
  <2>3. PICK m2, f2 : /\ b = File(m2, TRUE, p, f2) /\ Edited(p.blob, EntriesOf(r), MembersOf(blob, r), m2.reports, f2)
                      /\ IsList(m2.inputs) /\ IsList(m2.outputs) /\ IsList(m2.reports)
    BY <2>2 DEF AnEdit
  <2>4. b.manifest = m2 /\ b.members = f2 /\ b.of = p /\ b.edited = TRUE
    BY <2>3 DEF File
  <2>5. Holds(b, blob, r, p)
    BY <2>3, <2>4 DEF Holds
  <2>6. Changed(b)
    BY <2>4 DEF Changed
  <2> QED BY <2>5, <2>6
<1> QED BY <1>2, <1>3 DEF Written

LEMMA LoadedGood ==
  ASSUME NEW b, IsBundle(b), NEW q \in LoadedProgram(b)
  PROVE  /\ IsProgram(q) /\ q.blob = b.of.blob /\ Cardinality(Names(q.outputs)) = Len(q.outputs)
         /\ q.reports = b.of.reports \/ Evidence(q) = {}
<1>1. PICK blob, gr, xml, m, r, i, o, v, e :
        /\ GoodProgram(blob, gr, r, i, o) /\ v \in Provenance(Made(blob, gr, xml, m, r, i, o))
        /\ e = Exported(blob, r, i, o, v, Made(blob, gr, xml, m, r, i, o))
        /\ Written(b, e)
  BY DEF IsBundle
<1> DEFINE p == Made(blob, gr, xml, m, r, i, o)
<1>2. p.blob = blob /\ p.reports = r
  BY DEF Made
<1>3. e = Exported(blob, r, i, o, v, p)
  BY <1>1
<1> HIDE DEF p
<1>4. Holds(b, blob, r, p)
  BY <1>1, <1>2, <1>3, BundleKinds
<1>5. /\ IsProgram(q) /\ q.blob = blob /\ Cardinality(Names(q.outputs)) = Len(q.outputs)
      /\ q.reports = r \/ Evidence(q) = {}
  BY <1>1, <1>4, EditedLoaded DEF Holds
<1> QED BY <1>2, <1>4, <1>5 DEF Holds

LEMMA BundleKept ==
  ASSUME bundle # None => IsBundle(bundle)
  PROVE  BundleFaithful
<1> SUFFICES ASSUME IsBundle(bundle)
             PROVE  LET loaded == LoadedProgram(bundle)
                        of == bundle.of
                        tensors == of.inputs \o of.outputs
                    IN /\ ~bundle.edited =>
                            /\ \A p \in loaded :
                                 /\ p.inputs = of.inputs /\ p.outputs = of.outputs /\ p.blob = of.blob
                                 /\ Evidence(p) = Evidence(of) /\ Provenance(p) = Provenance(of)
                            /\ loaded = {} <=>
                                 \/ Cardinality(Names(of.inputs)) < Len(of.inputs)
                                 \/ Cardinality(Names(of.outputs)) < Len(of.outputs)
                                 \/ \E k \in DOMAIN tensors : \/ tensors[k].spec.dtype \notin DOMAIN ItemSize
                                                              \/ Len(tensors[k].spec.shape) > 5
                       /\ \A p \in loaded : /\ p.blob = of.blob
                                            /\ Cardinality(Names(p.outputs)) = Len(p.outputs)
                                            /\ p.reports = of.reports \/ Evidence(p) = {}
  BY DEF BundleFaithful
<1>1. PICK blob, gr, xml, m, r, i, o, v, e :
        /\ GoodProgram(blob, gr, r, i, o) /\ v \in Provenance(Made(blob, gr, xml, m, r, i, o))
        /\ e = Exported(blob, r, i, o, v, Made(blob, gr, xml, m, r, i, o))
        /\ Written(bundle, e)
  BY DEF IsBundle
<1> DEFINE p == Made(blob, gr, xml, m, r, i, o)
<1>2. p.blob = blob /\ p.reports = r /\ p.inputs = i /\ p.outputs = o
  BY DEF Made
<1>3. e = Exported(blob, r, i, o, v, p) /\ v \in Provenance(p)
  BY <1>1
<1> HIDE DEF p
<1>4. bundle.of = p /\ (bundle = e \/ bundle.edited)
  <2>1. GoodProgram(blob, gr, r, i, o) /\ Written(bundle, e) /\ p.blob = blob
    BY <1>1, <1>2
  <2>2. Holds(bundle, blob, r, p) /\ (bundle = e \/ Changed(bundle))
    BY <1>3, <2>1, BundleKinds
  <2> QED BY <2>2 DEF Holds, Changed
<1>5. ASSUME bundle = e, NEW q \in LoadedProgram(bundle)
      PROVE  /\ q.inputs = p.inputs /\ q.outputs = p.outputs /\ q.blob = p.blob
             /\ Evidence(q) = Evidence(p) /\ Provenance(q) = Provenance(p)
  <2>1. /\ q.inputs = i /\ q.outputs = o /\ q.blob = blob /\ q.reports = r
        /\ Provenance(q) = Provenance(p)
    BY <1>1, <1>3, <1>5, UneditedLoaded
  <2>2. Evidence(q) = Evidence(p)
    BY <1>2, <2>1 DEF Evidence
  <2> QED BY <1>2, <2>1, <2>2
<1>6. bundle = e => (LoadedProgram(bundle) = {} <=> Unsavable(i, o))
  BY <1>1, <1>3, SavableLoaded
<1>7. \A q \in LoadedProgram(bundle) : /\ q.blob = bundle.of.blob /\ Cardinality(Names(q.outputs)) = Len(q.outputs)
                                       /\ q.reports = bundle.of.reports \/ Evidence(q) = {}
  BY LoadedGood
<1>8. bundle.edited \/ bundle = e
  BY <1>4
<1>9. Unsavable(i, o) <=>
        \/ Cardinality(Names(p.inputs)) < Len(p.inputs)
        \/ Cardinality(Names(p.outputs)) < Len(p.outputs)
        \/ \E k \in DOMAIN (p.inputs \o p.outputs) : \/ (p.inputs \o p.outputs)[k].spec.dtype \notin DOMAIN ItemSize
                                                     \/ Len((p.inputs \o p.outputs)[k].spec.shape) > 5
  BY <1>2 DEF Unsavable
<1> QED BY <1>4, <1>5, <1>6, <1>7, <1>8, <1>9

-----------------------------------------------------------------------------
(* Boundary: the inductive invariant.                                      *)

ProgramOk == program # None => IsProgram(program)
ReplyOk == IF program = None THEN reply = None ELSE Replied(program, reply)
BundleOk == bundle # None => IsBundle(bundle)
BoundInv == ProgramOk /\ ReplyOk /\ BundleOk

\* Program.__post_init__ makes a program.
LEMMA NewProgramGood ==
  ASSUME NEW sig \in Signatures, NEW code, code.sig \in Signatures, code.size # 0, NEW xml, NEW r,
         IsList(r), \A k \in DOMAIN r : IsReport(r[k]), NEW q \in NewProgram(sig, code, xml, r)
  PROVE  IsProgram(q)
<1> DEFINE si == [k \in DOMAIN sig.inputs |-> NamedInput(sig.inputs[k])]
           so == [k \in DOMAIN sig.outputs |-> OutputContract(sig.outputs[k], k)]
<1>1. PICK i \in Each1(si), o \in Each1(so) : q = Made(code, sig, xml, {}, r, i, o)
  BY DEF NewProgram, Made
<1>2. /\ sig # None /\ IsList(sig.inputs) /\ sig.inputs # <<>> /\ IsList(sig.outputs) /\ sig.outputs # <<>>
  BY BoundaryAssumption DEF IsList
<1>3. \A t : \A c \in NamedInput(t) : Valid(c)
  <2>1. \A t : \A c \in NamedInput(t) : c \in TensorContract(t.name, t.spec)
    BY DEF NamedInput
  <2> QED BY <2>1, ContractExact
<1>4. \A t, k : \A c \in OutputContract(t, k) : Valid(c) /\ c.name = OutputName(t, k)
  <2>1. \A t, k : \A c \in OutputContract(t, k) : c \in TensorContract(OutputName(t, k), t.producer.specs[t.index + 1])
    BY DEF OutputContract
  <2>2. \A n, s : \A c \in TensorContract(n, s) : Valid(c) /\ c.name = n
    <3> SUFFICES ASSUME NEW n, NEW s, NEW c \in TensorContract(n, s) PROVE Valid(c) /\ c.name = n
      OBVIOUS
    <3>1. Valid(c) /\ c = [name |-> n, spec |-> [shape |-> s.shape, dtype |-> s.dtype]]
      BY ContractExact
    <3> QED BY <3>1
  <2> QED BY <2>1, <2>2
<1>5. Contracts(i)
  <2>1. DOMAIN si = DOMAIN sig.inputs /\ \A k \in DOMAIN si : \A c \in si[k] : Valid(c)
    BY <1>3
  <2> HIDE DEF si
  <2> QED BY <1>2, <2>1, ContractsMade
<1>6. Contracts(o) /\ Len(o) = Len(sig.outputs) /\ \A k \in DOMAIN o : o[k].name = OutputName(sig.outputs[k], k)
  <2>1. DOMAIN so = DOMAIN sig.outputs /\ \A k \in DOMAIN so : \A c \in so[k] : Valid(c) /\ c.name = OutputName(sig.outputs[k], k)
    BY <1>4
  <2> HIDE DEF so
  <2>2. Contracts(o) /\ Len(o) = Len(sig.outputs) /\ DOMAIN o = DOMAIN sig.outputs
    BY <1>2, <2>1, ContractsMade
  <2>3. \A k \in DOMAIN so : o[k] \in so[k]
    BY Each1Exact
  <2> QED BY <2>1, <2>2, <2>3
<1>7. Origin(code, sig, o)
  BY <1>2, <1>6 DEF Origin
<1>8. GoodProgram(code, sig, r, i, o)
  BY <1>5, <1>6, <1>7 DEF GoodProgram
<1> QED BY <1>1, <1>8 DEF IsProgram

LEMMA BoundInit == WInit => BoundInv
BY DEF WInit, BoundInv, ProgramOk, ReplyOk, BundleOk

\* A program is made only when there is none yet.
LEMMA MadeKeeps ==
  ASSUME BoundInv, program = None, IsProgram(program'), UNCHANGED <<bundle, reply>>
  PROVE  BoundInv'
<1>1. ProgramOk'
  BY DEF ProgramOk
<1>2. ReplyOk'
  <2>1. reply' = None
    BY DEF BoundInv, ReplyOk
  <2> QED BY <2>1 DEF ReplyOk, Replied
<1>3. BundleOk'
  BY DEF BoundInv, BundleOk
<1> QED BY <1>1, <1>2, <1>3 DEF BoundInv

LEMMA BuiltKeeps ==
  ASSUME BoundInv, NEW sig \in Signatures, NEW v, NEW n \in 0..1,
         Built(sig, v, [k \in 1..n |-> [id |-> "report", size |-> 1, schema |-> "v2", preserved |-> TRUE]])
  PROVE  BoundInv'
<1> DEFINE r == [k \in 1..n |-> [id |-> "report", size |-> 1, schema |-> "v2", preserved |-> TRUE]]
           code == [id |-> "graph", size |-> 1, sig |-> sig]
<1>1. PICK q \in NewProgram(sig, code, v, r) : program' = q
  BY DEF Built
<1>2. program = None /\ UNCHANGED <<bundle, reply>>
  BY DEF Built
<1>3. IsList(r)
  <2>1. n \in Nat /\ r = [k \in 1..n |-> r[k]]
    OBVIOUS
  <2> HIDE DEF r
  <2> QED BY <2>1, ListExact
<1>4. \A k \in DOMAIN r : IsReport(r[k])
  BY DEF IsReport
<1>5. code.sig \in Signatures /\ code.size # 0
  OBVIOUS
<1> HIDE DEF r, code
<1>6. IsProgram(program')
  BY <1>1, <1>3, <1>4, <1>5, NewProgramGood
<1> QED BY <1>2, <1>6, MadeKeeps

LEMMA LoadNativeKeeps ==
  ASSUME BoundInv, NEW sig \in Signatures, NEW claimed \in Signatures, LoadNative(sig, claimed, 1)
  PROVE  BoundInv'
<1> DEFINE code == [id |-> "graph", size |-> 1, sig |-> sig]
<1>1. PICK q \in NewProgram(claimed, code, None, <<>>) : program' = q
  BY DEF LoadNative
<1>2. program = None /\ UNCHANGED <<bundle, reply>>
  BY DEF LoadNative
<1>3. IsList(<<>>) /\ DOMAIN <<>> = {}
  BY DEF IsList
<1>4. code.sig \in Signatures /\ code.size # 0
  OBVIOUS
<1> HIDE DEF code
<1>5. IsProgram(program')
  BY <1>1, <1>3, <1>4, NewProgramGood
<1> QED BY <1>2, <1>5, MadeKeeps

LEMMA RunKeeps ==
  ASSUME BoundInv, program # None, NEW arrays, RunProgram(arrays)
  PROVE  BoundInv'
<1>1. program' = program /\ bundle' = bundle
  BY DEF RunProgram
<1>2. Replied(program, reply')
  BY RunReplied
<1> QED BY <1>1, <1>2 DEF BoundInv, ProgramOk, ReplyOk, BundleOk, Replied

LEMMA RunOneKeeps ==
  ASSUME BoundInv, program # None, NEW x, RunOne(x)
  PROVE  BoundInv'
<1>1. CASE reply' = Raised1 /\ UNCHANGED <<program, bundle>>
  <2>1. Replied(program', reply')
    BY <1>1 DEF Replied
  <2> QED BY <1>1, <2>1 DEF BoundInv, ProgramOk, ReplyOk, BundleOk
<1>2. CASE RunProgram([n \in Names(program.inputs) |-> x])
  BY <1>2, RunKeeps
<1> QED BY <1>1, <1>2 DEF RunOne

LEMMA ExportKeeps ==
  ASSUME BoundInv, ExportBundle
  PROVE  BoundInv'
<1>1. program # None /\ program' = program /\ reply' = reply
  BY DEF ExportBundle
<1>2. PICK blob, gr, xml, m, r, i, o : GoodProgram(blob, gr, r, i, o) /\ program = Made(blob, gr, xml, m, r, i, o)
  BY <1>1 DEF BoundInv, ProgramOk, IsProgram
<1> DEFINE p == Made(blob, gr, xml, m, r, i, o)
<1>3. p.blob = blob /\ p.reports = r /\ p.inputs = i /\ p.outputs = o
  BY DEF Made
<1> HIDE DEF p
<1>4. PICK mf \in Manifest(p) :
        bundle' = [manifest |-> mf, edited |-> FALSE, of |-> p,
                   members |-> [x \in {GraphPath} \cup {ReportPath(k) : k \in DOMAIN p.reports} |->
                                  IF x = GraphPath THEN p.blob ELSE p.reports[x[2]]]]
  BY <1>2 DEF ExportBundle, p
<1>5. PICK v \in Provenance(p) : mf = ManifestOf("npunlock.program.v1", Entry(GraphPath, blob), i, o, v, EntriesOf(r))
  BY <1>3 DEF Manifest, ManifestOf, EntriesOf
<1>6. bundle' = Exported(blob, r, i, o, v, p)
  BY <1>3, <1>4, <1>5 DEF Exported, File, MembersOf, PathsOf
<1>7. IsBundle(bundle')
  BY <1>2, <1>5, <1>6 DEF IsBundle, Written, p
<1> QED BY <1>1, <1>7 DEF BoundInv, ProgramOk, ReplyOk, BundleOk

LEMMA EditKeeps ==
  ASSUME BoundInv, EditBundle
  PROVE  BoundInv'
<1>1. bundle # None /\ ~Changed(bundle) /\ program' = program /\ reply' = reply
  BY DEF EditBundle, Changed
<1>2. PICK blob, gr, xml, m, r, i, o, v, e :
        /\ GoodProgram(blob, gr, r, i, o) /\ v \in Provenance(Made(blob, gr, xml, m, r, i, o))
        /\ e = Exported(blob, r, i, o, v, Made(blob, gr, xml, m, r, i, o))
        /\ Written(bundle, e)
  BY <1>1 DEF BoundInv, BundleOk, IsBundle
<1> DEFINE p == Made(blob, gr, xml, m, r, i, o)
<1>3. p.blob = blob /\ e = Exported(blob, r, i, o, v, p)
  BY <1>2 DEF Made
<1> HIDE DEF p
<1>4. GoodProgram(blob, gr, r, i, o) /\ Written(bundle, e)
  BY <1>2
<1>5. Holds(bundle, blob, r, p) /\ (bundle = e \/ Changed(bundle))
  BY <1>3, <1>4, BundleKinds
<1>6. \E x \in Edits(e) : bundle' = [x EXCEPT !.edited = TRUE]
  BY <1>1, <1>5 DEF EditBundle
<1>7. Written(bundle', e)
  BY <1>6 DEF Written
<1>8. IsBundle(bundle')
  BY <1>2, <1>7 DEF IsBundle
<1> QED BY <1>1, <1>8 DEF BoundInv, ProgramOk, ReplyOk, BundleOk

LEMMA LoadKeeps ==
  ASSUME BoundInv, LoadBundle
  PROVE  BoundInv'
<1>1. bundle # None /\ bundle' = bundle /\ reply' = None
  BY DEF LoadBundle
<1>2. IsProgram(program')
  <2>1. IsBundle(bundle)
    BY <1>1 DEF BoundInv, BundleOk
  <2>2. PICK q \in LoadedProgram(bundle) : program' = q
    BY DEF LoadBundle
  <2> QED BY <2>1, <2>2, LoadedGood
<1> QED BY <1>1, <1>2 DEF BoundInv, ProgramOk, ReplyOk, BundleOk, Replied

LEMMA BoundStep == BoundInv /\ [WNext]_wvars => BoundInv'
<1> SUFFICES ASSUME BoundInv, [WNext]_wvars PROVE BoundInv'
  OBVIOUS
<1>1. CASE \E sig \in Signatures, v \in Provenances, n \in 0..1 :
             Built(sig, v, [k \in 1..n |-> [id |-> "report", size |-> 1, schema |-> "v2", preserved |-> TRUE]])
  BY <1>1, BuiltKeeps
<1>2. CASE \E sig, claimed \in Signatures : LoadNative(sig, claimed, 1)
  BY <1>2, LoadNativeKeeps
<1>3. CASE program # None /\ \E arrays \in Arguments(program) : RunProgram(arrays)
  BY <1>3, RunKeeps
<1>4. CASE program # None /\ RunOne(program.inputs[1].spec)
  BY <1>4, RunOneKeeps
<1>5. CASE ExportBundle
  BY <1>5, ExportKeeps
<1>6. CASE EditBundle
  BY <1>6, EditKeeps
<1>7. CASE LoadBundle
  BY <1>7, LoadKeeps
<1>8. CASE UNCHANGED wvars
  BY <1>8 DEF wvars, BoundInv, ProgramOk, ReplyOk, BundleOk
<1> QED BY <1>1, <1>2, <1>3, <1>4, <1>5, <1>6, <1>7, <1>8 DEF WNext

\* run() returns every output under its own name, unless the client gave two
\* operators the same one, and a bundle that loads is the program that was
\* exported, whatever was edited (__init__.py:704, __init__.py:1146).
THEOREM BoundaryKept == WSpec => []BoundaryExact
<1>1. BoundInv => BoundaryExact
  <2> SUFFICES ASSUME BoundInv PROVE BoundaryExact
    OBVIOUS
  <2>1. BundleFaithful
    BY BundleKept DEF BoundInv, BundleOk
  <2>2. EveryOutputReturned
    <3>1. CASE program = None
      BY <3>1 DEF BoundInv, ReplyOk, EveryOutputReturned
    <3>2. CASE program # None
      BY <3>2, OutputsReturned DEF BoundInv, ProgramOk, ReplyOk
    <3> QED BY <3>1, <3>2
  <2> QED BY <2>1, <2>2 DEF BoundaryExact
<1> QED BY <1>1, BoundInit, BoundStep, PTL DEF WSpec

-----------------------------------------------------------------------------
(* GraphBuild: folding a sequence is a recursion over sets of positions.   *)

AllButMax(s) == s \ {Max(s)}

\* A fold of n steps over values of V.
Folds(it, n, base, step) ==
  \A s \in SUBSET (1..n) : it[s] = IF s = {} THEN base ELSE step[<<Max(s), it[AllButMax(s)]>>]

LEMMA MaxLast ==
  ASSUME NEW n \in Nat, NEW s \in SUBSET (1..(n + 1)), n + 1 \in s
  PROVE  Max(s) = n + 1 /\ AllButMax(s) \in SUBSET (1..n)
<1>1. Max(s) \in s /\ \A x \in s : x <= Max(s)
  <2>1. n + 1 \in Nat /\ s # {}
    OBVIOUS
  <2> QED BY <2>1, MaxOf
<1>2. Max(s) = n + 1
  <2>1. Max(s) \in 1..(n + 1) /\ n + 1 <= Max(s)
    BY <1>1
  <2> QED BY <2>1
<1>3. \A x \in s \ {n + 1} : x \in 1..n
  OBVIOUS
<1> QED BY <1>2, <1>3 DEF AllButMax

\* Such a recursion has a solution.
LEMMA FoldDefined ==
  ASSUME NEW N \in Nat, NEW V, NEW base \in V, NEW step \in [(1..N) \X V -> V]
  PROVE  \E it \in [SUBSET (1..N) -> V] : Folds(it, N, base, step)
<1> DEFINE Solved(n) == \E it \in [SUBSET (1..n) -> V] : Folds(it, n, base, step)
           Open == {n \in Nat : n <= N /\ ~Solved(n)}
<1>1. SUFFICES ASSUME Open # {} PROVE FALSE
  <2>1. Open = {} => Solved(N)
    <3> HIDE DEF Solved
    <3> QED OBVIOUS
  <2> QED BY <2>1
<1>2. PICK m \in Open : \A y \in Open : m <= y
  BY LeastOf, <1>1
<1>3. m # 0
  <2> DEFINE it == [s \in SUBSET (1..0) |-> base]
  <2>1. \A s \in SUBSET (1..0) : s = {}
    OBVIOUS
  <2>2. it \in [SUBSET (1..0) -> V] /\ Folds(it, 0, base, step)
    BY <2>1 DEF Folds
  <2> QED BY <2>2
<1> DEFINE n == m - 1
<1>4. n \in Nat /\ n < N /\ m = n + 1 /\ n \notin Open /\ m <= N
  <2> HIDE DEF Solved
  <2>1. m \in Nat /\ m <= N
    BY <1>2
  <2>2. n \notin Open
    BY <1>2, <2>1
  <2> QED BY <1>3, <2>1, <2>2
<1> HIDE DEF n
<1>5. PICK old \in [SUBSET (1..n) -> V] : Folds(old, n, base, step)
  <2>1. Solved(n)
    <3> HIDE DEF Solved
    <3> QED BY <1>4
  <2> QED BY <2>1
<1> DEFINE it == [s \in SUBSET (1..m) |-> IF m \notin s THEN old[s] ELSE step[<<m, old[s \ {m}]>>]]
<1>6. \A s \in SUBSET (1..m) : m \notin s => s \in SUBSET (1..n)
  BY <1>4
<1>7. ASSUME NEW s \in SUBSET (1..m), m \in s
      PROVE  s \ {m} \in SUBSET (1..n) /\ Max(s) = m /\ AllButMax(s) = s \ {m}
  BY <1>4, <1>7, MaxLast DEF AllButMax
<1>8. it \in [SUBSET (1..m) -> V]
  <2>1. ASSUME NEW s \in SUBSET (1..m) PROVE it[s] \in V
    <3>1. CASE m \notin s
      BY <1>5, <1>6, <3>1
    <3>2. CASE m \in s
      <4>1. old[s \ {m}] \in V /\ m \in 1..N
        BY <1>4, <1>5, <1>7, <3>2
      <4> QED BY <3>2, <4>1
    <3> QED BY <3>1, <3>2
  <2> QED BY <2>1
<1>9. ASSUME NEW s \in SUBSET (1..m)
      PROVE  it[s] = IF s = {} THEN base ELSE step[<<Max(s), it[AllButMax(s)]>>]
  <2>1. CASE m \notin s
    <3>1. s \in SUBSET (1..n) /\ it[s] = old[s]
      BY <1>6, <2>1
    <3>2. AllButMax(s) \in SUBSET (1..n) /\ AllButMax(s) \in SUBSET (1..m) /\ m \notin AllButMax(s)
      BY <1>4, <2>1, <3>1 DEF AllButMax
    <3>3. it[AllButMax(s)] = old[AllButMax(s)]
      BY <3>2
    <3>4. old[s] = IF s = {} THEN base ELSE step[<<Max(s), old[AllButMax(s)]>>]
      BY <1>5, <3>1 DEF Folds
    <3> HIDE DEF it
    <3> QED BY <3>1, <3>3, <3>4
  <2>2. CASE m \in s
    <3>1. it[s] = step[<<m, old[s \ {m}]>>]
      BY <2>2
    <3>2. s \ {m} \in SUBSET (1..n) /\ Max(s) = m /\ AllButMax(s) = s \ {m}
      BY <1>7, <2>2
    <3>3. it[s \ {m}] = old[s \ {m}]
      BY <3>2
    <3> HIDE DEF it
    <3> QED BY <2>2, <3>1, <3>2, <3>3
  <2> QED BY <2>1, <2>2
<1> HIDE DEF it
<1>10. Folds(it, m, base, step)
  BY <1>9 DEF Folds
<1> QED BY <1>2, <1>8, <1>10

\* The steps of a fold, from the first to the last position.
LEMMA FoldSteps ==
  ASSUME NEW n \in Nat
  PROVE  /\ 1..n \in SUBSET (1..n)
         /\ 1..0 = {}
         /\ \A k \in 1..n : /\ 1..k \in SUBSET (1..n) /\ 1..k # {}
                            /\ Max(1..k) = k /\ (1..k) \ {Max(1..k)} = 1..(k - 1)
<1>1. ASSUME NEW k \in 1..n PROVE Max(1..k) = k /\ (1..k) \ {k} = 1..(k - 1)
  <2>1. k - 1 \in Nat /\ k = (k - 1) + 1 /\ 1..k \in SUBSET (1..((k - 1) + 1)) /\ (k - 1) + 1 \in 1..k
    OBVIOUS
  <2>2. Max(1..k) = (k - 1) + 1
    BY <2>1, MaxLast
  <2> QED BY <2>1, <2>2
<1> QED BY <1>1

-----------------------------------------------------------------------------
(* GraphBuild: what the three folds of the module return.                  *)

\* The lists of a walk over ts, before and after each step.
Walks(visit, ordered, ts, h) ==
  h[0] = ordered /\ \A k \in 1..Len(ts) : h[k] = visit[ts[k][1]][h[k - 1]]

\* A property of 0 that each step keeps holds up to n.
LEMMA Upto ==
  ASSUME NEW n \in Nat, NEW T, 0 \in T, \A k \in 1..n : k - 1 \in T => k \in T
  PROVE  \A k \in 0..n : k \in T
<1> DEFINE Bad == {k \in 0..n : k \notin T}
<1>1. SUFFICES ASSUME Bad # {} PROVE FALSE
  OBVIOUS
<1>2. PICK k \in Bad : \A j \in Bad : k <= j
  <2>1. Bad \in SUBSET Nat
    OBVIOUS
  <2> QED BY <1>1, <2>1, LeastOf
<1>3. k \in 1..n /\ k - 1 \in 0..n
  BY <1>2
<1> QED BY <1>2, <1>3

Carries(visit, ts, V) == \A k \in 1..Len(ts) : \A v \in V : visit[ts[k][1]][v] \in V
Stepped(visit, ordered, ts, V) ==
  \E h \in [0..Len(ts) -> V] : Walks(visit, ordered, ts, h) /\ VisitEach(visit, ordered, ts) = h[Len(ts)]

LEMMA VisitEachSteps ==
  ASSUME NEW V, NEW ordered \in V, NEW visit, NEW ts, IsList(ts), Carries(visit, ts, V)
  PROVE  Stepped(visit, ordered, ts, V)
<1> DEFINE n == Len(ts)
<1>1. n \in Nat /\ DOMAIN ts = 1..n
  BY ListExact
<1> DEFINE Next1(s, f) == visit[ts[Max(s)][1]][f[s \ {Max(s)}]]
           Eq(f) == f = [s \in SUBSET (DOMAIN ts) |-> IF s = {} THEN ordered ELSE Next1(s, f)]
           iter == CHOOSE f : Eq(f)
           step == [p \in (1..n) \X V |-> visit[ts[p[1]][1]][p[2]]]
<1>2. VisitEach(visit, ordered, ts) = iter[1..n]
  BY <1>1 DEF VisitEach, FoldLeft, MapThenFoldSet
<1>3. Eq(iter)
  <2>1. step \in [(1..n) \X V -> V]
    BY DEF Carries
  <2>2. PICK it \in [SUBSET (1..n) -> V] : Folds(it, n, ordered, step)
    <3> HIDE DEF step, n
    <3> QED BY <1>1, <2>1, FoldDefined
  <2>3. ASSUME NEW s \in SUBSET (1..n), s # {}
        PROVE  it[s] = Next1(s, it)
    <3>1. it[s] = step[<<Max(s), it[AllButMax(s)]>>]
      BY <2>2, <2>3 DEF Folds
    <3>2. Max(s) \in 1..n
      <4> HIDE DEF n
      <4> QED BY <1>1, <2>3, MaxOf
    <3>3. it[AllButMax(s)] \in V /\ AllButMax(s) = s \ {Max(s)}
      <4>1. AllButMax(s) \in SUBSET (1..n)
        BY DEF AllButMax
      <4> QED BY <2>2, <4>1 DEF AllButMax
    <3> HIDE DEF n
    <3> QED BY <3>1, <3>2, <3>3
  <2>4. it[{}] = ordered
    BY <2>2 DEF Folds
  <2>5. Eq(it)
    <3> HIDE DEF Next1, n
    <3> QED BY <1>1, <2>2, <2>3, <2>4
  <2> HIDE DEF Eq
  <2> QED BY <2>5
<1> DEFINE h == [k \in 0..n |-> iter[1..k]]
<1>4. \A s \in SUBSET (1..n) : iter[s] = IF s = {} THEN ordered ELSE Next1(s, iter)
  <2> DEFINE body == [s \in SUBSET (DOMAIN ts) |-> IF s = {} THEN ordered ELSE Next1(s, iter)]
  <2>1. iter = body
    BY <1>3
  <2>2. \A s \in SUBSET (1..n) : body[s] = IF s = {} THEN ordered ELSE Next1(s, iter)
    <3> HIDE DEF Next1, iter, n
    <3> QED BY <1>1
  <2> HIDE DEF body, Next1, iter, n
  <2> QED BY <2>1, <2>2
<1> HIDE DEF iter
<1>5. h[0] = ordered
  <2>1. iter[{}] = ordered
    <3> HIDE DEF Next1
    <3> QED BY <1>4
  <2>2. 1..0 = {} /\ 0 \in 0..n
    <3> HIDE DEF n
    <3> QED BY <1>1
  <2> HIDE DEF n
  <2> QED BY <2>1, <2>2
<1>6. ASSUME NEW k \in 1..n PROVE h[k] = visit[ts[k][1]][h[k - 1]]
  <2>1. k \in 0..n /\ k - 1 \in 0..n
    BY <1>1
  <2>2. 1..k \in SUBSET (1..n) /\ 1..k # {} /\ Max(1..k) = k /\ (1..k) \ {Max(1..k)} = 1..(k - 1)
    <3> HIDE DEF n
    <3> QED BY <1>1, FoldSteps
  <2>3. iter[1..k] = visit[ts[k][1]][iter[1..(k - 1)]]
    BY <1>4, <2>2
  <2> HIDE DEF n
  <2> QED BY <2>1, <2>3
<1> HIDE DEF h
<1>7. \A k \in 0..n : h[k] \in V
  <2> DEFINE T == {k \in 0..n : h[k] \in V}
  <2>1. 0 \in T
    <3>1. 0 \in 0..n
      <4> HIDE DEF n
      <4> QED BY <1>1
    <3>2. h[0] \in V
      BY <1>5
    <3> HIDE DEF n
    <3> QED BY <3>1, <3>2
  <2>2. ASSUME NEW k \in 1..n, k - 1 \in T PROVE k \in T
    <3>1. h[k - 1] \in V
      BY <2>2
    <3>2. h[k] \in V
      BY <1>6, <3>1 DEF Carries
    <3> QED BY <1>1, <3>2
  <2> HIDE DEF n
  <2> HIDE DEF T
  <2>3. \A k \in 0..n : k \in T
    BY <1>1, <2>1, <2>2, Upto
  <2> QED BY <2>3 DEF T
<1>8. h \in [0..n -> V] /\ h[n] = iter[1..n]
  BY <1>1, <1>7 DEF h
<1>9. Walks(visit, ordered, ts, h)
  BY <1>5, <1>6 DEF Walks
<1> QED BY <1>2, <1>8, <1>9 DEF Stepped

\* The offsets of the weights of a list of nodes.
Sums(ts, h) == h[0] = 0 /\ \A k \in 1..Len(ts) : h[k] = h[k - 1] + Weight(ts[k])
Total(ts) == FoldLeft(LAMBDA sum, n : sum + Weight(n), 0, ts)

LEMMA TotalSteps ==
  ASSUME NEW ts, IsList(ts), \A k \in 1..Len(ts) : Weight(ts[k]) \in Nat
  PROVE  \E h \in [0..Len(ts) -> Nat] : Sums(ts, h) /\ Total(ts) = h[Len(ts)]
<1> DEFINE n == Len(ts)
<1>1. n \in Nat /\ DOMAIN ts = 1..n
  BY ListExact
<1> DEFINE Next1(s, f) == f[s \ {Max(s)}] + Weight(ts[Max(s)])
           Eq(f) == f = [s \in SUBSET (DOMAIN ts) |-> IF s = {} THEN 0 ELSE Next1(s, f)]
           iter == CHOOSE f : Eq(f)
           step == [p \in (1..n) \X Nat |-> p[2] + Weight(ts[p[1]])]
<1>2. Total(ts) = iter[1..n]
  BY <1>1 DEF Total, FoldLeft, MapThenFoldSet
<1>3. Eq(iter)
  <2>1. step \in [(1..n) \X Nat -> Nat]
    OBVIOUS
  <2>2. PICK it \in [SUBSET (1..n) -> Nat] : Folds(it, n, 0, step)
    <3> HIDE DEF step, n
    <3> QED BY <1>1, <2>1, FoldDefined
  <2>3. ASSUME NEW s \in SUBSET (1..n), s # {}
        PROVE  it[s] = Next1(s, it)
    <3>1. it[s] = step[<<Max(s), it[AllButMax(s)]>>]
      BY <2>2, <2>3 DEF Folds
    <3>2. Max(s) \in 1..n
      <4> HIDE DEF n
      <4> QED BY <1>1, <2>3, MaxOf
    <3>3. it[AllButMax(s)] \in Nat /\ AllButMax(s) = s \ {Max(s)}
      <4>1. AllButMax(s) \in SUBSET (1..n)
        BY DEF AllButMax
      <4> QED BY <2>2, <4>1 DEF AllButMax
    <3> HIDE DEF n
    <3> QED BY <3>1, <3>2, <3>3
  <2>4. it[{}] = 0
    BY <2>2 DEF Folds
  <2>5. Eq(it)
    <3> HIDE DEF Next1, n
    <3> QED BY <1>1, <2>2, <2>3, <2>4
  <2> HIDE DEF Eq
  <2> QED BY <2>5
<1> DEFINE h == [k \in 0..n |-> iter[1..k]]
<1>4. \A s \in SUBSET (1..n) : iter[s] = IF s = {} THEN 0 ELSE Next1(s, iter)
  <2> DEFINE body == [s \in SUBSET (DOMAIN ts) |-> IF s = {} THEN 0 ELSE Next1(s, iter)]
  <2>1. iter = body
    BY <1>3
  <2>2. \A s \in SUBSET (1..n) : body[s] = IF s = {} THEN 0 ELSE Next1(s, iter)
    <3> HIDE DEF Next1, iter, n
    <3> QED BY <1>1
  <2> HIDE DEF body, Next1, iter, n
  <2> QED BY <2>1, <2>2
<1> HIDE DEF iter
<1>5. h[0] = 0
  <2>1. iter[{}] = 0
    <3> HIDE DEF Next1
    <3> QED BY <1>4
  <2>2. 1..0 = {} /\ 0 \in 0..n
    <3> HIDE DEF n
    <3> QED BY <1>1
  <2> HIDE DEF n
  <2> QED BY <2>1, <2>2
<1>6. ASSUME NEW k \in 1..n PROVE h[k] = h[k - 1] + Weight(ts[k])
  <2>1. k \in 0..n /\ k - 1 \in 0..n
    BY <1>1
  <2>2. 1..k \in SUBSET (1..n) /\ 1..k # {} /\ Max(1..k) = k /\ (1..k) \ {Max(1..k)} = 1..(k - 1)
    <3> HIDE DEF n
    <3> QED BY <1>1, FoldSteps
  <2>3. iter[1..k] = iter[1..(k - 1)] + Weight(ts[k])
    BY <1>4, <2>2
  <2> HIDE DEF n
  <2> QED BY <2>1, <2>3
<1> HIDE DEF h
<1>7. \A k \in 0..n : h[k] \in Nat
  <2> DEFINE T == {k \in 0..n : h[k] \in Nat}
  <2>1. 0 \in T
    <3>1. 0 \in 0..n
      <4> HIDE DEF n
      <4> QED BY <1>1
    <3> HIDE DEF n
    <3> QED BY <1>5, <3>1
  <2>2. \A k \in 1..n : k - 1 \in T => k \in T
    BY <1>1, <1>6
  <2> HIDE DEF n
  <2> HIDE DEF T
  <2>3. \A k \in 0..n : k \in T
    BY <1>1, <2>1, <2>2, Upto
  <2> QED BY <2>3 DEF T
<1>8. h \in [0..n -> Nat] /\ h[n] = iter[1..n]
  BY <1>1, <1>7 DEF h
<1>9. Sums(ts, h)
  BY <1>5, <1>6 DEF Sums
<1> QED BY <1>2, <1>8, <1>9

\* A shape has a number of elements.
LEMMA ElementsNat ==
  ASSUME NEW ts \in Seq(Nat)
  PROVE  Elements(ts) \in Nat
<1> DEFINE n == Len(ts)
<1>1. n \in Nat /\ DOMAIN ts = 1..n /\ \A k \in 1..n : ts[k] \in Nat
  OBVIOUS
<1> DEFINE Next1(s, f) == f[s \ {Max(s)}] * ts[Max(s)]
           Eq(f) == f = [s \in SUBSET (DOMAIN ts) |-> IF s = {} THEN 1 ELSE Next1(s, f)]
           iter == CHOOSE f : Eq(f)
           step == [p \in (1..n) \X Nat |-> p[2] * ts[p[1]]]
<1>2. Elements(ts) = iter[1..n]
  BY <1>1 DEF Elements, FoldLeft, MapThenFoldSet
<1>3. Eq(iter)
  <2>1. step \in [(1..n) \X Nat -> Nat]
    OBVIOUS
  <2>2. PICK it \in [SUBSET (1..n) -> Nat] : Folds(it, n, 1, step)
    <3> HIDE DEF step, n
    <3> QED BY <1>1, <2>1, FoldDefined
  <2>3. ASSUME NEW s \in SUBSET (1..n), s # {}
        PROVE  it[s] = Next1(s, it)
    <3>1. it[s] = step[<<Max(s), it[AllButMax(s)]>>]
      BY <2>2, <2>3 DEF Folds
    <3>2. Max(s) \in 1..n
      <4> HIDE DEF n
      <4> QED BY <1>1, <2>3, MaxOf
    <3>3. it[AllButMax(s)] \in Nat /\ AllButMax(s) = s \ {Max(s)}
      <4>1. AllButMax(s) \in SUBSET (1..n)
        BY DEF AllButMax
      <4> QED BY <2>2, <4>1 DEF AllButMax
    <3> HIDE DEF n
    <3> QED BY <3>1, <3>2, <3>3
  <2>4. it[{}] = 1
    BY <2>2 DEF Folds
  <2>5. Eq(it)
    <3> HIDE DEF Next1, n
    <3> QED BY <1>1, <2>2, <2>3, <2>4
  <2> HIDE DEF Eq
  <2> QED BY <2>5
<1> DEFINE h == [k \in 0..n |-> iter[1..k]]
<1>4. \A s \in SUBSET (1..n) : iter[s] = IF s = {} THEN 1 ELSE Next1(s, iter)
  <2> DEFINE body == [s \in SUBSET (DOMAIN ts) |-> IF s = {} THEN 1 ELSE Next1(s, iter)]
  <2>1. iter = body
    BY <1>3
  <2>2. \A s \in SUBSET (1..n) : body[s] = IF s = {} THEN 1 ELSE Next1(s, iter)
    <3> HIDE DEF Next1, iter, n
    <3> QED BY <1>1
  <2> HIDE DEF body, Next1, iter, n
  <2> QED BY <2>1, <2>2
<1> HIDE DEF iter
<1>5. h[0] = 1
  <2>1. iter[{}] = 1
    <3> HIDE DEF Next1
    <3> QED BY <1>4
  <2>2. 1..0 = {} /\ 0 \in 0..n
    <3> HIDE DEF n
    <3> QED BY <1>1
  <2> HIDE DEF n
  <2> QED BY <2>1, <2>2
<1>6. ASSUME NEW k \in 1..n PROVE h[k] = h[k - 1] * ts[k]
  <2>1. k \in 0..n /\ k - 1 \in 0..n
    BY <1>1
  <2>2. 1..k \in SUBSET (1..n) /\ 1..k # {} /\ Max(1..k) = k /\ (1..k) \ {Max(1..k)} = 1..(k - 1)
    <3> HIDE DEF n
    <3> QED BY <1>1, FoldSteps
  <2>3. iter[1..k] = iter[1..(k - 1)] * ts[k]
    BY <1>4, <2>2
  <2> HIDE DEF n
  <2> QED BY <2>1, <2>3
<1> HIDE DEF h
<1>7. \A k \in 0..n : h[k] \in Nat
  <2> DEFINE T == {k \in 0..n : h[k] \in Nat}
  <2>1. 0 \in T
    <3>1. 0 \in 0..n
      <4> HIDE DEF n
      <4> QED BY <1>1
    <3> HIDE DEF n
    <3> QED BY <1>5, <3>1
  <2>2. \A k \in 1..n : k - 1 \in T => k \in T
    BY <1>1, <1>6
  <2> HIDE DEF n
  <2> HIDE DEF T
  <2>3. \A k \in 0..n : k \in T
    BY <1>1, <2>1, <2>2, Upto
  <2> QED BY <2>3 DEF T
<1>8. h \in [0..n -> Nat] /\ h[n] = iter[1..n]
  BY <1>1, <1>7 DEF h
<1> QED BY <1>1, <1>2, <1>8

-----------------------------------------------------------------------------
(* GraphBuild: _topological_nodes.                                         *)

\* Every node was made after the nodes that it reads.
InputsBelow(ns) ==
  IsList(ns) /\ \A n \in DOMAIN ns :
    IsList(ns[n].in) /\ \A i \in DOMAIN ns[n].in : ns[n].in[i][1] \in 1..(n - 1)

LEMMA VisitEachAlike ==
  ASSUME NEW V, NEW ordered \in V, NEW f, NEW g, NEW ts, IsList(ts),
         \A k \in 1..Len(ts) : g[ts[k][1]] = f[ts[k][1]] /\ \A v \in V : f[ts[k][1]][v] \in V
  PROVE  VisitEach(g, ordered, ts) = VisitEach(f, ordered, ts)
<1> DEFINE n == Len(ts)
<1>1. n \in Nat
  BY ListExact
<1>2. PICK a \in [0..n -> V] : Walks(f, ordered, ts, a) /\ VisitEach(f, ordered, ts) = a[n]
  <2>1. Carries(f, ts, V)
    BY DEF Carries
  <2>2. Stepped(f, ordered, ts, V)
    BY <2>1, VisitEachSteps
  <2> QED BY <2>2 DEF Stepped
<1>3. PICK b \in [0..n -> V] : Walks(g, ordered, ts, b) /\ VisitEach(g, ordered, ts) = b[n]
  <2>1. Carries(g, ts, V)
    BY DEF Carries
  <2>2. Stepped(g, ordered, ts, V)
    BY <2>1, VisitEachSteps
  <2> QED BY <2>2 DEF Stepped
<1> DEFINE T == {k \in 0..n : a[k] = b[k]}
<1>4. 0 \in T
  <2>1. 0 \in 0..n
    <3> HIDE DEF n
    <3> QED BY <1>1
  <2>2. a[0] = b[0]
    BY <1>2, <1>3 DEF Walks
  <2> HIDE DEF n
  <2> QED BY <2>1, <2>2
<1>5. ASSUME NEW k \in 1..n, k - 1 \in T PROVE k \in T
  <2>1. a[k] = f[ts[k][1]][a[k - 1]]
    BY <1>2 DEF Walks
  <2>2. b[k] = g[ts[k][1]][b[k - 1]]
    BY <1>3 DEF Walks
  <2>3. g[ts[k][1]] = f[ts[k][1]]
    OBVIOUS
  <2>4. a[k - 1] = b[k - 1]
    BY <1>5
  <2>5. a[k] = b[k]
    BY <2>1, <2>2, <2>3, <2>4
  <2> HIDE DEF n
  <2> QED BY <1>1, <2>5
<1>6. n \in T
  <2>1. n \in 0..n
    <3> HIDE DEF n
    <3> QED BY <1>1
  <2> HIDE DEF n, T
  <2> QED BY <1>1, <1>4, <1>5, <2>1, Upto
<1> QED BY <1>2, <1>3, <1>6

\* visit() of one node.
VisitOf(f, ns, n, o) == IF n \in Range(o) THEN o ELSE Append(VisitEach(f, o, ns[n].in), n)

\* visit() of the nodes below m, on lists that may name any node.
VisitsBelow(f, ns, m, V) ==
  f \in [1..m -> [V -> V]] /\ \A n \in 1..m : \A o \in V : f[n][o] = VisitOf(f, ns, n, o)

LEMMA VisitOfTyped ==
  ASSUME NEW ns, InputsBelow(ns), NEW n \in DOMAIN ns, NEW f, NEW o \in Seq(DOMAIN ns),
         \A j \in 1..(n - 1) : \A p \in Seq(DOMAIN ns) : f[j][p] \in Seq(DOMAIN ns)
  PROVE  VisitOf(f, ns, n, o) \in Seq(DOMAIN ns) /\ VisitEach(f, o, ns[n].in) \in Seq(DOMAIN ns)
<1> DEFINE V == Seq(DOMAIN ns)
           ts == ns[n].in
<1>1. IsList(ts) /\ DOMAIN ts = 1..Len(ts) /\ Len(ts) \in Nat
  BY ListExact DEF InputsBelow
<1>2. \A k \in 1..Len(ts) : \A v \in V : f[ts[k][1]][v] \in V
  BY <1>1 DEF InputsBelow
<1>3. VisitEach(f, o, ts) \in V
  <2> HIDE DEF V, ts
  <2>1. o \in V
    BY DEF V
  <2>2. Carries(f, ts, V)
    BY <1>2 DEF Carries
  <2>3. Stepped(f, o, ts, V)
    BY <1>1, <2>1, <2>2, VisitEachSteps
  <2>4. PICK h \in [0..Len(ts) -> V] : VisitEach(f, o, ts) = h[Len(ts)]
    BY <2>3 DEF Stepped
  <2> QED BY <1>1, <2>4
<1>4. Append(VisitEach(f, o, ts), n) \in V
  BY <1>3
<1> QED BY <1>3, <1>4 DEF VisitOf

LEMMA VisitOfAlike ==
  ASSUME NEW ns, InputsBelow(ns), NEW n \in DOMAIN ns, NEW f, NEW g, NEW o \in Seq(DOMAIN ns),
         \A j \in 1..(n - 1) : g[j] = f[j] /\ \A p \in Seq(DOMAIN ns) : f[j][p] \in Seq(DOMAIN ns)
  PROVE  VisitOf(g, ns, n, o) = VisitOf(f, ns, n, o)
<1> DEFINE V == Seq(DOMAIN ns)
           ts == ns[n].in
<1>1. IsList(ts) /\ DOMAIN ts = 1..Len(ts) /\ Len(ts) \in Nat
  BY ListExact DEF InputsBelow
<1>2. \A k \in 1..Len(ts) : g[ts[k][1]] = f[ts[k][1]] /\ \A v \in V : f[ts[k][1]][v] \in V
  BY <1>1 DEF InputsBelow
<1>3. VisitEach(g, o, ts) = VisitEach(f, o, ts)
  <2> HIDE DEF V, ts
  <2>1. o \in V
    BY DEF V
  <2> QED BY <1>1, <1>2, <2>1, VisitEachAlike
<1> QED BY <1>3 DEF VisitOf

\* The recursion of visit() has a solution.
LEMMA VisitsDefined ==
  ASSUME NEW ns, InputsBelow(ns)
  PROVE  \E f : f = [n \in DOMAIN ns |-> [o \in Seq(DOMAIN ns) |-> VisitOf(f, ns, n, o)]]
<1> DEFINE V == Seq(DOMAIN ns)
           N == Len(ns)
           Solved(m) == \E f : VisitsBelow(f, ns, m, V)
           T == {m \in 0..N : Solved(m)}
<1>1. N \in Nat /\ DOMAIN ns = 1..N
  BY ListExact DEF InputsBelow
<1> HIDE DEF N
<1>2. 0 \in T
  <2>1. [n \in 1..0 |-> [o \in V |-> o]] \in [1..0 -> [V -> V]] /\ \A n \in 1..0 : FALSE
    OBVIOUS
  <2>2. Solved(0)
    BY <2>1 DEF VisitsBelow
  <2> QED BY <1>1, <2>2
<1>3. ASSUME NEW m \in 1..N, m - 1 \in T PROVE m \in T
  <2>1. PICK f : VisitsBelow(f, ns, m - 1, V)
    BY <1>3
  <2> DEFINE g == [n \in 1..m |-> IF n = m THEN [o \in V |-> VisitOf(f, ns, n, o)] ELSE f[n]]
  <2>2. /\ m \in DOMAIN ns /\ m \in 1..m /\ m - 1 \in Nat
        /\ \A n \in 1..m : n \in DOMAIN ns /\ (n = m \/ n \in 1..(m - 1))
        /\ \A n \in 1..m : \A j \in 1..(n - 1) : j \in 1..(m - 1)
    BY <1>1
  <2>3. \A j \in 1..(m - 1) : \A o \in V : f[j][o] \in V
    BY <2>1 DEF VisitsBelow
  <2>4. \A o \in V : VisitOf(f, ns, m, o) \in V
    BY <2>2, <2>3, VisitOfTyped
  <2>5. \A j \in 1..(m - 1) : g[j] = f[j]
    <3>1. \A j \in 1..(m - 1) : j \in 1..m /\ j # m
      BY <2>2
    <3> QED BY <3>1
  <2>6. g[m] = [o \in V |-> VisitOf(f, ns, m, o)]
    BY <2>2
  <2>7. g \in [1..m -> [V -> V]]
    <3>1. ASSUME NEW n \in 1..m PROVE g[n] \in [V -> V]
      <4>1. CASE n = m
        <5> HIDE DEF V, g
        <5> QED BY <2>4, <2>6, <4>1
      <4>2. CASE n # m
        <5>1. n \in 1..(m - 1)
          BY <2>2, <4>2
        <5>2. f[n] \in [V -> V]
          BY <2>1, <5>1 DEF VisitsBelow
        <5> HIDE DEF g
        <5> QED BY <2>5, <5>1, <5>2
      <4> QED BY <4>1, <4>2
    <3> QED BY <3>1
  <2> HIDE DEF g
  <2>8. ASSUME NEW n \in 1..m, NEW o \in V PROVE g[n][o] = VisitOf(g, ns, n, o)
    <3>1. \A j \in 1..(n - 1) : g[j] = f[j] /\ \A p \in V : f[j][p] \in V
      BY <2>2, <2>3, <2>5
    <3>2. VisitOf(g, ns, n, o) = VisitOf(f, ns, n, o)
      BY <2>2, <3>1, VisitOfAlike
    <3>3. g[n][o] = VisitOf(f, ns, n, o)
      <4>1. CASE n = m
        <5> HIDE DEF V
        <5> QED BY <2>6, <4>1
      <4>2. CASE n # m
        <5>1. n \in 1..(m - 1)
          BY <2>2, <4>2
        <5>2. f[n][o] = VisitOf(f, ns, n, o)
          BY <2>1, <5>1 DEF VisitsBelow
        <5> QED BY <2>5, <5>1, <5>2
      <4> QED BY <4>1, <4>2
    <3> QED BY <3>2, <3>3
  <2>9. Solved(m)
    BY <2>7, <2>8 DEF VisitsBelow
  <2>10. m \in 0..N
    BY <1>1
  <2> QED BY <2>9, <2>10
<1>4. N \in T
  <2>1. N \in 0..N
    BY <1>1
  <2> HIDE DEF T
  <2> QED BY <1>1, <1>2, <1>3, <2>1, Upto
<1>5. PICK f : VisitsBelow(f, ns, N, V)
  BY <1>4
<1>6. f \in [DOMAIN ns -> [V -> V]] /\ \A n \in DOMAIN ns : \A o \in V : f[n][o] = VisitOf(f, ns, n, o)
  BY <1>1, <1>5 DEF VisitsBelow
<1>7. f = [n \in DOMAIN ns |-> [o \in V |-> VisitOf(f, ns, n, o)]]
  <2>1. ASSUME NEW n \in DOMAIN ns PROVE f[n] = [o \in V |-> VisitOf(f, ns, n, o)]
    <3>1. f[n] \in [V -> V]
      BY <1>6
    <3>2. f[n] = [o \in V |-> f[n][o]]
      <4> HIDE DEF V
      <4> QED BY <3>1
    <3> HIDE DEF V
    <3> QED BY <1>6, <3>2
  <2>2. f = [n \in DOMAIN ns |-> f[n]]
    BY <1>6
  <2> HIDE DEF V
  <2> QED BY <2>1, <2>2
<1> QED BY <1>7

LEMMA VisitsExact ==
  ASSUME NEW ns, InputsBelow(ns)
  PROVE  \A n \in DOMAIN ns : \A o \in Seq(DOMAIN ns) : Visits(ns)[n][o] = VisitOf(Visits(ns), ns, n, o)
<1> DEFINE Eq(f) == f = [n \in DOMAIN ns |-> [ordered \in Seq(DOMAIN ns) |->
                       IF n \in Range(ordered) THEN ordered ELSE Append(VisitEach(f, ordered, ns[n].in), n)]]
           visit == CHOOSE f : Eq(f)
<1>1. Visits(ns) = visit
  BY DEF Visits
<1>2. \E f : Eq(f)
  BY VisitsDefined DEF VisitOf
<1>3. Eq(visit)
  <2> HIDE DEF Eq
  <2> QED BY <1>2
<1>4. Eq(Visits(ns))
  <2> HIDE DEF Eq
  <2> QED BY <1>1, <1>3
<1> DEFINE v == Visits(ns)
           body == [n \in DOMAIN ns |-> [o \in Seq(DOMAIN ns) |-> VisitOf(v, ns, n, o)]]
<1>5. v = body
  BY <1>4 DEF VisitOf
<1>6. \A n \in DOMAIN ns : \A o \in Seq(DOMAIN ns) : body[n][o] = VisitOf(v, ns, n, o)
  <2> HIDE DEF v
  <2> QED OBVIOUS
<1> HIDE DEF v, body
<1>7. \A n \in DOMAIN ns : \A o \in Seq(DOMAIN ns) : v[n][o] = VisitOf(v, ns, n, o)
  BY <1>5, <1>6
<1> QED BY <1>7 DEF v

\* Lists of nodes without repetition, each after the nodes that it reads.
ReadsEarlier(ns, o, i) == \A x \in DOMAIN ns[o[i]].in : \E j \in 1..(i - 1) : o[j] = ns[o[i]].in[x][1]
InOrder(ns) == {o \in Seq(DOMAIN ns) : /\ \A i, j \in DOMAIN o : o[i] = o[j] => i = j
                                       /\ \A i \in DOMAIN o : ReadsEarlier(ns, o, i)}

ReadsInside(ns, S) == \A n \in S : \A x \in DOMAIN ns[n].in : ns[n].in[x][1] \in S

\* The list p is o with the nodes R and what they read, none above m if new.
Grown(ns, m, R, o, p) ==
  /\ p \in InOrder(ns)
  /\ Range(o) \cup R \subseteq Range(p)
  /\ \A x \in Range(p) : x \in Range(o) \/ x <= m
  /\ \A S \in SUBSET DOMAIN ns : ReadsInside(ns, S) /\ R \subseteq S => Range(p) \subseteq Range(o) \cup S

LEMMA GrownNot ==
  ASSUME NEW ns, NEW m, NEW R, NEW o \in InOrder(ns), R \subseteq Range(o)
  PROVE  Grown(ns, m, R, o, o)
BY DEF Grown

LEMMA GrownTwice ==
  ASSUME NEW ns, NEW m \in Nat, NEW j \in 1..m, NEW R, NEW o, NEW p, NEW q,
         Grown(ns, m, R, o, p), Grown(ns, j, {j}, p, q), Range(o) \subseteq Nat, Range(p) \subseteq Nat, Range(q) \subseteq Nat
  PROVE  Grown(ns, m, R \cup {j}, o, q)
<1>1. q \in InOrder(ns) /\ Range(o) \cup (R \cup {j}) \subseteq Range(q)
  BY DEF Grown
<1>2. ASSUME NEW x \in Range(q) PROVE x \in Range(o) \/ x <= m
  <2>1. x \in Range(p) \/ x <= j
    BY DEF Grown
  <2>2. x \in Range(p) => x \in Range(o) \/ x <= m
    BY DEF Grown
  <2>3. x \in Nat
    OBVIOUS
  <2> QED BY <2>1, <2>2, <2>3
<1>3. ASSUME NEW S \in SUBSET DOMAIN ns, ReadsInside(ns, S), R \cup {j} \subseteq S
      PROVE  Range(q) \subseteq Range(o) \cup S
  <2>1. Range(p) \subseteq Range(o) \cup S
    BY <1>3 DEF Grown
  <2>2. Range(q) \subseteq Range(p) \cup S
    BY <1>3 DEF Grown
  <2> QED BY <2>1, <2>2
<1> QED BY <1>1, <1>2, <1>3 DEF Grown

LEMMA InOrderTyped ==
  ASSUME NEW ns, IsList(ns), NEW o \in InOrder(ns)
  PROVE  /\ o \in Seq(DOMAIN ns) /\ Range(o) \subseteq DOMAIN ns /\ Range(o) \subseteq Nat
         /\ DOMAIN o = 1..Len(o) /\ Len(o) \in Nat
<1>1. o \in Seq(DOMAIN ns)
  BY DEF InOrder
<1>2. DOMAIN o = 1..Len(o) /\ Len(o) \in Nat /\ \A i \in DOMAIN o : o[i] \in DOMAIN ns
  BY <1>1
<1>3. DOMAIN ns \subseteq Nat
  <2>1. DOMAIN ns = 1..Len(ns) /\ Len(ns) \in Nat
    BY ListExact
  <2> QED BY <2>1
<1> QED BY <1>1, <1>2, <1>3 DEF Range

\* A node is appended after what it reads.
LEMMA AppendInOrder ==
  ASSUME NEW ns, IsList(ns), NEW o \in InOrder(ns), NEW n \in DOMAIN ns, n \notin Range(o),
         \A x \in DOMAIN ns[n].in : ns[n].in[x][1] \in Range(o)
  PROVE  Append(o, n) \in InOrder(ns) /\ Range(Append(o, n)) = Range(o) \cup {n}
<1> DEFINE p == Append(o, n)
           k == Len(o)
<1>1. o \in Seq(DOMAIN ns) /\ DOMAIN o = 1..k /\ k \in Nat
  BY InOrderTyped
<1>2. p \in Seq(DOMAIN ns) /\ DOMAIN p = 1..(k + 1) /\ p[k + 1] = n /\ \A i \in 1..k : p[i] = o[i]
  BY <1>1
<1> HIDE DEF p, k
<1>3. /\ \A i, j \in 1..k : o[i] = o[j] => i = j
      /\ \A i \in 1..k : ReadsEarlier(ns, o, i)
      /\ \A i \in 1..k : o[i] \in Range(o)
  BY <1>1 DEF InOrder, Range
<1>4. \A i \in 1..(k + 1) : i = k + 1 \/ i \in 1..k
  BY <1>1
<1>5. ASSUME NEW i \in 1..(k + 1), NEW j \in 1..(k + 1), p[i] = p[j] PROVE i = j
  <2>1. \A a \in 1..k : p[a] # n
    BY <1>2, <1>3
  <2> QED BY <1>2, <1>3, <1>4, <1>5, <2>1
<1>6. ASSUME NEW i \in 1..(k + 1) PROVE ReadsEarlier(ns, p, i)
  <2>1. CASE i \in 1..k
    <3>1. p[i] = o[i] /\ \A j \in 1..(i - 1) : p[j] = o[j]
      <4>1. \A j \in 1..(i - 1) : j \in 1..k
        BY <1>1, <2>1
      <4> QED BY <1>2, <2>1, <4>1
    <3>2. ReadsEarlier(ns, o, i)
      BY <1>3, <2>1
    <3> QED BY <3>1, <3>2 DEF ReadsEarlier
  <2>2. CASE i = k + 1
    <3>1. ASSUME NEW x \in DOMAIN ns[n].in PROVE \E j \in 1..k : p[j] = ns[n].in[x][1]
      <4>1. PICK j \in DOMAIN o : o[j] = ns[n].in[x][1]
        BY DEF Range
      <4> QED BY <1>1, <1>2, <4>1
    <3>2. p[i] = n /\ i - 1 = k
      BY <1>1, <1>2, <2>2
    <3> QED BY <3>1, <3>2 DEF ReadsEarlier
  <2> QED BY <1>4, <2>1, <2>2
<1>7. p \in InOrder(ns)
  BY <1>2, <1>5, <1>6 DEF InOrder
<1>8. Range(p) = Range(o) \cup {n}
  <2>1. Range(p) = {p[i] : i \in 1..(k + 1)} /\ Range(o) = {o[i] : i \in 1..k}
    BY <1>1, <1>2 DEF Range
  <2>2. k + 1 \in 1..(k + 1) /\ \A i \in 1..k : i \in 1..(k + 1)
    BY <1>1
  <2> QED BY <1>2, <1>4, <2>1, <2>2
<1> QED BY <1>7, <1>8 DEF p

\* What a walk over ts does when each visit does what it should.
Grows(ns, f, m) == \A j \in 1..m : \A o \in InOrder(ns) : Grown(ns, j, {j}, o, f[j][o])
Roots(ts, k) == {ts[i][1] : i \in 1..k}

LEMMA WalkGrown ==
  ASSUME NEW ns, IsList(ns), NEW m \in Nat, NEW f, Grows(ns, f, m), NEW o \in InOrder(ns),
         NEW ts, IsList(ts), \A k \in DOMAIN ts : ts[k][1] \in 1..m
  PROVE  Grown(ns, m, Roots(ts, Len(ts)), o, VisitEach(f, o, ts))
<1> DEFINE V == InOrder(ns)
           n == Len(ts)
<1>1. n \in Nat /\ DOMAIN ts = 1..n
  BY ListExact
<1>2. Stepped(f, o, ts, V)
  <2>1. ASSUME NEW k \in 1..n, NEW v \in V PROVE f[ts[k][1]][v] \in V
    <3>1. ts[k][1] \in 1..m
      BY <1>1
    <3>2. Grown(ns, ts[k][1], {ts[k][1]}, v, f[ts[k][1]][v])
      BY <3>1 DEF Grows
    <3> QED BY <3>2 DEF Grown
  <2>2. Carries(f, ts, V)
    BY <2>1 DEF Carries
  <2> HIDE DEF V
  <2>3. o \in V
    BY DEF V
  <2> QED BY <2>2, <2>3, VisitEachSteps
<1>3. PICK h \in [0..n -> V] : Walks(f, o, ts, h) /\ VisitEach(f, o, ts) = h[n]
  BY <1>2 DEF Stepped
<1> DEFINE T == {k \in 0..n : Grown(ns, m, Roots(ts, k), o, h[k])}
<1>4. 0 \in T
  <2>1. h[0] = o
    BY <1>3 DEF Walks
  <2>2. Roots(ts, 0) = {}
    BY DEF Roots
  <2>3. Grown(ns, m, {}, o, o)
    BY GrownNot
  <2>4. 0 \in 0..n
    <3> HIDE DEF n
    <3> QED BY <1>1
  <2> HIDE DEF n
  <2> QED BY <2>1, <2>2, <2>3, <2>4
<1>5. ASSUME NEW k \in 1..n, k - 1 \in T PROVE k \in T
  <2> DEFINE j == ts[k][1]
             p == h[k - 1]
  <2>1. h[k] = f[j][p]
    BY <1>3 DEF Walks
  <2>2. j \in 1..m
    BY <1>1
  <2>3. k \in 0..n /\ k - 1 \in 0..n
    <3> HIDE DEF n
    <3> QED BY <1>1
  <2>4. p \in V /\ h[k] \in V
    BY <1>3, <2>3
  <2>5. Grown(ns, m, Roots(ts, k - 1), o, p)
    BY <1>5
  <2>6. Grown(ns, j, {j}, p, h[k])
    <3> HIDE DEF j, p
    <3> QED BY <2>1, <2>2, <2>4 DEF Grows
  <2>7. Range(o) \subseteq Nat /\ Range(p) \subseteq Nat /\ Range(h[k]) \subseteq Nat
    BY <2>4, InOrderTyped
  <2>8. Roots(ts, k) = Roots(ts, k - 1) \cup {j}
    <3>1. k - 1 \in Nat /\ 1..k = 1..(k - 1) \cup {k}
      <4> HIDE DEF n
      <4> QED BY <1>1
    <3> QED BY <3>1 DEF Roots
  <2>9. Grown(ns, m, Roots(ts, k - 1) \cup {j}, o, h[k])
    <3> HIDE DEF j, p
    <3> QED BY <2>2, <2>5, <2>6, <2>7, GrownTwice
  <2> QED BY <2>3, <2>8, <2>9
<1>6. n \in T
  <2>1. n \in 0..n
    <3> HIDE DEF n
    <3> QED BY <1>1
  <2> HIDE DEF n, T
  <2> QED BY <1>1, <1>4, <1>5, <2>1, Upto
<1> QED BY <1>3, <1>6

\* visit() of any node.
LEMMA VisitGrown ==
  ASSUME NEW ns, InputsBelow(ns)
  PROVE  Grows(ns, Visits(ns), Len(ns))
<1> DEFINE N == Len(ns)
           f == Visits(ns)
           T == {m \in 0..N : Grows(ns, f, m)}
<1>1. N \in Nat /\ DOMAIN ns = 1..N /\ IsList(ns)
  BY ListExact DEF InputsBelow
<1> HIDE DEF f, N
<1>2. 0 \in T
  <2>1. 0 \in 0..N /\ 1..0 = {}
    BY <1>1
  <2> QED BY <2>1 DEF Grows
<1>3. ASSUME NEW n \in 1..N, n - 1 \in T PROVE n \in T
  <2>1. n - 1 \in Nat /\ n \in Nat /\ n \in DOMAIN ns /\ Grows(ns, f, n - 1)
    BY <1>1, <1>3
  <2> DEFINE ts == ns[n].in
  <2>2. IsList(ts) /\ DOMAIN ts = 1..Len(ts) /\ \A k \in DOMAIN ts : ts[k][1] \in 1..(n - 1)
    BY <2>1, ListExact DEF InputsBelow
  <2>3. ASSUME NEW o \in InOrder(ns)
        PROVE  Grown(ns, n, {n}, o, f[n][o])
    <3>1. o \in Seq(DOMAIN ns) /\ Range(o) \subseteq Nat
      BY <1>1, InOrderTyped
    <3>2. f[n][o] = VisitOf(f, ns, n, o)
      BY <2>1, <3>1, VisitsExact DEF f
    <3>3. CASE n \in Range(o)
      <4>1. f[n][o] = o
        BY <3>2, <3>3 DEF VisitOf
      <4>2. {n} \subseteq Range(o)
        BY <3>3
      <4>3. Grown(ns, n, {n}, o, o)
        BY <4>2, GrownNot
      <4> QED BY <4>1, <4>3
    <3>4. CASE n \notin Range(o)
      <4> DEFINE p == VisitEach(f, o, ts)
                 R == Roots(ts, Len(ts))
      <4>1. f[n][o] = Append(p, n)
        BY <3>2, <3>4 DEF VisitOf
      <4>2. Grown(ns, n - 1, R, o, p)
        <5> HIDE DEF ts
        <5> QED BY <1>1, <2>1, <2>2, WalkGrown
      <4> HIDE DEF p
      <4>3. p \in InOrder(ns) /\ n \notin Range(p)
        BY <2>1, <3>4, <4>2 DEF Grown
      <4>4. \A x \in DOMAIN ns[n].in : ns[n].in[x][1] \in Range(p) /\ ns[n].in[x][1] \in R
        BY <2>2, <4>2 DEF Grown, Roots
      <4>5. Append(p, n) \in InOrder(ns) /\ Range(Append(p, n)) = Range(p) \cup {n}
        BY <1>1, <2>1, <4>3, <4>4, AppendInOrder
      <4>6. ASSUME NEW x \in Range(Append(p, n)) PROVE x \in Range(o) \/ x <= n
        <5>1. Range(p) \subseteq Nat
          BY <1>1, <4>3, InOrderTyped
        <5>2. x \in Range(p) => x \in Range(o) \/ x <= n - 1
          BY <4>2 DEF Grown
        <5> QED BY <2>1, <4>5, <5>1, <5>2
      <4>7. ASSUME NEW S \in SUBSET DOMAIN ns, ReadsInside(ns, S), n \in S
            PROVE  Range(Append(p, n)) \subseteq Range(o) \cup S
        <5>1. R \subseteq S
          BY <2>2, <4>7 DEF ReadsInside, Roots
        <5>2. Range(p) \subseteq Range(o) \cup S
          BY <4>2, <4>7, <5>1 DEF Grown
        <5> QED BY <4>5, <4>7, <5>2
      <4>8. Range(o) \cup {n} \subseteq Range(Append(p, n))
        BY <4>2, <4>5 DEF Grown
      <4>9. Grown(ns, n, {n}, o, Append(p, n))
        BY <4>5, <4>6, <4>7, <4>8 DEF Grown
      <4> QED BY <4>1, <4>9
    <3> QED BY <3>3, <3>4
  <2>4. ASSUME NEW j \in 1..n, NEW o \in InOrder(ns) PROVE Grown(ns, j, {j}, o, f[j][o])
    <3>1. j = n \/ j \in 1..(n - 1)
      BY <2>1
    <3> QED BY <2>1, <2>3, <3>1 DEF Grows
  <2>5. Grows(ns, f, n)
    BY <2>4 DEF Grows
  <2>6. n \in 0..N
    BY <1>1
  <2> QED BY <2>5, <2>6
<1>4. N \in T
  <2>1. N \in 0..N
    BY <1>1
  <2> HIDE DEF T
  <2> QED BY <1>1, <1>2, <1>3, <2>1, Upto
<1> QED BY <1>4 DEF f, N

\* The nodes of a graph.
LEMMA TopologicalExact ==
  ASSUME NEW ns, InputsBelow(ns), NEW ts, IsList(ts), \A k \in DOMAIN ts : ts[k][1] \in DOMAIN ns
  PROVE  Grown(ns, Len(ns), Roots(ts, Len(ts)), <<>>, TopologicalNodes(ns, ts))
<1>1. DOMAIN ns = 1..Len(ns) /\ Len(ns) \in Nat /\ IsList(ns)
  BY ListExact DEF InputsBelow
<1>2. <<>> \in InOrder(ns)
  BY DEF InOrder
<1>3. Grows(ns, Visits(ns), Len(ns))
  BY VisitGrown
<1>4. Grown(ns, Len(ns), Roots(ts, Len(ts)), <<>>, VisitEach(Visits(ns), <<>>, ts))
  BY <1>1, <1>2, <1>3, WalkGrown
<1> QED BY <1>4 DEF TopologicalNodes

\* Graph.nodes is a list of nodes without repetition, each after its inputs,
\* with the nodes of the outputs and nothing that they are not computed from.
OrderOk(order) ==
  /\ order \in InOrder(nodes)
  /\ {t[1] : t \in Range(graph.outputs)} \subseteq Range(order)
  /\ \A S \in SUBSET DOMAIN nodes :
       ReadsInside(nodes, S) /\ {t[1] : t \in Range(graph.outputs)} \subseteq S => Range(order) \subseteq S

LEMMA ReadsClosed ==
  ASSUME NEW S
  PROVE  Closed(S) <=> ReadsInside(nodes, S)
BY DEF Closed, ReadsInside, Range

LEMMA OrderIsTopological ==
  ASSUME NEW order, OrderOk(order), IsList(nodes)
  PROVE  /\ Distinct(order)
         /\ Range(order) = Above({t[1] : t \in Range(graph.outputs)})
         /\ \A i, j \in DOMAIN order : order[j] \in {t[1] : t \in Range(nodes[order[i]].in)} => j < i
<1> DEFINE n == Len(order)
           roots == {t[1] : t \in Range(graph.outputs)}
<1>1. /\ DOMAIN order = 1..n /\ n \in Nat /\ Range(order) \subseteq DOMAIN nodes
      /\ order \in Seq(DOMAIN nodes)
  BY InOrderTyped DEF OrderOk
<1>2. /\ \A i, j \in DOMAIN order : order[i] = order[j] => i = j
      /\ \A i \in DOMAIN order : ReadsEarlier(nodes, order, i)
  BY DEF OrderOk, InOrder
<1>3. Distinct(order)
  <2>1. IsFiniteSet(1..n) /\ Cardinality(1..n) = n
    <3> HIDE DEF n
    <3>1. 1 \in Int /\ n \in Int
      BY <1>1
    <3>2. IsFiniteSet(1..n) /\ Cardinality(1..n) = IF 1 > n THEN 0 ELSE n - 1 + 1
      BY <3>1, FS_Interval
    <3> QED BY <1>1, <3>2
  <2> DEFINE f == [k \in 1..n |-> order[k]]
  <2>2. f \in Surjection(1..n, Range(order))
    <3>1. Range(order) = {order[k] : k \in 1..n}
      BY <1>1 DEF Range
    <3> QED BY <3>1 DEF Surjection
  <2>3. f \in Injection(1..n, Range(order))
    <3>1. f \in [1..n -> Range(order)]
      BY <1>1 DEF Range
    <3>2. \A i, j \in 1..n : f[i] = f[j] => i = j
      BY <1>1, <1>2
    <3> HIDE DEF f
    <3>3. DOMAIN f = 1..n
      BY <3>1
    <3> QED BY <3>1, <3>2, <3>3 DEF Injection, IsInjective
  <2> HIDE DEF f
  <2>4. Cardinality(Range(order)) = Cardinality(1..n)
    BY <2>1, <2>2, <2>3, FS_Surjection
  <2> QED BY <2>1, <2>4 DEF Distinct
<1>4. ReadsInside(nodes, Range(order))
  <2> SUFFICES ASSUME NEW m \in Range(order), NEW x \in DOMAIN nodes[m].in
               PROVE  nodes[m].in[x][1] \in Range(order)
    BY DEF ReadsInside
  <2>1. PICK i \in DOMAIN order : order[i] = m
    BY DEF Range
  <2>2. PICK j \in 1..(i - 1) : order[j] = nodes[m].in[x][1]
    BY <1>2, <2>1 DEF ReadsEarlier
  <2>3. j \in DOMAIN order
    BY <1>1
  <2> QED BY <2>2, <2>3 DEF Range
<1>5. ASSUME NEW m \in Range(order) PROVE m \in Above(roots)
  <2>1. ASSUME NEW more \in SUBSET DOMAIN nodes, roots \subseteq more, Closed(more)
        PROVE  m \in more
    <3>1. ReadsInside(nodes, more)
      BY <2>1, ReadsClosed
    <3> QED BY <2>1, <3>1 DEF OrderOk
  <2>2. m \in DOMAIN nodes
    BY <1>1
  <2> HIDE DEF roots
  <2> QED BY <2>1, <2>2 DEF Above
<1>6. ASSUME NEW m \in Above(roots) PROVE m \in Range(order)
  <2>1. Closed(Range(order)) /\ roots \subseteq Range(order)
    BY <1>4, ReadsClosed DEF OrderOk
  <2> HIDE DEF roots
  <2> QED BY <1>1, <2>1 DEF Above
<1>7. ASSUME NEW i \in DOMAIN order, NEW j \in DOMAIN order,
             order[j] \in {t[1] : t \in Range(nodes[order[i]].in)}
      PROVE  j < i
  <2>1. PICK x \in DOMAIN nodes[order[i]].in : order[j] = nodes[order[i]].in[x][1]
    BY <1>7 DEF Range
  <2>2. PICK k \in 1..(i - 1) : order[k] = order[j]
    BY <1>2, <2>1 DEF ReadsEarlier
  <2>3. k \in DOMAIN order
    BY <1>1
  <2>4. k = j
    BY <1>2, <2>2, <2>3
  <2> QED BY <1>1, <2>4
<1> QED BY <1>3, <1>5, <1>6, <1>7

-----------------------------------------------------------------------------
(* GraphBuild: the inductive invariant.                                    *)

IsTensor(ns, t) == t[1] \in DOMAIN ns /\ t[2] \in Nat /\ t[2] < Len(ns[t[1]].specs)

\* A node reads tensors of earlier nodes; a constant has one of the specs.
NodeOk(ns, n) ==
  /\ IsList(ns[n].in) /\ IsList(ns[n].specs)
  /\ \A i \in DOMAIN ns[n].in : IsTensor(ns, ns[n].in[i]) /\ ns[n].in[i][1] \in 1..(n - 1)
  /\ ns[n].op = "Const" => \E spec \in InputSpecs : ns[n].specs = <<spec>>

NodesOk == IsList(nodes) /\ \A n \in DOMAIN nodes : NodeOk(nodes, n)
GraphOk == graph # None => IsList(graph.outputs) /\ \A k \in DOMAIN graph.outputs : IsTensor(nodes, graph.outputs[k])
IrOk == ir # None => graph # None /\ IsIr(ir)
BuildInv == NodesOk /\ GraphOk /\ IrOk

LEMMA NodesBelow ==
  ASSUME NodesOk
  PROVE  InputsBelow(nodes) /\ IsList(nodes)
BY DEF NodesOk, NodeOk, InputsBelow

LEMMA OrderMade ==
  ASSUME BuildInv, graph # None
  PROVE  OrderOk(TopologicalNodes(nodes, graph.outputs))
<1> DEFINE ts == graph.outputs
           order == TopologicalNodes(nodes, ts)
<1>1. InputsBelow(nodes) /\ IsList(nodes)
  BY NodesBelow DEF BuildInv
<1>2. IsList(ts) /\ \A k \in DOMAIN ts : ts[k][1] \in DOMAIN nodes
  BY DEF BuildInv, GraphOk, IsTensor
<1>3. DOMAIN ts = 1..Len(ts)
  BY <1>2, ListExact
<1>4. Grown(nodes, Len(nodes), Roots(ts, Len(ts)), <<>>, order)
  <2> HIDE DEF ts
  <2> QED BY <1>1, <1>2, TopologicalExact
<1>5. Roots(ts, Len(ts)) = {t[1] : t \in Range(ts)}
  BY <1>3 DEF Roots, Range
<1>6. Range(<<>>) = {}
  BY DEF Range
<1> HIDE DEF order
<1>7. OrderOk(order)
  BY <1>4, <1>5, <1>6 DEF Grown, OrderOk
<1> QED BY <1>7 DEF order

-----------------------------------------------------------------------------
(* GraphBuild: what serialize_ir writes.                                   *)

LayerEdge(order, e) ==
  \E k \in DOMAIN order : \E i \in DOMAIN nodes[order[k]].in :
    e = EdgeOf(order, nodes[order[k]].in[i], k - 1, i - 1)
ResultEdge(order, e) ==
  \E o \in DOMAIN graph.outputs : e = EdgeOf(order, graph.outputs[o], Len(order) + o - 1, 0)

LEMMA EdgesExact ==
  ASSUME NEW order
  PROVE  \A e : e \in Edges(order) <=> LayerEdge(order, e) \/ ResultEdge(order, e)
<1> DEFINE Layered == UNION {{EdgeOf(order, nodes[order[k]].in[i], k - 1, i - 1) : i \in DOMAIN nodes[order[k]].in} :
                             k \in DOMAIN order}
           Resulting == {EdgeOf(order, graph.outputs[o], Len(order) + o - 1, 0) : o \in DOMAIN graph.outputs}
<1>1. Edges(order) = Resulting \cup Layered
  BY DEF Edges
<1>2. ASSUME NEW e PROVE e \in Layered <=> LayerEdge(order, e)
  BY DEF LayerEdge
<1>3. ASSUME NEW e PROVE e \in Resulting <=> ResultEdge(order, e)
  BY DEF ResultEdge
<1> QED BY <1>1, <1>2, <1>3

LEMMA IdExact ==
  ASSUME NEW order \in InOrder(nodes), IsList(nodes), NEW m \in Range(order)
  PROVE  /\ IdOf(order, m) \in 1..Len(order) /\ order[IdOf(order, m)] = m
         /\ \A k \in 1..Len(order) : order[k] = m => k = IdOf(order, m)
<1>1. DOMAIN order = 1..Len(order)
  BY InOrderTyped
<1>2. \E k \in DOMAIN order : order[k] = m
  BY DEF Range
<1>3. IdOf(order, m) \in DOMAIN order /\ order[IdOf(order, m)] = m
  BY <1>2 DEF IdOf
<1>4. \A i, j \in DOMAIN order : order[i] = order[j] => i = j
  BY DEF InOrder
<1> QED BY <1>1, <1>3, <1>4

\* The parts of an IR of the nodes in that order.
LayersOf(x, order) ==
  /\ DOMAIN x.layers = 1..Len(order) /\ Len(x.layers) = Len(order)
  /\ \A l \in 1..Len(order) :
       /\ DOMAIN x.layers[l].in = DOMAIN nodes[order[l]].in
       /\ \A i \in DOMAIN nodes[order[l]].in : x.layers[l].in[i] = SpecOf(nodes[order[l]].in[i])
       /\ DOMAIN x.layers[l].out = Len(nodes[order[l]].in)..(Len(nodes[order[l]].in) + Len(nodes[order[l]].specs) - 1)
       /\ \A p \in DOMAIN x.layers[l].out : x.layers[l].out[p] = nodes[order[l]].specs[p - Len(nodes[order[l]].in) + 1]
DataOf(x, order) ==
  \A l \in 1..Len(order) :
    x.layers[l].data = IF nodes[order[l]].op = "Const" THEN <<Offset(order, l), Weight(order[l])>> ELSE <<>>
RestOf(x, order) ==
  /\ DOMAIN x.results = DOMAIN graph.outputs
  /\ \A o \in DOMAIN graph.outputs : x.results[o] = SpecOf(graph.outputs[o])
  /\ x.edges = Edges(order) /\ x.weights = Offset(order, Len(order) + 1)

LEMMA SerializedParts ==
  ASSUME NEW carriers, NEW order, order = TopologicalNodes(nodes, graph.outputs),
         DOMAIN order = 1..Len(order), Len(order) \in Nat, NEW x, x = Serialized(carriers)
  PROVE  LayersOf(x, order) /\ DataOf(x, order) /\ RestOf(x, order)
<1> DEFINE layers == [k \in DOMAIN order |-> Layer(order, k, carriers)]
<1>1. /\ x.layers = layers
      /\ x.results = [o \in DOMAIN graph.outputs |-> SpecOf(graph.outputs[o])]
      /\ x.edges = Edges(order) /\ x.weights = Offset(order, Len(order) + 1)
  BY DEF Serialized
<1>2. layers = [k \in 1..Len(order) |-> layers[k]] /\ \A k \in 1..Len(order) : layers[k] = Layer(order, k, carriers)
  OBVIOUS
<1> HIDE DEF layers
<1>3. DOMAIN layers = 1..Len(order) /\ Len(layers) = Len(order)
  BY <1>2, ListExact
<1>4. ASSUME NEW l \in 1..Len(order)
      PROVE  /\ layers[l].in = [i \in DOMAIN nodes[order[l]].in |-> SpecOf(nodes[order[l]].in[i])]
             /\ layers[l].out = [p \in Len(nodes[order[l]].in)..(Len(nodes[order[l]].in) + Len(nodes[order[l]].specs) - 1) |->
                                   nodes[order[l]].specs[p - Len(nodes[order[l]].in) + 1]]
             /\ layers[l].data = IF nodes[order[l]].op = "Const"
                                 THEN <<Offset(order, l), Bytes(nodes[order[l]].specs[1])>> ELSE <<>>
  <2>1. layers[l] = Layer(order, l, carriers)
    BY <1>2
  <2> DEFINE y == Layer(order, l, carriers)
  <2>2. y.in = [i \in DOMAIN nodes[order[l]].in |-> SpecOf(nodes[order[l]].in[i])]
    BY DEF Layer
  <2>3. y.out = [p \in Len(nodes[order[l]].in)..(Len(nodes[order[l]].in) + Len(nodes[order[l]].specs) - 1) |->
                   nodes[order[l]].specs[p - Len(nodes[order[l]].in) + 1]]
    BY DEF Layer
  <2>4. y.data = IF nodes[order[l]].op = "Const"
                 THEN <<Offset(order, l), Bytes(nodes[order[l]].specs[1])>> ELSE <<>>
    BY DEF Layer
  <2> HIDE DEF y
  <2>5. layers[l] = y
    BY <2>1 DEF y
  <2> QED BY <2>2, <2>3, <2>4, <2>5
<1>5. LayersOf(x, order)
  <2>1. ASSUME NEW l \in 1..Len(order)
        PROVE  /\ DOMAIN layers[l].in = DOMAIN nodes[order[l]].in
               /\ \A i \in DOMAIN nodes[order[l]].in : layers[l].in[i] = SpecOf(nodes[order[l]].in[i])
    <3> DEFINE y == layers[l].in
    <3>1. y = [i \in DOMAIN nodes[order[l]].in |-> SpecOf(nodes[order[l]].in[i])]
      BY <1>4
    <3> HIDE DEF y
    <3>2. DOMAIN y = DOMAIN nodes[order[l]].in /\ \A i \in DOMAIN nodes[order[l]].in : y[i] = SpecOf(nodes[order[l]].in[i])
      BY <3>1
    <3> QED BY <3>2 DEF y
  <2>2. ASSUME NEW l \in 1..Len(order)
        PROVE  /\ DOMAIN layers[l].out = Len(nodes[order[l]].in)..(Len(nodes[order[l]].in) + Len(nodes[order[l]].specs) - 1)
               /\ \A p \in DOMAIN layers[l].out : layers[l].out[p] = nodes[order[l]].specs[p - Len(nodes[order[l]].in) + 1]
    <3> DEFINE y == layers[l].out
               A == Len(nodes[order[l]].in)..(Len(nodes[order[l]].in) + Len(nodes[order[l]].specs) - 1)
    <3>1. y = [p \in A |-> nodes[order[l]].specs[p - Len(nodes[order[l]].in) + 1]]
      BY <1>4
    <3> HIDE DEF y, A
    <3>2. DOMAIN y = A /\ \A p \in DOMAIN y : y[p] = nodes[order[l]].specs[p - Len(nodes[order[l]].in) + 1]
      BY <3>1
    <3> QED BY <3>2 DEF y, A
  <2> QED BY <1>1, <1>3, <2>1, <2>2 DEF LayersOf
<1>6. DataOf(x, order)
  BY <1>1, <1>4 DEF DataOf, Weight
<1>7. RestOf(x, order)
  BY <1>1 DEF RestOf
<1> QED BY <1>5, <1>6, <1>7

\* An edge comes from the port of its tensor, which carries the tensor's spec.
LEMMA EdgeFrom ==
  ASSUME NodesOk, NEW order \in InOrder(nodes), NEW x, LayersOf(x, order),
         NEW t, IsTensor(nodes, t), t[1] \in Range(order), NEW to, NEW port, NEW e, e = EdgeOf(order, t, to, port)
  PROVE  /\ e[1] + 1 = IdOf(order, t[1]) /\ e[1] \in 0..(Len(order) - 1) /\ e[3] = to /\ e[4] = port
         /\ e[2] \in DOMAIN x.layers[e[1] + 1].out /\ x.layers[e[1] + 1].out[e[2]] = SpecOf(t)
<1> DEFINE m == t[1]
           l == IdOf(order, m)
           a == Len(nodes[m].in)
           b == Len(nodes[m].specs)
<1>1. IsList(nodes) /\ m \in DOMAIN nodes /\ NodeOk(nodes, m)
  BY DEF NodesOk, IsTensor
<1>2. l \in 1..Len(order) /\ order[l] = m /\ Len(order) \in Nat
  BY <1>1, IdExact, InOrderTyped
<1>3. a \in Nat /\ b \in Nat
  BY <1>1, ListExact DEF NodeOk
<1>4. e[1] = l - 1 /\ e[2] = a + t[2] /\ e[3] = to /\ e[4] = port
  BY DEF EdgeOf, FromPort
<1>5. /\ DOMAIN x.layers[l].out = a..(a + b - 1)
      /\ \A p \in a..(a + b - 1) : x.layers[l].out[p] = nodes[m].specs[p - a + 1]
  BY <1>2 DEF LayersOf
<1>6. t[2] \in Nat /\ t[2] < b
  BY DEF IsTensor
<1>7. SpecOf(t) = nodes[m].specs[t[2] + 1]
  BY DEF SpecOf
<1> DEFINE q == t[2]
<1> HIDE DEF m, l, a, b, q
<1>8. a + q \in a..(a + b - 1) /\ a + q - a + 1 = q + 1
  BY <1>3, <1>6 DEF q
<1>9. (l - 1) + 1 = l /\ l - 1 \in 0..(Len(order) - 1)
  BY <1>2
<1>10. e[1] + 1 = l /\ e[1] \in 0..(Len(order) - 1)
  BY <1>4, <1>9
<1>11. e[2] = a + q
  BY <1>4 DEF q
<1>12. e[2] \in DOMAIN x.layers[l].out
  BY <1>5, <1>8, <1>11
<1>13. x.layers[l].out[e[2]] = nodes[m].specs[q + 1]
  <2> DEFINE p == e[2]
             y == x.layers[l].out
  <2>1. p \in a..(a + b - 1) /\ p - a + 1 = q + 1
    <3>1. p = a + q
      BY <1>11
    <3>2. q \in Nat
      BY <1>6 DEF q
    <3> HIDE DEF p
    <3> QED BY <1>3, <1>8, <3>1, <3>2
  <2>2. \A z \in a..(a + b - 1) : y[z] = nodes[m].specs[z - a + 1]
    BY <1>5
  <2> HIDE DEF p, y
  <2>3. y[p] = nodes[m].specs[p - a + 1]
    BY <2>1, <2>2
  <2>4. y[p] = nodes[m].specs[q + 1]
    BY <2>1, <2>3
  <2> QED BY <2>4 DEF p, y
<1>14. e[1] + 1 = IdOf(order, t[1])
  BY <1>10 DEF l, m
<1>15. x.layers[l].out[e[2]] = SpecOf(t)
  BY <1>7, <1>13 DEF q
<1> QED BY <1>4, <1>10, <1>12, <1>14, <1>15

\* The input ports of an IR.
LayerPort(x, order, port) == \E l \in 1..Len(order) : \E i \in DOMAIN x.layers[l].in : port = <<l - 1, i - 1>>
ResultPort(x, order, port) == \E o \in DOMAIN x.results : port = <<Len(order) + o - 1, 0>>

\* What an edge of the graph is about.
LEMMA LayerEdgeExact ==
  ASSUME NodesOk, NEW order \in InOrder(nodes), NEW k \in 1..Len(order), NEW i \in DOMAIN nodes[order[k]].in,
         NEW t, t = nodes[order[k]].in[i]
  PROVE  /\ IsTensor(nodes, t) /\ t[1] \in Range(order) /\ IdOf(order, t[1]) < k
         /\ i \in Nat \ {0} /\ order[k] \in DOMAIN nodes
<1>1. IsList(nodes)
  BY DEF NodesOk
<1>2. DOMAIN order = 1..Len(order) /\ Len(order) \in Nat /\ Range(order) \subseteq DOMAIN nodes
  BY <1>1, InOrderTyped
<1>3. order[k] \in DOMAIN nodes
  BY <1>2 DEF Range
<1>4. NodeOk(nodes, order[k])
  BY <1>3 DEF NodesOk
<1>5. IsTensor(nodes, t)
  BY <1>4 DEF NodeOk
<1>6. i \in Nat \ {0}
  <2>1. DOMAIN nodes[order[k]].in = 1..Len(nodes[order[k]].in)
    BY <1>4, ListExact DEF NodeOk
  <2> QED BY <2>1
<1>7. PICK j \in 1..(k - 1) : order[j] = t[1]
  <2>1. ReadsEarlier(nodes, order, k)
    BY <1>2 DEF InOrder
  <2> QED BY <2>1 DEF ReadsEarlier
<1>8. j \in 1..Len(order) /\ j < k
  BY <1>2
<1>9. t[1] \in Range(order)
  BY <1>2, <1>7, <1>8 DEF Range
<1>10. IdOf(order, t[1]) = j
  BY <1>1, <1>7, <1>8, <1>9, IdExact
<1> QED BY <1>3, <1>5, <1>6, <1>8, <1>9, <1>10

LEMMA ResultEdgeExact ==
  ASSUME BuildInv, graph # None, NEW order, OrderOk(order), NEW o \in DOMAIN graph.outputs, NEW t, t = graph.outputs[o]
  PROVE  IsTensor(nodes, t) /\ t[1] \in Range(order) /\ o \in Nat \ {0}
<1>1. IsList(graph.outputs) /\ IsTensor(nodes, t)
  BY DEF BuildInv, GraphOk
<1>2. DOMAIN graph.outputs = 1..Len(graph.outputs)
  BY <1>1, ListExact
<1>3. t \in Range(graph.outputs)
  BY DEF Range
<1> QED BY <1>1, <1>2, <1>3 DEF OrderOk

\* Every input port is fed by one edge.
LEMMA PortsFed ==
  ASSUME BuildInv, graph # None, NEW order, OrderOk(order), NEW x, LayersOf(x, order), RestOf(x, order),
         NEW port, LayerPort(x, order, port) \/ ResultPort(x, order, port)
  PROVE  Cardinality({e \in x.edges : <<e[3], e[4]>> = port}) = 1
<1> DEFINE n == Len(order)
           Feeds == {e \in x.edges : <<e[3], e[4]>> = port}
<1>1. NodesOk /\ order \in InOrder(nodes) /\ n \in Nat /\ DOMAIN order = 1..n
  <2>1. NodesOk /\ order \in InOrder(nodes) /\ IsList(nodes)
    BY DEF BuildInv, NodesOk, OrderOk
  <2> QED BY <2>1, InOrderTyped
<1>2. SUFFICES ASSUME NEW e, Feeds = {e} PROVE Cardinality(Feeds) = 1
  <2>1. \A e : Cardinality({e}) = 1
    BY FS_Singleton
  <2>2. CASE LayerPort(x, order, port)
    <3>1. PICK l \in 1..n : \E i \in DOMAIN x.layers[l].in : port = <<l - 1, i - 1>>
      BY <2>2 DEF LayerPort
    <3>2. PICK i \in DOMAIN nodes[order[l]].in : port = <<l - 1, i - 1>>
      BY <3>1 DEF LayersOf
    <3> DEFINE t == nodes[order[l]].in[i]
               e == EdgeOf(order, t, l - 1, i - 1)
    <3>3. i \in Nat
      BY <1>1, LayerEdgeExact
    <3>4. e \in x.edges /\ <<e[3], e[4]>> = port
      <4>1. LayerEdge(order, e)
        BY <1>1 DEF LayerEdge
      <4>2. e \in Edges(order)
        BY <4>1, EdgesExact
      <4>3. e[3] = l - 1 /\ e[4] = i - 1
        BY DEF EdgeOf
      <4> HIDE DEF e
      <4> QED BY <3>2, <4>2, <4>3 DEF RestOf
    <3>5. ASSUME NEW d \in Feeds PROVE d = e
      <4>1. LayerEdge(order, d) \/ ResultEdge(order, d)
        BY EdgesExact DEF RestOf
      <4>2. d[3] = l - 1 /\ d[4] = i - 1
        BY <3>2
      <4>3. CASE LayerEdge(order, d)
        <5>1. PICK k \in 1..n : \E j \in DOMAIN nodes[order[k]].in : d = EdgeOf(order, nodes[order[k]].in[j], k - 1, j - 1)
          BY <1>1, <4>3 DEF LayerEdge
        <5>2. PICK j \in DOMAIN nodes[order[k]].in : d = EdgeOf(order, nodes[order[k]].in[j], k - 1, j - 1)
          BY <5>1
        <5>3. d[3] = k - 1 /\ d[4] = j - 1
          BY <5>2 DEF EdgeOf
        <5>4. j \in Nat
          BY <1>1, LayerEdgeExact
        <5>5. k = l /\ j = i
          <6>1. k \in Int /\ l \in Int
            BY <1>1
          <6> HIDE DEF n
          <6> QED BY <3>3, <4>2, <5>3, <5>4, <6>1
        <5> QED BY <5>2, <5>5
      <4>4. CASE ResultEdge(order, d)
        <5>1. PICK o \in DOMAIN graph.outputs : d = EdgeOf(order, graph.outputs[o], n + o - 1, 0)
          BY <4>4 DEF ResultEdge
        <5>2. o \in Nat \ {0}
          BY ResultEdgeExact
        <5>3. d[3] = n + o - 1
          BY <5>1 DEF EdgeOf
        <5>4. n + o - 1 # l - 1
          <6> HIDE DEF n
          <6> QED BY <1>1, <5>2
        <5> QED BY <4>2, <5>3, <5>4
      <4> QED BY <4>1, <4>3, <4>4
    <3> HIDE DEF e
    <3>6. Feeds = {e}
      BY <3>4, <3>5
    <3> QED BY <2>1, <3>6
  <2>3. CASE ResultPort(x, order, port)
    <3>1. PICK o \in DOMAIN graph.outputs : port = <<n + o - 1, 0>>
      BY <2>3 DEF ResultPort, RestOf
    <3> DEFINE t == graph.outputs[o]
               e == EdgeOf(order, t, n + o - 1, 0)
    <3>2. o \in Nat \ {0}
      BY ResultEdgeExact
    <3>3. e \in x.edges /\ <<e[3], e[4]>> = port
      <4>1. ResultEdge(order, e)
        BY DEF ResultEdge
      <4>2. e \in Edges(order)
        BY <4>1, EdgesExact
      <4>3. e[3] = n + o - 1 /\ e[4] = 0
        BY DEF EdgeOf
      <4> HIDE DEF e
      <4> QED BY <3>1, <4>2, <4>3 DEF RestOf
    <3>4. ASSUME NEW d \in Feeds PROVE d = e
      <4>1. LayerEdge(order, d) \/ ResultEdge(order, d)
        BY EdgesExact DEF RestOf
      <4>2. d[3] = n + o - 1
        BY <3>1
      <4>3. CASE LayerEdge(order, d)
        <5>1. PICK k \in 1..n : \E j \in DOMAIN nodes[order[k]].in : d = EdgeOf(order, nodes[order[k]].in[j], k - 1, j - 1)
          BY <1>1, <4>3 DEF LayerEdge
        <5>2. d[3] = k - 1
          BY <5>1 DEF EdgeOf
        <5>3. k - 1 # n + o - 1
          <6> HIDE DEF n
          <6> QED BY <1>1, <3>2
        <5> QED BY <4>2, <5>2, <5>3
      <4>4. CASE ResultEdge(order, d)
        <5>1. PICK u \in DOMAIN graph.outputs : d = EdgeOf(order, graph.outputs[u], n + u - 1, 0)
          BY <4>4 DEF ResultEdge
        <5>2. u \in Nat
          BY ResultEdgeExact
        <5>3. d[3] = n + u - 1
          BY <5>1 DEF EdgeOf
        <5>4. u = o
          <6> HIDE DEF n
          <6> QED BY <1>1, <3>2, <4>2, <5>2, <5>3
        <5> QED BY <5>1, <5>4
      <4> QED BY <4>1, <4>3, <4>4
    <3> HIDE DEF e
    <3>5. Feeds = {e}
      BY <3>3, <3>4
    <3> QED BY <2>1, <3>5
  <2> QED BY <2>2, <2>3
<1> QED BY <1>2, FS_Singleton

\* Every edge leads from an output port of an earlier layer to an input port
\* that declares the same spec.
LEMMA EdgesFit ==
  ASSUME BuildInv, graph # None, NEW order, OrderOk(order), NEW x, LayersOf(x, order), RestOf(x, order),
         NEW e \in x.edges
  PROVE  /\ LayerPort(x, order, <<e[3], e[4]>>) \/ ResultPort(x, order, <<e[3], e[4]>>)
         /\ e[1] < Len(order) /\ e[1] < e[3]
         /\ e[2] \in DOMAIN x.layers[e[1] + 1].out
         /\ x.layers[e[1] + 1].out[e[2]] = IF e[3] < Len(order) THEN x.layers[e[3] + 1].in[e[4] + 1]
                                           ELSE x.results[e[3] - Len(order) + 1]
<1> DEFINE n == Len(order)
<1>1. NodesOk /\ order \in InOrder(nodes) /\ n \in Nat /\ DOMAIN order = 1..n
  <2>1. NodesOk /\ order \in InOrder(nodes) /\ IsList(nodes)
    BY DEF BuildInv, NodesOk, OrderOk
  <2> QED BY <2>1, InOrderTyped
<1>2. LayerEdge(order, e) \/ ResultEdge(order, e)
  BY EdgesExact DEF RestOf
<1>3. CASE LayerEdge(order, e)
  <2>1. PICK k \in 1..n : \E i \in DOMAIN nodes[order[k]].in : e = EdgeOf(order, nodes[order[k]].in[i], k - 1, i - 1)
    BY <1>1, <1>3 DEF LayerEdge
  <2>2. PICK i \in DOMAIN nodes[order[k]].in : e = EdgeOf(order, nodes[order[k]].in[i], k - 1, i - 1)
    BY <2>1
  <2> DEFINE t == nodes[order[k]].in[i]
  <2>3. IsTensor(nodes, t) /\ t[1] \in Range(order) /\ IdOf(order, t[1]) < k /\ i \in Nat \ {0}
    BY <1>1, LayerEdgeExact
  <2>4. /\ e[1] + 1 = IdOf(order, t[1]) /\ e[1] \in 0..(n - 1) /\ e[3] = k - 1 /\ e[4] = i - 1
        /\ e[2] \in DOMAIN x.layers[e[1] + 1].out /\ x.layers[e[1] + 1].out[e[2]] = SpecOf(t)
    <3> DEFINE to == k - 1
               port == i - 1
    <3>1. e = EdgeOf(order, t, to, port)
      BY <2>2
    <3> HIDE DEF to, port
    <3>2. /\ e[1] + 1 = IdOf(order, t[1]) /\ e[1] \in 0..(Len(order) - 1) /\ e[3] = to /\ e[4] = port
          /\ e[2] \in DOMAIN x.layers[e[1] + 1].out /\ x.layers[e[1] + 1].out[e[2]] = SpecOf(t)
      <4> HIDE DEF t, n
      <4> QED BY <1>1, <2>3, <3>1, EdgeFrom
    <3> QED BY <3>2 DEF to, port
  <2>5. i \in DOMAIN x.layers[k].in /\ x.layers[k].in[i] = SpecOf(t)
    BY DEF LayersOf
  <2>6. LayerPort(x, order, <<e[3], e[4]>>)
    BY <2>4, <2>5 DEF LayerPort
  <2> HIDE DEF t, n
  <2>7. e[1] < n /\ e[1] < e[3] /\ e[3] < n /\ e[3] + 1 = k /\ e[4] + 1 = i
    BY <1>1, <2>3, <2>4
  <2> QED BY <2>4, <2>5, <2>6, <2>7 DEF n
<1>4. CASE ResultEdge(order, e)
  <2>1. PICK o \in DOMAIN graph.outputs : e = EdgeOf(order, graph.outputs[o], n + o - 1, 0)
    BY <1>4 DEF ResultEdge
  <2> DEFINE t == graph.outputs[o]
  <2>2. IsTensor(nodes, t) /\ t[1] \in Range(order) /\ o \in Nat \ {0}
    BY ResultEdgeExact
  <2>3. /\ e[1] + 1 = IdOf(order, t[1]) /\ e[1] \in 0..(n - 1) /\ e[3] = n + o - 1 /\ e[4] = 0
        /\ e[2] \in DOMAIN x.layers[e[1] + 1].out /\ x.layers[e[1] + 1].out[e[2]] = SpecOf(t)
    <3> DEFINE to == n + o - 1
    <3>1. e = EdgeOf(order, t, to, 0)
      BY <2>1
    <3> HIDE DEF to
    <3>2. /\ e[1] + 1 = IdOf(order, t[1]) /\ e[1] \in 0..(Len(order) - 1) /\ e[3] = to /\ e[4] = 0
          /\ e[2] \in DOMAIN x.layers[e[1] + 1].out /\ x.layers[e[1] + 1].out[e[2]] = SpecOf(t)
      <4> HIDE DEF t, n
      <4> QED BY <1>1, <2>2, <3>1, EdgeFrom
    <3> QED BY <3>2 DEF to
  <2>4. o \in DOMAIN x.results /\ x.results[o] = SpecOf(t)
    BY DEF RestOf
  <2>5. ResultPort(x, order, <<e[3], e[4]>>)
    BY <2>3, <2>4 DEF ResultPort
  <2> HIDE DEF t, n
  <2>6. e[1] < n /\ e[1] < e[3] /\ ~(e[3] < n) /\ e[3] - n + 1 = o
    BY <1>1, <2>2, <2>3
  <2> QED BY <2>3, <2>4, <2>5, <2>6 DEF n
<1> QED BY <1>2, <1>3, <1>4

\* The weights of the constants, laid one after the other.
LEMMA WeightNat ==
  ASSUME NodesOk, NEW m \in DOMAIN nodes
  PROVE  Weight(m) \in Nat
<1>1. CASE nodes[m].op # "Const"
  BY <1>1 DEF Weight
<1>2. CASE nodes[m].op = "Const"
  <2>1. PICK spec \in InputSpecs : nodes[m].specs = <<spec>>
    BY <1>2 DEF NodesOk, NodeOk
  <2>2. nodes[m].specs[1] = spec
    BY <2>1
  <2>3. spec.shape \in Seq(Nat)
    BY BuildAssumption
  <2>4. Elements(spec.shape) \in Nat
    BY <2>3, ElementsNat
  <2>5. Bytes(spec) \in Nat
    BY <2>4 DEF Bytes
  <2> QED BY <1>2, <2>2, <2>5 DEF Weight
<1> QED BY <1>1, <1>2

Offsets(order, h) == Sums(order, h) /\ \A k \in 1..(Len(order) + 1) : Offset(order, k) = h[k - 1]

LEMMA OffsetsDefined ==
  ASSUME NEW order, IsList(order), \A k \in 1..Len(order) : Weight(order[k]) \in Nat
  PROVE  \E h \in [0..Len(order) -> Nat] : Offsets(order, h)
<1> DEFINE n == Len(order)
<1>1. n \in Nat /\ order \in Seq(Range(order)) /\ \A k \in 1..n : Weight(order[k]) \in Nat
  BY ListExact DEF IsList
<1>2. PICK h \in [0..n -> Nat] : Sums(order, h)
  BY TotalSteps
<1>3. ASSUME NEW k \in 1..(n + 1) PROVE Offset(order, k) = h[k - 1]
  <2> DEFINE m == k - 1
             part == SubSeq(order, 1, m)
  <2>1. m \in 0..n
    <3> HIDE DEF n
    <3> QED BY <1>1
  <2>2. Offset(order, k) = Total(part)
    BY DEF Offset, Total
  <2> HIDE DEF m
  <2>3. m \in Nat /\ \A j \in 1..m : j \in 1..n
    <3> HIDE DEF n
    <3> QED BY <1>1, <2>1
  <2>4. part = [j \in 1..m |-> order[j]]
    <3>1. part = [j \in 1..(1 + m - 1) |-> order[1 + j - 1]]
      BY DEF SubSeq
    <3>2. 1 + m - 1 = m /\ \A j \in 1..m : 1 + j - 1 = j
      BY <2>3
    <3> QED BY <3>1, <3>2
  <2> HIDE DEF part
  <2>5. part = [j \in 1..m |-> part[j]]
    BY <2>4
  <2>6. IsList(part) /\ Len(part) = m /\ \A j \in 1..m : part[j] = order[j]
    BY <2>3, <2>4, <2>5, ListExact
  <2>7. PICK g \in [0..m -> Nat] : Sums(part, g) /\ Total(part) = g[m]
    <3>1. \A j \in 1..Len(part) : Weight(part[j]) \in Nat
      BY <1>1, <2>3, <2>6
    <3>2. \E g \in [0..Len(part) -> Nat] : Sums(part, g) /\ Total(part) = g[Len(part)]
      BY <2>6, <3>1, TotalSteps
    <3> QED BY <2>6, <3>2
  <2> DEFINE T == {j \in 0..m : g[j] = h[j]}
  <2>8. 0 \in T
    <3>1. g[0] = 0 /\ h[0] = 0
      BY <1>2, <2>7 DEF Sums
    <3> QED BY <2>3, <3>1
  <2>9. ASSUME NEW j \in 1..m, j - 1 \in T PROVE j \in T
    <3>1. g[j] = g[j - 1] + Weight(part[j])
      BY <2>6, <2>7 DEF Sums
    <3>2. h[j] = h[j - 1] + Weight(order[j])
      BY <1>2, <2>3 DEF Sums
    <3>3. j \in 0..m /\ g[j - 1] = h[j - 1]
      BY <2>9
    <3> QED BY <2>6, <3>1, <3>2, <3>3
  <2> HIDE DEF T
  <2>10. \A j \in 0..m : j \in T
    BY <2>3, <2>8, <2>9, Upto
  <2>11. g[m] = h[m]
    <3>1. m \in T
      BY <2>3, <2>10
    <3> QED BY <3>1 DEF T
  <2> QED BY <2>2, <2>7, <2>11 DEF m
<1> QED BY <1>2, <1>3 DEF Offsets

LEMMA OffsetsGrow ==
  ASSUME NEW n \in Nat, NEW h \in [0..n -> Nat], \A k \in 1..n : h[k - 1] <= h[k]
  PROVE  \A i, j \in 0..n : i <= j => h[i] <= h[j]
<1> SUFFICES ASSUME NEW i \in 0..n PROVE \A j \in 0..n : i <= j => h[i] <= h[j]
  OBVIOUS
<1> DEFINE T == {j \in 0..n : i <= j => h[i] <= h[j]}
<1>1. 0 \in T
  OBVIOUS
<1>2. ASSUME NEW j \in 1..n, j - 1 \in T PROVE j \in T
  <2>1. h[j] \in Nat /\ h[j - 1] \in Nat /\ h[i] \in Nat /\ h[j - 1] <= h[j] /\ j \in 0..n
    OBVIOUS
  <2>2. CASE i <= j - 1
    BY <1>2, <2>1, <2>2
  <2>3. CASE ~(i <= j - 1)
    <3>1. i <= j => i = j
      BY <2>1, <2>3
    <3>2. i <= j => h[i] <= h[j]
      BY <2>1, <3>1
    <3> QED BY <2>1, <3>2
  <2> QED BY <2>2, <2>3
<1> HIDE DEF T
<1>3. \A j \in 0..n : j \in T
  BY <1>1, <1>2, Upto
<1> QED BY <1>3 DEF T

\* The regions of the weights.
RegionsOf(x) == {x.layers[l].data : l \in DOMAIN x.layers} \ {<<>>}
Holding(x, byte) == {r \in RegionsOf(x) : byte \in r[1]..(r[1] + r[2] - 1)}

LEMMA WeightsTile ==
  ASSUME NodesOk, NEW order \in InOrder(nodes), NEW x, LayersOf(x, order), DataOf(x, order), RestOf(x, order)
  PROVE  /\ \A byte \in 0..(x.weights - 1) : Cardinality(Holding(x, byte)) = 1
         /\ \A r \in RegionsOf(x) : r[1] + r[2] <= x.weights
<1> DEFINE n == Len(order)
<1>1. IsList(order) /\ n \in Nat /\ DOMAIN x.layers = 1..n /\ \A k \in 1..n : Weight(order[k]) \in Nat
  <2>1. IsList(nodes)
    BY DEF NodesOk
  <2>2. /\ order \in Seq(DOMAIN nodes) /\ Range(order) \subseteq DOMAIN nodes /\ DOMAIN order = 1..n /\ n \in Nat
    BY <2>1, InOrderTyped
  <2>3. IsList(order)
    <3>1. order = [k \in 1..n |-> order[k]]
      BY <2>2
    <3> HIDE DEF n
    <3> QED BY <2>2, <3>1, ListExact
  <2>4. ASSUME NEW k \in 1..n PROVE Weight(order[k]) \in Nat
    <3>1. order[k] \in DOMAIN nodes
      BY <2>2 DEF Range
    <3> QED BY <3>1, WeightNat
  <2> QED BY <2>2, <2>3, <2>4 DEF LayersOf
<1>2. PICK h \in [0..n -> Nat] : Offsets(order, h)
  BY <1>1, OffsetsDefined
<1>3. /\ h[0] = 0 /\ \A k \in 1..n : h[k] = h[k - 1] + Weight(order[k])
      /\ \A k \in 1..(n + 1) : Offset(order, k) = h[k - 1]
  BY <1>2 DEF Offsets, Sums
<1>4. x.weights = h[n]
  <2>1. x.weights = Offset(order, n + 1)
    BY DEF RestOf
  <2> HIDE DEF n
  <2> DEFINE k == n + 1
  <2>2. k \in 1..(n + 1) /\ k - 1 = n
    BY <1>1
  <2>3. x.weights = Offset(order, k)
    BY <2>1
  <2> HIDE DEF k
  <2>4. Offset(order, k) = h[k - 1]
    BY <1>3, <2>2
  <2> QED BY <2>2, <2>3, <2>4
<1> DEFINE region(l) == <<h[l - 1], Weight(order[l])>>
<1>5. ASSUME NEW l \in 1..n
      PROVE  x.layers[l].data = IF nodes[order[l]].op = "Const" THEN region(l) ELSE <<>>
  <2>1. Offset(order, l) = h[l - 1]
    <3> HIDE DEF n
    <3> QED BY <1>1, <1>3
  <2> QED BY <2>1 DEF DataOf
<1>6. \A i, j \in 0..n : i <= j => h[i] <= h[j]
  <2>1. ASSUME NEW k \in 1..n PROVE h[k - 1] <= h[k]
    <3>1. h[k] = h[k - 1] + Weight(order[k]) /\ Weight(order[k]) \in Nat
      BY <1>1, <1>3
    <3>2. k - 1 \in 0..n
      <4> HIDE DEF n
      <4> QED BY <1>1
    <3>3. h[k - 1] \in Nat
      <4> HIDE DEF n
      <4> QED BY <1>2, <3>2
    <3> QED BY <3>1, <3>3
  <2> HIDE DEF n
  <2> QED BY <1>1, <1>2, <2>1, OffsetsGrow
<1>7. ASSUME NEW r \in RegionsOf(x)
      PROVE  \E l \in 1..n : r = region(l) /\ nodes[order[l]].op = "Const"
  <2>1. PICK l \in 1..n : r = x.layers[l].data /\ r # <<>>
    BY <1>1 DEF RegionsOf
  <2> HIDE DEF region, n
  <2> QED BY <1>5, <2>1
<1>8. ASSUME NEW l \in 1..n
      PROVE  /\ region(l)[1] = h[l - 1] /\ h[l - 1] \in Nat /\ h[l] \in Nat
             /\ region(l)[1] + region(l)[2] = h[l] /\ region(l)[2] \in Nat
  <2>1. l - 1 \in 0..n /\ l \in 0..n
    <3> HIDE DEF n
    <3> QED BY <1>1
  <2>2. h[l - 1] \in Nat /\ h[l] \in Nat
    <3> HIDE DEF n
    <3> QED BY <1>2, <2>1
  <2>3. h[l] = h[l - 1] + Weight(order[l])
    BY <1>3
  <2>4. region(l)[1] = h[l - 1] /\ region(l)[2] = Weight(order[l])
    OBVIOUS
  <2>5. Weight(order[l]) \in Nat
    BY <1>1
  <2> QED BY <2>2, <2>3, <2>4, <2>5
<1>9. ASSUME NEW l \in 1..n, nodes[order[l]].op = "Const" PROVE region(l) \in RegionsOf(x)
  <2>1. x.layers[l].data = region(l)
    BY <1>5, <1>9
  <2>2. region(l) # <<>>
    OBVIOUS
  <2> HIDE DEF region
  <2> QED BY <1>1, <2>1, <2>2 DEF RegionsOf
<1>10. ASSUME NEW r \in RegionsOf(x) PROVE r[1] + r[2] <= x.weights
  <2>1. PICK l \in 1..n : r = region(l)
    BY <1>7
  <2>2. r[1] + r[2] = h[l]
    <3> HIDE DEF region
    <3> QED BY <1>8, <2>1
  <2>3. l \in 0..n /\ n \in 0..n /\ l <= n
    <3> HIDE DEF n
    <3> QED BY <1>1
  <2> HIDE DEF n
  <2> QED BY <1>4, <1>6, <2>2, <2>3
<1>11. ASSUME NEW byte \in 0..(x.weights - 1) PROVE Cardinality(Holding(x, byte)) = 1
  <2> DEFINE S == {l \in 0..n : h[l] > byte}
  <2>1. byte \in Nat /\ h[n] \in Nat /\ byte < h[n]
    <3>1. h[n] \in Nat
      <4> HIDE DEF n
      <4> QED BY <1>1, <1>2
    <3> HIDE DEF n
    <3> QED BY <1>4, <3>1
  <2>2. n \in S /\ S \in SUBSET Nat
    <3> HIDE DEF n
    <3> QED BY <1>1, <2>1
  <2>3. PICK l \in S : \A k \in S : l <= k
    <3> HIDE DEF S
    <3> QED BY <2>2, LeastOf
  <2>4. l \in 0..n /\ h[l] > byte
    BY <2>3
  <2>5. l # 0
    BY <1>3, <2>1, <2>4
  <2>6. l \in 1..n /\ l - 1 \in 0..n /\ ~(l <= l - 1)
    <3> HIDE DEF n
    <3> QED BY <1>1, <2>4, <2>5
  <2>7. h[l - 1] <= byte
    <3>1. l - 1 \notin S
      <4> HIDE DEF S
      <4> QED BY <2>3, <2>6
    <3>2. ~(h[l - 1] > byte)
      BY <2>6, <3>1
    <3>3. h[l - 1] \in Nat
      BY <1>8, <2>6
    <3> QED BY <2>1, <3>2, <3>3
  <2>8. nodes[order[l]].op = "Const"
    <3>1. h[l] = h[l - 1] + Weight(order[l]) /\ h[l] \in Nat /\ h[l - 1] \in Nat
      BY <1>3, <1>8, <2>6
    <3>2. Weight(order[l]) # 0
      BY <2>1, <2>4, <2>7, <3>1
    <3> QED BY <3>2 DEF Weight
  <2> DEFINE r == region(l)
  <2>9. r \in Holding(x, byte)
    <3>1. r \in RegionsOf(x)
      BY <1>9, <2>6, <2>8
    <3>2. r[1] = h[l - 1] /\ r[1] + r[2] = h[l] /\ r[2] \in Nat /\ h[l - 1] \in Nat /\ h[l] \in Nat
      BY <1>8, <2>6
    <3> HIDE DEF r
    <3>3. byte \in r[1]..(r[1] + r[2] - 1)
      <4>1. byte \in h[l - 1]..(h[l] - 1)
        BY <2>1, <2>4, <2>7, <3>2
      <4>2. r[1] + r[2] - 1 = h[l] - 1
        BY <3>2
      <4> QED BY <3>2, <4>1, <4>2
    <3> QED BY <3>1, <3>3 DEF Holding
  <2>10. ASSUME NEW d \in Holding(x, byte) PROVE d = r
    <3>1. d \in RegionsOf(x) /\ byte \in d[1]..(d[1] + d[2] - 1)
      BY DEF Holding
    <3>2. PICK k \in 1..n : d = region(k)
      BY <1>7, <3>1
    <3>3. d[1] = h[k - 1] /\ d[1] + d[2] = h[k] /\ d[2] \in Nat /\ h[k - 1] \in Nat /\ h[k] \in Nat
      <4> HIDE DEF region
      <4> QED BY <1>8, <3>2
    <3>4. h[k - 1] <= byte /\ byte < h[k]
      <4>1. d[1] + d[2] - 1 = h[k] - 1
        BY <3>3
      <4>2. byte \in h[k - 1]..(h[k] - 1)
        BY <3>1, <3>3, <4>1
      <4> QED BY <2>1, <3>3, <4>2
    <3>5. k \in 0..n /\ k - 1 \in 0..n /\ l \in Int /\ k \in Int
      <4> HIDE DEF n
      <4> QED BY <1>1, <2>4
    <3>6. ~(k < l)
      <4>1. SUFFICES ASSUME k < l PROVE FALSE
        OBVIOUS
      <4>2. k <= l - 1
        BY <3>5, <4>1
      <4>3. h[k] <= h[l - 1]
        BY <1>6, <2>6, <3>5, <4>2
      <4>4. h[l - 1] \in Nat
        BY <1>8, <2>6
      <4> QED BY <2>1, <2>7, <3>3, <3>4, <4>3, <4>4
    <3>7. ~(l < k)
      <4>1. SUFFICES ASSUME l < k PROVE FALSE
        OBVIOUS
      <4>2. l <= k - 1
        BY <3>5, <4>1
      <4>3. h[l] <= h[k - 1]
        BY <1>6, <2>4, <3>5, <4>2
      <4>4. h[l] \in Nat
        BY <1>8, <2>6
      <4> QED BY <2>1, <2>4, <3>3, <3>4, <4>3, <4>4
    <3>8. k = l
      BY <3>5, <3>6, <3>7
    <3> QED BY <3>2, <3>8
  <2> HIDE DEF r
  <2>11. Holding(x, byte) = {r}
    BY <2>9, <2>10
  <2>12. \A y : Cardinality({y}) = 1
    BY FS_Singleton
  <2> QED BY <2>11, <2>12
<1> QED BY <1>10, <1>11

\* The IR of a graph is an IR.
LEMMA SerializedExact ==
  ASSUME BuildInv, graph # None, NEW carriers
  PROVE  IsIr(Serialized(carriers))
<1> DEFINE order == TopologicalNodes(nodes, graph.outputs)
           x == Serialized(carriers)
           n == Len(order)
<1>1. OrderOk(order)
  BY OrderMade
<1>2. IsList(nodes) /\ NodesOk /\ order \in InOrder(nodes)
  BY <1>1 DEF BuildInv, NodesOk, OrderOk
<1>3. DOMAIN order = 1..n /\ n \in Nat
  <2> HIDE DEF order
  <2> QED BY <1>2, InOrderTyped
<1>4. LayersOf(x, order) /\ DataOf(x, order) /\ RestOf(x, order)
  <2>1. order = TopologicalNodes(nodes, graph.outputs) /\ x = Serialized(carriers)
    OBVIOUS
  <2> HIDE DEF order, x
  <2> QED BY <1>3, <2>1, SerializedParts
<1> HIDE DEF order, x
<1>5. DOMAIN x.layers = 1..n /\ Len(x.layers) = n
  BY <1>4 DEF LayersOf
<1> DEFINE count == Len(x.layers)
           Ports == {<<count + o - 1, 0>> : o \in DOMAIN x.results}
                    \cup UNION {{<<l - 1, p - 1>> : p \in DOMAIN x.layers[l].in} : l \in DOMAIN x.layers}
           Declared(port) == IF port[1] < count THEN x.layers[port[1] + 1].in[port[2] + 1]
                             ELSE x.results[port[1] - count + 1]
           Regions == {x.layers[l].data : l \in DOMAIN x.layers} \ {<<>>}
<1>6. \A port : port \in Ports <=> LayerPort(x, order, port) \/ ResultPort(x, order, port)
  <2> DEFINE Fed == UNION {{<<l - 1, p - 1>> : p \in DOMAIN x.layers[l].in} : l \in DOMAIN x.layers}
             Out == {<<count + o - 1, 0>> : o \in DOMAIN x.results}
  <2>1. ASSUME NEW port PROVE port \in Fed <=> LayerPort(x, order, port)
    BY <1>5 DEF LayerPort
  <2>2. ASSUME NEW port PROVE port \in Out <=> ResultPort(x, order, port)
    BY <1>5 DEF ResultPort
  <2>3. Ports = Out \cup Fed
    OBVIOUS
  <2> HIDE DEF Ports, Fed, Out
  <2> QED BY <2>1, <2>2, <2>3
<1>7. ASSUME NEW port \in Ports PROVE Quantify(x.edges, LAMBDA e : <<e[3], e[4]>> = port) = 1
  <2>1. LayerPort(x, order, port) \/ ResultPort(x, order, port)
    BY <1>6
  <2>2. Cardinality({e \in x.edges : <<e[3], e[4]>> = port}) = 1
    <3> HIDE DEF n, Ports
    <3> QED BY <1>1, <1>4, <2>1, PortsFed
  <2> QED BY <2>2 DEF Quantify
<1>8. ASSUME NEW e \in x.edges
      PROVE  /\ <<e[3], e[4]>> \in Ports
             /\ e[1] < count /\ e[1] < e[3]
             /\ e[2] \in DOMAIN x.layers[e[1] + 1].out
             /\ x.layers[e[1] + 1].out[e[2]] = Declared(<<e[3], e[4]>>)
  <2>1. /\ LayerPort(x, order, <<e[3], e[4]>>) \/ ResultPort(x, order, <<e[3], e[4]>>)
        /\ e[1] < Len(order) /\ e[1] < e[3]
        /\ e[2] \in DOMAIN x.layers[e[1] + 1].out
        /\ x.layers[e[1] + 1].out[e[2]] = IF e[3] < Len(order) THEN x.layers[e[3] + 1].in[e[4] + 1]
                                          ELSE x.results[e[3] - Len(order) + 1]
    BY <1>1, <1>4, EdgesFit
  <2>2. <<e[3], e[4]>> \in Ports
    <3> HIDE DEF Ports
    <3> QED BY <1>6, <2>1
  <2>3. count = Len(order)
    BY <1>5
  <2>4. Declared(<<e[3], e[4]>>) = IF e[3] < Len(order) THEN x.layers[e[3] + 1].in[e[4] + 1]
                                   ELSE x.results[e[3] - Len(order) + 1]
    <3> HIDE DEF count
    <3> QED BY <2>3
  <2> HIDE DEF Ports, Declared, count
  <2> QED BY <2>1, <2>2, <2>3, <2>4
<1>9. Regions = RegionsOf(x)
  BY DEF RegionsOf
<1>10. ASSUME NEW b \in 0..(x.weights - 1)
       PROVE  Quantify(Regions, LAMBDA r : b \in r[1]..(r[1] + r[2] - 1)) = 1
  <2>1. Cardinality(Holding(x, b)) = 1
    BY <1>2, <1>4, WeightsTile
  <2> HIDE DEF Regions
  <2>2. {r \in Regions : b \in r[1]..(r[1] + r[2] - 1)} = Holding(x, b)
    BY <1>9 DEF Holding
  <2> QED BY <2>1, <2>2 DEF Quantify
<1>11. \A r \in Regions : r[1] + r[2] <= x.weights
  <2> HIDE DEF Regions
  <2> QED BY <1>2, <1>4, <1>9, WeightsTile
<1>12. IsIr(x)
  <2> HIDE DEF n
  <2> QED BY <1>7, <1>8, <1>10, <1>11 DEF IsIr
<1> QED BY <1>12 DEF x

LEMMA BuildInit == BInit => BuildInv
<1> SUFFICES ASSUME BInit PROVE BuildInv
  OBVIOUS
<1>1. nodes = <<>> /\ graph = None /\ ir = None
  BY DEF BInit
<1>2. IsList(nodes) /\ DOMAIN nodes = {}
  BY <1>1 DEF IsList
<1> QED BY <1>1, <1>2 DEF BuildInv, NodesOk, GraphOk, IrOk

\* Adding a node.
LEMMA AddNodeKeeps ==
  ASSUME BuildInv, NEW kind, NEW ins, NEW specs, NEW carrier, AddNode(kind, ins, specs, carrier),
         IsList(ins), IsList(specs), \A i \in DOMAIN ins : IsTensor(nodes, ins[i]),
         kind = "Const" => \E spec \in InputSpecs : specs = <<spec>>
  PROVE  BuildInv'
<1> DEFINE n == Len(nodes) + 1
           new == [op |-> kind, in |-> ins, specs |-> specs, carrier |-> carrier]
<1>1. graph = None /\ nodes' = Append(nodes, new) /\ graph' = graph /\ ir' = ir
  BY DEF AddNode
<1>2. ir = None
  BY <1>1 DEF BuildInv, IrOk
<1>3. nodes \in Seq(Range(nodes)) /\ DOMAIN nodes = 1..Len(nodes) /\ Len(nodes) \in Nat
  BY ListExact DEF BuildInv, NodesOk, IsList
<1>4. /\ DOMAIN nodes' = 1..n /\ nodes'[n] = new /\ \A k \in DOMAIN nodes : nodes'[k] = nodes[k]
      /\ nodes' = [k \in 1..n |-> nodes'[k]]
  <2> DEFINE S == Range(nodes) \cup {new}
             len == Len(nodes)
  <2> HIDE DEF new
  <2>1. \A i \in 1..len : nodes[i] \in S
    BY <1>3 DEF Range
  <2>2. nodes \in [1..len -> S]
    BY <1>3, <2>1
  <2>3. nodes \in Seq(S) /\ new \in S
    BY <1>3, <2>2, SeqDef
  <2> HIDE DEF S
  <2> DEFINE r == Append(nodes, new)
  <2>4. r \in Seq(S) /\ Len(r) = len + 1 /\ r[len + 1] = new /\ \A i \in 1..len : r[i] = nodes[i]
    BY <2>3, AppendProperties
  <2> HIDE DEF r, len
  <2>5. DOMAIN r = 1..n /\ r = [i \in 1..n |-> r[i]]
    <3>1. r \in [1..Len(r) -> S]
      BY <2>4
    <3> QED BY <2>4, <3>1 DEF len
  <2>6. nodes' = r
    BY <1>1 DEF r, new
  <2>7. DOMAIN nodes = 1..len /\ n = len + 1
    BY <1>3 DEF len
  <2> HIDE DEF n
  <2>8. DOMAIN nodes' = 1..n /\ nodes' = [i \in 1..n |-> nodes'[i]]
    BY <2>5, <2>6
  <2>9. nodes'[n] = new
    BY <2>4, <2>6, <2>7
  <2>10. ASSUME NEW i \in DOMAIN nodes PROVE nodes'[i] = nodes[i]
    BY <2>4, <2>6, <2>7
  <2> QED BY <2>8, <2>9, <2>10
<1>5. IsList(nodes')
  <2>1. n \in Nat
    BY <1>3
  <2>2. nodes' = [k \in 1..n |-> nodes'[k]]
    BY <1>4
  <2> HIDE DEF n, new
  <2> QED BY <2>1, <2>2, ListExact
<1>6. ASSUME NEW t, IsTensor(nodes, t) PROVE IsTensor(nodes', t)
  <2>1. t[1] \in DOMAIN nodes /\ t[1] \in DOMAIN nodes'
    BY <1>3, <1>4, <1>6 DEF IsTensor
  <2> QED BY <1>4, <1>6, <2>1 DEF IsTensor
<1>7. ASSUME NEW k \in DOMAIN nodes' PROVE NodeOk(nodes', k)
  <2>1. CASE k \in DOMAIN nodes
    <3>1. NodeOk(nodes, k) /\ nodes'[k] = nodes[k]
      BY <1>4, <2>1 DEF BuildInv, NodesOk
    <3> QED BY <1>6, <3>1 DEF NodeOk
  <2>2. CASE k \notin DOMAIN nodes
    <3>1. k = n /\ n - 1 = Len(nodes)
      BY <1>3, <1>4, <2>2
    <3>2. /\ nodes'[k].in = ins /\ nodes'[k].specs = specs /\ nodes'[k].op = kind
      BY <1>4, <3>1
    <3>3. \A i \in DOMAIN ins : IsTensor(nodes', ins[i]) /\ ins[i][1] \in 1..(k - 1)
      BY <1>3, <1>6, <3>1 DEF IsTensor
    <3> QED BY <3>2, <3>3 DEF NodeOk
  <2> QED BY <2>1, <2>2
<1> QED BY <1>1, <1>2, <1>5, <1>7 DEF BuildInv, NodesOk, GraphOk, IrOk

LEMMA TensorOk ==
  ASSUME NodesOk, NEW t \in Tensors
  PROVE  IsTensor(nodes, t)
BY DEF Tensors, IsTensor

LEMMA Singles ==
  ASSUME NEW x
  PROVE  IsList(<<x>>) /\ DOMAIN <<x>> = {1} /\ <<x>>[1] = x
<1>1. <<x>> \in Seq({x}) /\ DOMAIN <<x>> = {1}
  OBVIOUS
<1>2. Range(<<x>>) = {x}
  BY <1>1 DEF Range
<1> QED BY <1>1, <1>2 DEF IsList

LEMMA Pairs ==
  ASSUME NEW x, NEW y
  PROVE  IsList(<<x, y>>) /\ DOMAIN <<x, y>> = {1, 2} /\ <<x, y>>[1] = x /\ <<x, y>>[2] = y
<1>1. <<x, y>> \in Seq({x, y}) /\ DOMAIN <<x, y>> = {1, 2} /\ <<x, y>>[1] = x /\ <<x, y>>[2] = y
  OBVIOUS
<1>2. Range(<<x, y>>) = {x, y}
  BY <1>1 DEF Range
<1> QED BY <1>1, <1>2 DEF IsList

\* What op() takes for the specs of the outputs is a list.
LEMMA MadeSpecs ==
  ASSUME NEW kind, NEW ins, NEW meta, NEW attrs, NEW specs \in OutputSpecs(kind, ins, meta, attrs),
         meta.outputs = {}, ~(meta.shape = {} /\ meta.dtype = {})
  PROVE  IsList(specs)
<1>1. specs \in UNION {UNION {One(TensorSpec(s, d)) : d \in meta.dtype} : s \in meta.shape}
  BY DEF OutputSpecs
<1>2. \E x : specs = <<x>>
  BY <1>1 DEF One
<1> QED BY <1>2, Singles

LEMMA GivenSpecs ==
  ASSUME NEW kind, NEW ins, NEW meta, NEW attrs, NEW specs \in OutputSpecs(kind, ins, meta, attrs),
         meta.outputs # {}
  PROVE  specs \in meta.outputs
BY DEF OutputSpecs

LEMMA SameSpecs ==
  ASSUME NEW ins, Len(ins) = 1, NEW attrs, NEW specs \in OutputSpecs("Relu", ins, NoMeta, attrs)
  PROVE  IsList(specs)
<1> DEFINE spec(t) == [shape |-> t.shape, dtype |-> t.dtype]
<1>1. NoMeta.outputs = {} /\ NoMeta.shape = {} /\ NoMeta.dtype = {}
  BY DEF NoMeta
<1>2. "Relu" \in SameSpecUnary
  BY DEF SameSpecUnary
<1>3. OutputSpecs("Relu", ins, NoMeta, attrs) = {<<spec(ins[1])>>}
  BY <1>1, <1>2 DEF OutputSpecs
<1> QED BY <1>3, Singles

\* The operators of a graph are not constants.
LEMMA OpKeeps ==
  ASSUME BuildInv, NEW kind, kind # "Const", NEW ins, IsList(ins), \A i \in DOMAIN ins : IsTensor(nodes, ins[i]),
         NEW meta, NEW attrs, NEW carrier,
         NEW specs \in OutputSpecs(kind, [i \in DOMAIN ins |-> Symbolic(ins[i])], meta, attrs), IsList(specs),
         AddNode(kind, ins, specs, carrier)
  PROVE  BuildInv'
BY AddNodeKeeps

LEMMA UnaryKeeps ==
  ASSUME BuildInv, NEW t \in Tensors,
         \/ Op("Relu", <<t>>, NoMeta, <<>>)
         \/ Op("TopK", <<t>>, [NoMeta EXCEPT !.outputs = {<<SpecOf(t), SpecOf(t)>>}], <<>>)
  PROVE  BuildInv'
<1> DEFINE ins == <<t>>
           symbolic == [i \in DOMAIN ins |-> Symbolic(ins[i])]
<1>1. IsList(ins) /\ \A i \in DOMAIN ins : IsTensor(nodes, ins[i])
  <2>1. IsTensor(nodes, t)
    BY TensorOk DEF BuildInv
  <2> QED BY <2>1, Singles
<1>2. Len(symbolic) = 1
  <2>1. symbolic \in [1..1 -> {Symbolic(t)}]
    BY Singles
  <2>2. symbolic \in Seq({Symbolic(t)})
    BY <2>1, SeqDef
  <2> HIDE DEF symbolic
  <2> QED BY <2>1, <2>2
<1>3. ASSUME Op("Relu", ins, NoMeta, <<>>) PROVE BuildInv'
  <2>1. PICK specs \in OutputSpecs("Relu", symbolic, NoMeta, <<>>) : AddNode("Relu", ins, specs, None)
    BY <1>3 DEF Op
  <2>2. IsList(specs)
    <3> HIDE DEF symbolic
    <3> QED BY <1>2, SameSpecs
  <2> HIDE DEF ins
  <2> QED BY <1>1, <2>1, <2>2, AddNodeKeeps
<1> DEFINE meta == [NoMeta EXCEPT !.outputs = {<<SpecOf(t), SpecOf(t)>>}]
<1>4. ASSUME Op("TopK", ins, meta, <<>>) PROVE BuildInv'
  <2>1. PICK specs \in OutputSpecs("TopK", symbolic, meta, <<>>) : AddNode("TopK", ins, specs, None)
    BY <1>4 DEF Op
  <2>2. meta.outputs = {<<SpecOf(t), SpecOf(t)>>}
    BY DEF NoMeta
  <2>3. specs = <<SpecOf(t), SpecOf(t)>>
    <3> HIDE DEF symbolic, meta
    <3>1. specs \in meta.outputs
      BY <2>2, GivenSpecs
    <3> QED BY <2>2, <3>1
  <2>4. IsList(specs)
    BY <2>3, Pairs
  <2> HIDE DEF ins
  <2> QED BY <1>1, <2>1, <2>4, AddNodeKeeps
<1> QED BY <1>3, <1>4

LEMMA BinaryKeeps ==
  ASSUME BuildInv, NEW t \in Tensors, NEW u \in Tensors, Binary("Add", t, u)
  PROVE  BuildInv'
<1> DEFINE ins == <<t, u>>
           symbolic == [i \in DOMAIN ins |-> Symbolic(ins[i])]
           meta == [NoMeta EXCEPT !.shape = {SpecOf(t).shape}, !.dtype = {SpecOf(t).dtype}]
<1>1. IsList(ins) /\ \A i \in DOMAIN ins : IsTensor(nodes, ins[i])
  <2>1. IsTensor(nodes, t) /\ IsTensor(nodes, u)
    BY TensorOk DEF BuildInv
  <2> QED BY <2>1, Pairs
<1>2. meta.outputs = {} /\ meta.shape # {}
  BY DEF NoMeta
<1>3. PICK specs \in OutputSpecs("Add", symbolic, meta, <<>>) : AddNode("Add", ins, specs, None)
  BY DEF Binary, Op
<1> HIDE DEF ins, symbolic, meta
<1>4. IsList(specs)
  BY <1>2, MadeSpecs
<1> QED BY <1>1, <1>3, <1>4, AddNodeKeeps

LEMMA SequencesOk ==
  ASSUME BuildInv, NEW n \in Nat, NEW ins \in TensorSeqs(n)
  PROVE  IsList(ins) /\ \A i \in DOMAIN ins : IsTensor(nodes, ins[i])
<1>1. PICK k \in 1..n : ins \in [1..k -> Tensors]
  BY DEF TensorSeqs
<1>2. IsList(ins)
  <2>1. ins = [i \in 1..k |-> ins[i]] /\ k \in Nat
    BY <1>1
  <2> QED BY <2>1, ListExact
<1>3. \A i \in DOMAIN ins : ins[i] \in Tensors
  BY <1>1
<1> QED BY <1>2, <1>3, TensorOk DEF BuildInv

LEMMA CustomKeeps ==
  ASSUME BuildInv, NEW ins \in TensorSeqs(2), NEW carrier, Custom(ins, carrier, TRUE, FALSE)
  PROVE  BuildInv'
<1> DEFINE symbolic == [i \in DOMAIN ins |-> Symbolic(ins[i])]
           meta == CustomMeta(ins, carrier)
<1>1. IsList(ins) /\ \A i \in DOMAIN ins : IsTensor(nodes, ins[i])
  BY SequencesOk
<1>2. meta.outputs = {} /\ meta.dtype # {}
  BY DEF CustomMeta, NoMeta
<1>3. PICK specs \in OutputSpecs("Custom", symbolic, meta, <<>>) : AddNode("Custom", ins, specs, carrier)
  BY DEF Custom
<1> HIDE DEF symbolic, meta
<1>4. IsList(specs)
  BY <1>2, MadeSpecs
<1> QED BY <1>1, <1>3, <1>4, AddNodeKeeps

LEMMA GivenKeeps ==
  ASSUME BuildInv, NEW spec \in InputSpecs, Input(spec) \/ Constant(spec)
  PROVE  BuildInv'
<1>1. IsList(<<>>) /\ DOMAIN <<>> = {}
  BY DEF IsList
<1>2. IsList(<<spec>>)
  BY Singles
<1>3. CASE Input(spec)
  BY <1>1, <1>2, <1>3, AddNodeKeeps DEF Input
<1>4. CASE Constant(spec)
  BY <1>1, <1>2, <1>4, AddNodeKeeps DEF Constant
<1> QED BY <1>3, <1>4

LEMMA MakeGraphKeeps ==
  ASSUME BuildInv, NEW inputs, NEW outputs \in TensorSeqs(MaxOutputs), MakeGraph(inputs, outputs)
  PROVE  BuildInv'
<1>1. graph = None /\ graph' = [inputs |-> inputs, outputs |-> outputs] /\ nodes' = nodes /\ ir' = ir
  BY DEF MakeGraph
<1>2. ir = None
  BY <1>1 DEF BuildInv, IrOk
<1>3. MaxOutputs \in Nat
  BY BuildAssumption
<1>4. IsList(outputs) /\ \A i \in DOMAIN outputs : IsTensor(nodes, outputs[i])
  BY <1>3, SequencesOk
<1>5. graph'.outputs = outputs
  BY <1>1
<1>6. GraphOk'
  BY <1>1, <1>4, <1>5 DEF GraphOk
<1>7. NodesOk'
  BY <1>1 DEF BuildInv, NodesOk
<1> QED BY <1>1, <1>2, <1>6, <1>7 DEF BuildInv, IrOk

LEMMA SerializeKeeps ==
  ASSUME BuildInv, SerializeIr
  PROVE  BuildInv'
<1>1. graph # None /\ ir' = Serialized(OwnCarriers) /\ nodes' = nodes /\ graph' = graph
  BY DEF SerializeIr
<1>2. IsIr(ir')
  BY <1>1, SerializedExact
<1> QED BY <1>1, <1>2 DEF BuildInv, NodesOk, GraphOk, IrOk

LEMMA BuildSame ==
  ASSUME BuildInv, nodes' = nodes, graph' = graph, ir' = ir
  PROVE  BuildInv'
BY DEF BuildInv, NodesOk, GraphOk, IrOk

LEMMA BuildStep == BuildInv /\ [BNext]_bvars => BuildInv'
<1> SUFFICES ASSUME BuildInv, [BNext]_bvars PROVE BuildInv'
  OBVIOUS
<1>1. CASE \E spec \in InputSpecs : Input(spec) \/ Constant(spec)
  BY <1>1, GivenKeeps
<1>2. CASE \E t \in Tensors :
             \/ Op("Relu", <<t>>, NoMeta, <<>>)
             \/ Op("TopK", <<t>>, [NoMeta EXCEPT !.outputs = {<<SpecOf(t), SpecOf(t)>>}], <<>>)
  BY <1>2, UnaryKeeps
<1>3. CASE \E t, u \in Tensors : Binary("Add", t, u)
  BY <1>3, BinaryKeeps
<1>4. CASE \E in \in TensorSeqs(2), carrier \in Carriers : Custom(in, carrier, TRUE, FALSE)
  BY <1>4, CustomKeeps
<1>5. CASE \E inputs \in TensorSeqs(2), outputs \in TensorSeqs(MaxOutputs) : MakeGraph(inputs, outputs)
  BY <1>5, MakeGraphKeeps
<1>6. CASE SerializeIr
  BY <1>6, SerializeKeeps
<1>7. CASE \E n \in DOMAIN nodes, carrier \in Carriers : SerializeProbe(n, carrier)
  BY <1>7, BuildSame DEF SerializeProbe
<1>8. CASE UNCHANGED bvars
  BY <1>8, BuildSame DEF bvars
<1> QED BY <1>1, <1>2, <1>3, <1>4, <1>5, <1>6, <1>7, <1>8 DEF BNext

\* An IR is well formed: its layers are the nodes that the outputs depend on,
\* each once and after the nodes it reads; every input port of a layer or of a
\* result is fed by one edge, from an output port of an earlier layer with the
\* same spec, and the constants tile the weights without gap or overlap
\* (graph.py _topological_nodes, ir.py serialize_ir).
THEOREM GraphKept == BSpec => []IrWellFormed
<1>1. BInit => BuildInv
  BY BuildInit
<1>2. BuildInv /\ [BNext]_bvars => BuildInv'
  BY BuildStep
<1>3. BuildInv => IrWellFormed
  <2> SUFFICES ASSUME BuildInv PROVE IrWellFormed
    OBVIOUS
  <2>1. TopologicalOnce
    <3> SUFFICES ASSUME graph # None PROVE TopologicalOnce
      BY DEF TopologicalOnce
    <3> DEFINE order == TopologicalNodes(nodes, graph.outputs)
    <3>1. OrderOk(order)
      BY OrderMade
    <3>2. IsList(nodes)
      BY DEF BuildInv, NodesOk
    <3> HIDE DEF order
    <3>3. /\ Distinct(order)
          /\ Range(order) = Above({t[1] : t \in Range(graph.outputs)})
          /\ \A i, j \in DOMAIN order : order[j] \in {t[1] : t \in Range(nodes[order[i]].in)} => j < i
      BY <3>1, <3>2, OrderIsTopological
    <3> QED BY <3>3 DEF order, TopologicalOnce
  <2> QED BY <2>1 DEF IrWellFormed, BuildInv, IrOk
<1> QED BY <1>1, <1>2, <1>3, PTL DEF BSpec
=============================================================================
