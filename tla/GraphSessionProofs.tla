------------------------- MODULE GraphSessionProofs -------------------------
(***************************************************************************)
(* Proofs about GraphSession, for every number of threads, buffers,        *)
(* addresses and arguments, and whatever the driver asks for.              *)
(***************************************************************************)
EXTENDS GraphSession, SequenceTheorems, FiniteSetTheorems, TLAPS

(***************************************************************************)
(* The inductive invariant behind the recording: what the command list     *)
(* holds, what the device still has to run, and what the call that is      *)
(* being executed knows about both.                                        *)
(***************************************************************************)

ExecuteOn(allocations) == <<[initialize |-> FALSE, bind |-> allocations]>>

\* A recording is a closed list that executes on the remembered allocations; a list that is
\* open has nothing in it, unless a failure left it so or it is about to be closed.
ListInv ==
  /\ recorded => listClosed /\ list = ExecuteOn(executeAllocations)
  /\ ~listClosed /\ ~failed /\ (\A t \in Threads : pc[t] # "close") => list = <<>>

\* The device is idle unless a call waits for it or a submission has failed.
IdleInv ==
  ~failed /\ (\A t \in Threads : pc[t] # "wait") => inflight = <<>>

Submitting == {"resetlist", "resetfence", "append", "close", "execute", "wait", "complete"}

\* What a call has established at each point of its submission.
CallInv(t) ==
  /\ pc[t] \in Submitting => ~failed
  /\ pc[t] \in {"prepare", "preinit", "setargs"} => ~call[t].initialize
  /\ pc[t] \in {"locked", "preinit", "setargs"} => ~call[t].reuse
  /\ pc[t] \in Submitting \cup {"submit"} /\ call[t].reuse =>
       ~call[t].initialize /\ recorded /\ executeAllocations = call[t].want
  /\ pc[t] \in {"submit", "resetlist", "resetfence", "append"} /\ ~call[t].reuse =>
       ~recorded /\ arguments = call[t].want
  /\ pc[t] \in {"close", "execute", "wait", "complete"} /\ ~call[t].reuse =>
       ~recorded /\ list = <<[initialize |-> call[t].initialize, bind |-> call[t].want]>>
  /\ pc[t] \in {"resetfence", "append"} /\ ~call[t].reuse => ~listClosed
  /\ pc[t] \in {"append", "close"} => ~call[t].reuse
  /\ pc[t] = "close" => ~listClosed
  /\ pc[t] \in {"execute", "wait", "complete"} => listClosed
  /\ pc[t] = "wait" =>
       \/ inflight = list
       \/ inflight = <<>> /\ (call[t].initialize \/ lastRun = call[t].want)
  /\ pc[t] = "complete" =>
       inflight = <<>> /\ ~call[t].initialize /\ lastRun = call[t].want
  /\ pc[t] \in {"idle", "enter", "locked"} => ~call[t].initialize /\ ~call[t].reuse

RecordingInv == ListInv /\ IdleInv /\ \A t \in Threads : CallInv(t)

-----------------------------------------------------------------------------
(***************************************************************************)
(* Types.                                                                  *)
(***************************************************************************)

ShapeOK == FlagsOK /\ SessionOK /\ ClientOK /\ DriverOK

USE SessionAssumption

\* The call records the client can start with.
LEMMA NoCallOK ==
  /\ NoCall \in Calls /\ CallOK(NoCall) /\ NoCall.kind = "none"
  /\ ~NoCall.initialize /\ ~NoCall.reuse
BY DEF NoCall, CallOK, Calls, NoAllocations, Allocation, Args, Kinds

\* What a command of the list is made of.
LEMMA CommandTyped ==
  ASSUME NEW i \in BOOLEAN, NEW b \in [Args -> Allocation]
  PROVE  [initialize |-> i, bind |-> b] \in Commands
BY DEF Commands

\* The initial state has the types.
LEMMA InitShape == Init => ShapeOK
<1> SUFFICES ASSUME Init PROVE ShapeOK
  OBVIOUS
<1>1. FlagsOK
  BY DEF Init, FlagsOK
<1>2. SessionOK
  BY DEF Init, SessionOK, NoAllocations, Allocation
<1>3. ClientOK
  BY NoCallOK DEF Init, ClientOK, Allocation
<1>4. DriverOK
  BY DEF Init, DriverOK, NoAllocations, Allocation
<1> QED
  BY <1>1, <1>2, <1>3, <1>4 DEF ShapeOK

\* What a thread's step does to the client's part, when it leaves the buffers alone.
LEMMA ClientKept ==
  ASSUME ClientOK, NEW t \in Threads, UNCHANGED <<session, buffers>>,
         NEW p \in Locked \cup {"idle", "enter", "unref"}, pc' = [pc EXCEPT ![t] = p],
         NEW c, CallOK(c), call' = [call EXCEPT ![t] = c]
  PROVE  ClientOK'
BY DEF ClientOK, CallOK

\* Every step keeps the types (but for the contents of memory, which depend on what the
\* device is told to run).
LEMMA NextShape == ShapeOK /\ [Next]_vars => ShapeOK'
<1> SUFFICES ASSUME ShapeOK, [Next]_vars PROVE ShapeOK'
  OBVIOUS
<1> USE DEF ShapeOK
<1>f. FlagsOK'
  <2> USE DEF FlagsOK, flags, memory, driver, executeFrame, Leave, Go
  <2>1. CASE Create
    BY <2>1 DEF Create
  <2>2. ASSUME NEW t \in Threads, Client(t) PROVE FlagsOK'
    BY <2>2 DEF Client, CallShared, CallCopied, CallCreateBuffer, CallReleaseBuffer,
                CallReleaseSession, Use, Begin
  <2>3. ASSUME NEW t \in Threads, Enter(t) \/ Unref(t) PROVE FlagsOK'
    BY <2>3 DEF Enter, Unref
  <2>4. ASSUME NEW t \in Threads, Holder(t) PROVE FlagsOK'
    BY <2>4 DEF Holder, Refuse, CreateBuffer, ReleaseBuffer, ReleaseSession, BindShared,
                BindCopied, Prepare, PreInit, SetArguments, RefuseSubmission, CreateResources,
                ResetList, ResetFence, AppendCommand, CloseList, Execute, SubmissionFails,
                FenceSignalled, Complete
  <2>5. CASE DeviceRun
    BY <2>5 DEF DeviceRun
  <2>6. CASE UNCHANGED vars
    BY <2>6 DEF vars
  <2> QED
    BY <2>1, <2>2, <2>3, <2>4, <2>5, <2>6 DEF Next
<1>s. SessionOK'
  <2> USE DEF SessionOK, flags, memory, driver, executeFrame, Leave, Go, Allocation
  <2>1. CASE Create
    BY <2>1 DEF Create
  <2>2. ASSUME NEW t \in Threads, Client(t) PROVE SessionOK'
    BY <2>2 DEF Client, CallShared, CallCopied, CallCreateBuffer, CallReleaseBuffer,
                CallReleaseSession, Use, Begin
  <2>3. ASSUME NEW t \in Threads, Enter(t) \/ Unref(t) PROVE SessionOK'
    BY <2>3 DEF Enter, Unref, LastReference, NoAllocations
  <2>4. ASSUME NEW t \in Threads, Holder(t) PROVE SessionOK'
    <3>1. CASE Refuse(t) \/ CreateBuffer(t) \/ ReleaseBuffer(t) \/ ReleaseSession(t)
      BY <3>1 DEF Refuse, CreateBuffer, CountBuffer, ReleaseBuffer, ReleaseSession
    <3>2. CASE BindShared(t) \/ BindCopied(t)
      BY <3>2 DEF BindShared, BindCopied
    <3>3. CASE Prepare(t) \/ PreInit(t) \/ SetArguments(t) \/ RefuseSubmission(t)
      BY <3>3 DEF Prepare, PreInit, SetArguments, RefuseSubmission
    <3>4. CASE \/ CreateResources(t) \/ ResetList(t) \/ ResetFence(t) \/ AppendCommand(t)
               \/ CloseList(t) \/ Execute(t) \/ SubmissionFails(t) \/ FenceSignalled(t)
      BY <3>4 DEF CreateResources, ResetList, ResetFence, AppendCommand, CloseList, Execute,
                  SubmissionFails, FenceSignalled
    <3>5. CASE Complete(t)
      BY <3>5 DEF Complete, ClientOK, Calls
    <3> QED
      BY <2>4, <3>1, <3>2, <3>3, <3>4, <3>5 DEF Holder
  <2>5. CASE DeviceRun
    BY <2>5 DEF DeviceRun
  <2>6. CASE UNCHANGED vars
    BY <2>6 DEF vars
  <2> QED
    BY <2>1, <2>2, <2>3, <2>4, <2>5, <2>6 DEF Next
<1>c. ClientOK'
  <2>1. CASE Create
    BY <2>1 DEF Create, ClientOK, CallOK
  <2>2. ASSUME NEW t \in Threads, Client(t) PROVE ClientOK'
    <3>1. ASSUME NEW c, CallOK(c), Begin(t, c), session' \in {session, "released"}
          PROVE  ClientOK'
      BY <3>1 DEF Begin, ClientOK, CallOK
    <3>2. CASE CallShared(t)
      <4>1. PICK b \in [Args -> Buffers] :
              Use(t, [NoCall EXCEPT !.kind = "shared", !.binding = b])
        BY <3>2 DEF CallShared
      <4>2. CallOK([NoCall EXCEPT !.kind = "shared", !.binding = b])
        BY NoCallOK DEF CallOK, Calls, Kinds
      <4> QED
        BY <3>1, <4>1, <4>2 DEF Use
    <3>3. CASE CallCopied(t)
      <4>1. PICK d \in [Inputs -> Data] :
              Use(t, [NoCall EXCEPT !.kind = "copied", !.data = d])
        BY <3>3 DEF CallCopied
      <4>2. CallOK([NoCall EXCEPT !.kind = "copied", !.data = d])
        BY NoCallOK DEF CallOK, Calls, Kinds
      <4> QED
        BY <3>1, <4>1, <4>2 DEF Use
    <3>4. CASE CallCreateBuffer(t)
      <4>1. PICK b \in Buffers : Use(t, [NoCall EXCEPT !.kind = "create_buffer", !.buffer = b])
        BY <3>4 DEF CallCreateBuffer
      <4>2. CallOK([NoCall EXCEPT !.kind = "create_buffer", !.buffer = b])
        BY NoCallOK DEF CallOK, Calls, Kinds
      <4> QED
        BY <3>1, <4>1, <4>2 DEF Use
    <3>5. CASE CallReleaseBuffer(t)
      <4>1. PICK b \in Buffers : /\ Begin(t, [NoCall EXCEPT !.kind = "release_buffer",
                                                           !.buffer = b])
                                 /\ UNCHANGED session
        BY <3>5 DEF CallReleaseBuffer, Live
      <4>2. CallOK([NoCall EXCEPT !.kind = "release_buffer", !.buffer = b])
        BY NoCallOK DEF CallOK, Calls, Kinds
      <4> QED
        BY <3>1, <4>1, <4>2
    <3>6. CASE CallReleaseSession(t)
      <4>1. CallOK([NoCall EXCEPT !.kind = "release_session"])
        BY NoCallOK DEF CallOK, Calls, Kinds
      <4> QED
        BY <3>1, <3>6, <4>1 DEF CallReleaseSession
    <3> QED
      BY <2>2, <3>2, <3>3, <3>4, <3>5, <3>6 DEF Client
  <2>3. ASSUME NEW t \in Threads, Enter(t) \/ Unref(t) PROVE ClientOK'
    <3>1. CASE Enter(t)
      BY <2>3, <3>1 DEF Enter, ClientOK, Locked, CallOK
    <3>2. CASE Unref(t)
      <4>1. /\ pc' = [pc EXCEPT ![t] = "idle"] /\ call' = [call EXCEPT ![t] = NoCall]
            /\ session' = session
        BY <3>2 DEF Unref
      <4>2. \A b \in Buffers :
              (IF Kind(t) = "release_buffer" /\ b = call[t].buffer THEN Null ELSE buffers[b])
                \in Allocation
        BY DEF ClientOK, Allocation
      <4>3. buffers' \in [Buffers -> Allocation]
        BY <3>2, <4>2 DEF Unref
      <4> QED
        BY <4>1, <4>3, NoCallOK DEF ClientOK, CallOK
    <3> QED
      BY <2>3, <3>1, <3>2
  <2>4. ASSUME NEW t \in Threads, Holder(t) PROVE ClientOK'
    <3>1. CallOK(call[t])
      BY DEF ClientOK
    <3>2. ASSUME Leave(t), UNCHANGED <<session, buffers>> PROVE ClientOK'
      BY <3>2, NoCallOK, ClientKept DEF Leave
    <3>3. ASSUME NEW p \in Locked \cup {"idle", "enter", "unref"}, pc' = [pc EXCEPT ![t] = p],
                 UNCHANGED <<session, buffers, call>>
          PROVE  ClientOK'
      BY <3>3 DEF ClientOK, CallOK
    <3>4. ASSUME NEW w \in [Args -> Allocation], call' = [call EXCEPT ![t].want = w],
                 NEW p \in Locked, pc' = [pc EXCEPT ![t] = p], UNCHANGED <<session, buffers>>
          PROVE  ClientOK'
      <4>1. CallOK([call[t] EXCEPT !.want = w])
        BY <3>1 DEF CallOK, Calls
      <4>2. call' = [call EXCEPT ![t] = [call[t] EXCEPT !.want = w]]
        BY <3>4
      <4> QED
        BY <3>4, <4>1, <4>2, ClientKept
    <3>5. ASSUME NEW r \in BOOLEAN, call' = [call EXCEPT ![t].reuse = r],
                 NEW p \in Locked, pc' = [pc EXCEPT ![t] = p], UNCHANGED <<session, buffers>>
          PROVE  ClientOK'
      <4>1. CallOK([call[t] EXCEPT !.reuse = r])
        BY <3>1 DEF CallOK, Calls
      <4>2. call' = [call EXCEPT ![t] = [call[t] EXCEPT !.reuse = r]]
        BY <3>5
      <4> QED
        BY <3>5, <4>1, <4>2, ClientKept
    <3>6. ASSUME NEW i \in BOOLEAN, call' = [call EXCEPT ![t].initialize = i],
                 NEW p \in Locked, pc' = [pc EXCEPT ![t] = p], UNCHANGED <<session, buffers>>
          PROVE  ClientOK'
      <4>1. CallOK([call[t] EXCEPT !.initialize = i])
        BY <3>1 DEF CallOK, Calls
      <4>2. call' = [call EXCEPT ![t] = [call[t] EXCEPT !.initialize = i]]
        BY <3>6
      <4> QED
        BY <3>6, <4>1, <4>2, ClientKept
    <3> USE DEF executeFrame, Go, Locked
    <3>7. CASE Refuse(t) \/ RefuseSubmission(t) \/ SubmissionFails(t) \/ Complete(t)
      BY <3>2, <3>7 DEF Refuse, RefuseSubmission, SubmissionFails, Complete
    <3>8. CASE CreateBuffer(t)
      <4>1. CASE UNCHANGED buffers
        BY <3>2, <3>8, <4>1 DEF CreateBuffer
      <4>2. CASE \E a \in Addresses : /\ buffers' = [buffers EXCEPT ![call[t].buffer] = a]
                                      /\ Leave(t)
        <5>1. buffers' \in [Buffers -> Allocation]
          BY <4>2 DEF ClientOK, Allocation
        <5>2. /\ session' = session
              /\ pc' = [pc EXCEPT ![t] = "idle"]
              /\ call' = [call EXCEPT ![t] = NoCall]
          BY <3>8, <4>2 DEF CreateBuffer, Leave
        <5> QED
          BY <5>1, <5>2, NoCallOK DEF ClientOK, CallOK
      <4> QED
        BY <3>8, <4>1, <4>2 DEF CreateBuffer
    <3>9. CASE ReleaseBuffer(t)
      BY <3>9 DEF ReleaseBuffer, ClientOK, Allocation, CallOK
    <3>10. CASE ReleaseSession(t)
      BY <3>10, <3>3 DEF ReleaseSession
    <3>11. CASE BindShared(t)
      <4>1. [a \in Args |-> buffers[call[t].binding[a]]] \in [Args -> Allocation]
        BY <3>1, <3>11 DEF BindShared, ClientOK, CallOK, Kind
      <4> QED
        BY <3>4, <3>11, <4>1 DEF BindShared
    <3>12. CASE BindCopied(t)
      <4>1. ASSUME NEW w \in [Args -> Allocation], call' = [call EXCEPT ![t].want = w],
                   Go(t, "prepare")
            PROVE  ClientOK'
        BY <3>4, <3>12, <4>1 DEF BindCopied
      <4>2. ASSUME Leave(t) PROVE ClientOK'
        BY <3>2, <3>12, <4>2 DEF BindCopied
      <4>3. ASSUME NEW where \in [Args -> {a \in Addresses : owner[a] = "free"}]
            PROVE  where \in [Args -> Allocation]
        BY DEF Allocation
      <4> HIDE DEF Go
      <4> QED
        BY <3>12, <4>1, <4>2, <4>3 DEF BindCopied, SessionOK
    <3>13. CASE Prepare(t)
      <4>1. SameRecording(call[t].want) \in BOOLEAN
        BY DEF SameRecording, FlagsOK
      <4> QED
        BY <3>5, <3>13, <4>1 DEF Prepare
    <3>14. CASE PreInit(t)
      BY <3>2, <3>3, <3>6, <3>14 DEF PreInit
    <3>15. CASE \/ SetArguments(t) \/ CreateResources(t)
      BY <3>2, <3>3, <3>15 DEF SetArguments, CreateResources
    <3>16. CASE \/ ResetList(t) \/ ResetFence(t) \/ AppendCommand(t) \/ CloseList(t)
                \/ Execute(t)
      BY <3>3, <3>16 DEF ResetList, ResetFence, AppendCommand, CloseList, Execute
    <3>17. CASE FenceSignalled(t)
      BY <3>3, <3>6, <3>17 DEF FenceSignalled
    <3> QED
      BY <2>4, <3>7, <3>8, <3>9, <3>10, <3>11, <3>12, <3>13, <3>14, <3>15, <3>16, <3>17
         DEF Holder
  <2>5. CASE DeviceRun
    BY <2>5 DEF DeviceRun, ClientOK, CallOK
  <2>6. CASE UNCHANGED vars
    BY <2>6 DEF vars, ClientOK, CallOK
  <2> QED
    BY <2>1, <2>2, <2>3, <2>4, <2>5, <2>6 DEF Next
<1>d. DriverOK'
  <2> USE DEF DriverOK, flags, memory, driver, executeFrame, Leave, Go
  <2>1. CASE Create
    BY <2>1 DEF Create
  <2>2. ASSUME NEW t \in Threads, Client(t) PROVE DriverOK'
    BY <2>2 DEF Client, CallShared, CallCopied, CallCreateBuffer, CallReleaseBuffer,
                CallReleaseSession, Use, Begin
  <2>3. ASSUME NEW t \in Threads, Enter(t) \/ Unref(t) PROVE DriverOK'
    <3>1. UNCHANGED driver
      BY <2>3 DEF Enter, Unref
    <3>2. resources' = resources \/ resources' = {}
      BY <2>3 DEF Enter, Unref
    <3>3. \/ owner' = owner
          \/ owner' = [a \in Addresses |-> IF owner[a] = "copied" THEN "free" ELSE owner[a]]
      BY <2>3 DEF Enter, Unref
    <3> QED
      BY <3>1, <3>2, <3>3
  <2>4. ASSUME NEW t \in Threads, Holder(t) PROVE DriverOK'
    <3>1. call[t].want \in [Args -> Allocation] /\ call[t].initialize \in BOOLEAN
      BY DEF ClientOK, Calls
    <3>2. ASSUME NEW count, SetFirst(count, call[t].want) PROVE arguments' \in [Args -> Allocation]
      BY <3>1, <3>2 DEF SetFirst
    <3>3. CASE Refuse(t) \/ CreateBuffer(t) \/ ReleaseBuffer(t) \/ ReleaseSession(t)
      BY <3>3 DEF Refuse, CreateBuffer, ReleaseBuffer, ReleaseSession
    <3>4. CASE BindShared(t) \/ BindCopied(t) \/ Prepare(t) \/ RefuseSubmission(t)
      BY <3>4 DEF BindShared, BindCopied, Prepare, RefuseSubmission
    <3>5. CASE PreInit(t) \/ SetArguments(t)
      BY <3>2, <3>5 DEF PreInit, SetArguments
    <3>6. CASE CreateResources(t)
      BY <3>6 DEF CreateResources, SubmissionResources
    <3>7. CASE ResetList(t)
      <4>1. list' = <<>> \/ list' = list
        BY <3>7 DEF ResetList
      <4>2. list' \in Seq(Commands)
        BY <4>1, EmptySeq DEF DriverOK
      <4> QED
        BY <3>7, <4>2 DEF ResetList
    <3>8. CASE AppendCommand(t)
      <4> DEFINE c == [initialize |-> call[t].initialize, bind |-> arguments]
      <4>1. c \in Commands
        <5>1. call[t].initialize \in BOOLEAN
          BY <3>1
        <5>2. arguments \in [Args -> Allocation]
          OBVIOUS
        <5> QED
          BY <5>1, <5>2, CommandTyped, Zenon
      <4>2. list' = Append(list, c) /\ UNCHANGED <<resources, owner, arguments, inflight, lastRun>>
        BY <3>8 DEF AppendCommand
      <4> HIDE DEF c
      <4>3. Append(list, c) \in Seq(Commands)
        BY <4>1, AppendProperties DEF DriverOK
      <4> QED
        BY <4>2, <4>3
    <3>9. CASE Execute(t)
      BY <3>9 DEF Execute
    <3>10. CASE \/ ResetFence(t) \/ CloseList(t) \/ SubmissionFails(t) \/ FenceSignalled(t)
                \/ Complete(t)
      BY <3>10 DEF ResetFence, CloseList, SubmissionFails, FenceSignalled, Complete
    <3> QED
      BY <2>4, <3>3, <3>4, <3>5, <3>6, <3>7, <3>8, <3>9, <3>10 DEF Holder
  <2>5. CASE DeviceRun
    <3>1. Head(inflight) \in Commands /\ Tail(inflight) \in Seq(Commands)
      BY <2>5, HeadTailProperties DEF DeviceRun
    <3>2. Head(inflight).bind \in [Args -> Allocation]
      BY <3>1 DEF Commands
    <3> QED
      BY <2>5, <3>1, <3>2 DEF DeviceRun
  <2>6. CASE UNCHANGED vars
    BY <2>6 DEF vars
  <2> QED
    BY <2>1, <2>2, <2>3, <2>4, <2>5, <2>6 DEF Next
<1> QED
  BY <1>f, <1>s, <1>c, <1>d

\* The types hold in every state that the session, its clients and the device reach.
THEOREM ShapeCorrect == Spec => []ShapeOK
<1> QED
  BY InitShape, NextShape, PTL DEF Spec

-----------------------------------------------------------------------------
(***************************************************************************)
(* Mutual exclusion.                                                       *)
(***************************************************************************)

\* A step inside of the critical section either stays in it or gives the lock back.
LEMMA HolderLock ==
  ASSUME ShapeOK, NEW t \in Threads, Holder(t)
  PROVE  /\ pc[t] \in Locked
         /\ \/ \E p \in Locked : Go(t, p)
            \/ lock' = NoThread /\ \E p \in {"idle", "unref"} : pc' = [pc EXCEPT ![t] = p]
<1> USE DEF Locked
<1>1. CASE Refuse(t) \/ CreateBuffer(t) \/ ReleaseBuffer(t) \/ ReleaseSession(t)
  BY <1>1 DEF Refuse, CreateBuffer, ReleaseBuffer, ReleaseSession, AtLocked, Leave
<1>2. CASE BindShared(t) \/ BindCopied(t) \/ Complete(t) \/ RefuseSubmission(t)
  BY <1>2 DEF BindShared, BindCopied, Complete, RefuseSubmission, AtLocked, Leave
<1>3. CASE Prepare(t)
  BY <1>3 DEF Prepare
<1>4. CASE PreInit(t) \/ SetArguments(t) \/ CreateResources(t)
  BY <1>4 DEF PreInit, SetArguments, CreateResources, Leave
<1>5. CASE ResetList(t) \/ ResetFence(t) \/ AppendCommand(t) \/ CloseList(t) \/ Execute(t)
  BY <1>5 DEF ResetList, ResetFence, AppendCommand, CloseList, Execute
<1>6. CASE SubmissionFails(t) \/ FenceSignalled(t)
  BY <1>6 DEF SubmissionFails, FenceSignalled, DriverCall, Leave
<1> QED
  BY <1>1, <1>2, <1>3, <1>4, <1>5, <1>6 DEF Holder

\* Every step keeps mutual exclusion.
LEMMA NextSerialized == ShapeOK /\ Serialized /\ [Next]_vars => Serialized'
<1> SUFFICES ASSUME ShapeOK, Serialized, [Next]_vars PROVE Serialized'
  OBVIOUS
<1>p. pc \in [Threads -> Locked \cup {"idle", "enter", "unref"}]
  BY DEF ShapeOK, ClientOK
<1> USE DEF Serialized, Locked
<1>1. CASE Create \/ DeviceRun \/ UNCHANGED vars
  BY <1>1 DEF Create, DeviceRun, vars
<1>2. ASSUME NEW t \in Threads, Client(t) PROVE Serialized'
  <2>1. pc[t] = "idle" /\ pc' = [pc EXCEPT ![t] = "enter"] /\ UNCHANGED lock
    BY <1>2 DEF Client, CallShared, CallCopied, CallCreateBuffer, CallReleaseBuffer,
                CallReleaseSession, Use, Begin
  <2> QED
    BY <1>p, <2>1
<1>3. ASSUME NEW t \in Threads, Enter(t) PROVE Serialized'
  BY <1>p, <1>3 DEF Enter
<1>4. ASSUME NEW t \in Threads, Holder(t) PROVE Serialized'
  <2>1. /\ pc[t] \in Locked
        /\ \/ \E p \in Locked : Go(t, p)
           \/ lock' = NoThread /\ \E p \in {"idle", "unref"} : pc' = [pc EXCEPT ![t] = p]
    BY <1>4, HolderLock
  <2>2. lock = t
    BY <2>1
  <2> QED
    BY <1>p, <2>1, <2>2 DEF Go
<1>5. ASSUME NEW t \in Threads, Unref(t) PROVE Serialized'
  BY <1>p, <1>5 DEF Unref
<1> QED
  BY <1>1, <1>2, <1>3, <1>4, <1>5 DEF Next

\* Calls on one session are serialized, for any number of threads and whatever fails.
THEOREM SerializedCorrect == Spec => []Serialized
<1>1. Init => Serialized
  BY DEF Init, Serialized, Locked
<1> QED
  BY <1>1, ShapeCorrect, NextSerialized, PTL DEF Spec

-----------------------------------------------------------------------------
(***************************************************************************)
(* The recording.                                                          *)
(***************************************************************************)

\* A thread outside of the critical section knows nothing about the recording.
LEMMA Bystander ==
  ASSUME NEW u \in Threads, CallInv(u), pc[u] \notin Locked,
         pc'[u] = pc[u], call'[u] = call[u]
  PROVE  CallInv(u)'
BY DEF CallInv, Locked, Submitting

\* A thread that starts or ends a call has nothing recorded for it either.
LEMMA OutsideCall ==
  ASSUME NEW u \in Threads, pc'[u] \in {"idle", "enter", "locked", "unref"},
         ~call'[u].initialize, ~call'[u].reuse
  PROVE  CallInv(u)'
BY DEF CallInv, Submitting

\* A thread's step changes its own program counter and call only.
LEMMA HolderOthers ==
  ASSUME ShapeOK, NEW t \in Threads, Holder(t), NEW u \in Threads \ {t}
  PROVE  pc'[u] = pc[u] /\ call'[u] = call[u]
<1>1. pc'[u] = pc[u]
  BY HolderLock DEF Go, ShapeOK, ClientOK
<1>2. call'[u] = call[u]
  <2> USE DEF ShapeOK, ClientOK, Leave
  <2>1. CASE Refuse(t) \/ CreateBuffer(t) \/ ReleaseBuffer(t) \/ ReleaseSession(t)
    BY <2>1 DEF Refuse, CreateBuffer, ReleaseBuffer, ReleaseSession
  <2>2. CASE BindShared(t) \/ BindCopied(t) \/ Complete(t) \/ RefuseSubmission(t)
    BY <2>2 DEF BindShared, BindCopied, Complete, RefuseSubmission
  <2>3. CASE Prepare(t)
    BY <2>3 DEF Prepare
  <2>4. CASE PreInit(t) \/ SetArguments(t) \/ CreateResources(t)
    BY <2>4 DEF PreInit, SetArguments, CreateResources
  <2>5. CASE ResetList(t) \/ ResetFence(t) \/ AppendCommand(t) \/ CloseList(t) \/ Execute(t)
    BY <2>5 DEF ResetList, ResetFence, AppendCommand, CloseList, Execute
  <2>6. CASE SubmissionFails(t) \/ FenceSignalled(t)
    BY <2>6 DEF SubmissionFails, FenceSignalled
  <2> QED
    BY <2>1, <2>2, <2>3, <2>4, <2>5, <2>6 DEF Holder
<1> QED
  BY <1>1, <1>2

\* Setting every argument makes them the ones that were asked for.
LEMMA SetAll ==
  ASSUME NEW want \in [Args -> Allocation], SetFirst(ArgumentCount, want)
  PROVE  arguments' = want
BY DEF SetFirst, Args

\* A step that returns from the call keeps the invariant, if what it leaves behind does.
LEMMA LeaveRecording ==
  ASSUME ShapeOK, NEW t \in Threads, Leave(t)
  PROVE  CallInv(t)' /\ pc'[t] = "idle"
<1>1. pc'[t] = "idle" /\ call'[t] = NoCall
  BY DEF Leave, ShapeOK, ClientOK
<1> QED
  BY <1>1, OutsideCall, NoCallOK

\* Every step inside of the critical section keeps the invariant.
LEMMA HolderRecording ==
  ASSUME ShapeOK, Serialized, RecordingInv, NEW t \in Threads, Holder(t)
  PROVE  RecordingInv'
<1> USE DEF RecordingInv
<1>1. \A u \in Threads \ {t} : pc'[u] = pc[u] /\ call'[u] = call[u] /\ pc[u] \notin Locked
  BY HolderOthers, HolderLock DEF Serialized
<1>2. \A u \in Threads \ {t} : pc'[u] \notin {"close", "wait"} /\ pc[u] \notin {"close", "wait"}
  BY <1>1 DEF Locked
<1>3. SUFFICES ListInv' /\ IdleInv' /\ CallInv(t)'
  <2>1. \A u \in Threads \ {t} : CallInv(u)'
    BY <1>1, Bystander
  <2> QED
    BY <2>1
<1>t. /\ pc \in [Threads -> Locked \cup {"idle", "enter", "unref"}]
      /\ call \in [Threads -> Calls]
      /\ call[t].want \in [Args -> Allocation]
  BY DEF ShapeOK, ClientOK, Calls
<1>4. CASE Refuse(t) \/ CreateBuffer(t) \/ ReleaseBuffer(t) \/ ReleaseSession(t)
  <2>1. /\ pc[t] = "locked" /\ pc'[t] \in {"idle", "unref"}
        /\ call'[t] = NoCall \/ call'[t] = call[t]
        /\ UNCHANGED <<recorded, listClosed, list, failed, inflight, executeAllocations>>
    BY <1>4, <1>t DEF Refuse, CreateBuffer, ReleaseBuffer, ReleaseSession, AtLocked, Leave,
                      flags, driver
  <2>2. ~call'[t].initialize /\ ~call'[t].reuse
    BY <2>1, NoCallOK DEF CallInv
  <2>3. CallInv(t)'
    BY <2>1, <2>2, OutsideCall
  <2> QED
    BY <1>2, <2>1, <2>3 DEF ListInv, IdleInv
<1>5. CASE BindShared(t) \/ BindCopied(t)
  <2>1. /\ pc[t] = "locked"
        /\ UNCHANGED <<recorded, listClosed, list, failed, inflight, executeAllocations>>
    BY <1>5 DEF BindShared, BindCopied, AtLocked, flags, driver
  <2>2. \/ Leave(t)
        \/ /\ pc'[t] = "prepare"
           /\ call'[t].initialize = call[t].initialize
    BY <1>5, <1>t DEF BindShared, BindCopied, Go, Calls
  <2>3. CallInv(t)' /\ pc'[t] \in {"idle", "prepare"}
    BY <2>1, <2>2, LeaveRecording DEF CallInv, Submitting
  <2> QED
    BY <1>2, <2>1, <2>3 DEF ListInv, IdleInv
<1>6. CASE Prepare(t)
  <2>1. /\ pc[t] = "prepare"
        /\ pc'[t] = IF ~initialized THEN "preinit"
                    ELSE IF call'[t].reuse THEN "submit" ELSE "setargs"
        /\ call'[t].reuse <=> initialized /\ recorded /\ executeAllocations = call[t].want
        /\ call'[t].initialize = call[t].initialize
        /\ call'[t].want = call[t].want
        /\ UNCHANGED <<recorded, listClosed, list, failed, inflight, executeAllocations>>
    <3> DEFINE reuse == SameRecording(call[t].want)
    <3>1. /\ call' = [call EXCEPT ![t].reuse = reuse]
          /\ Go(t, IF ~initialized THEN "preinit" ELSE IF reuse THEN "submit" ELSE "setargs")
          /\ pc[t] = "prepare"
          /\ UNCHANGED <<recorded, listClosed, list, failed, inflight, executeAllocations>>
      BY <1>6 DEF Prepare, flags, driver
    <3>2. reuse <=> initialized /\ recorded /\ executeAllocations = call[t].want
      BY DEF SameRecording
    <3> HIDE DEF reuse
    <3>3. call'[t].reuse = reuse /\ call'[t].initialize = call[t].initialize
          /\ call'[t].want = call[t].want
      BY <3>1, <1>t DEF Calls
    <3> QED
      BY <3>1, <3>2, <3>3, <1>t DEF Go
  <2>2. CallInv(t)'
    BY <2>1 DEF CallInv, Submitting
  <2> QED
    BY <1>2, <2>1, <2>2 DEF ListInv, IdleInv
<1>7. CASE PreInit(t)
  <2>1. /\ pc[t] = "preinit"
        /\ UNCHANGED <<listClosed, list, failed, inflight, executeAllocations>>
    BY <1>7 DEF PreInit
  <2>2. \/ Leave(t) /\ UNCHANGED recorded
        \/ /\ pc'[t] = "submit" /\ recorded' = FALSE /\ arguments' = call[t].want
           /\ call'[t].want = call[t].want /\ call'[t].reuse = call[t].reuse
        \/ pc'[t] = "setargs" /\ UNCHANGED <<recorded, call>>
    BY <1>7, <1>t, SetAll DEF PreInit, Go, Calls
  <2>3. CallInv(t)' /\ pc'[t] \in {"idle", "submit", "setargs"} /\ (recorded' => recorded)
    BY <2>1, <2>2, LeaveRecording DEF CallInv, Submitting
  <2> QED
    BY <1>2, <2>1, <2>3 DEF ListInv, IdleInv
<1>8. CASE SetArguments(t)
  <2>1. /\ pc[t] = "setargs" /\ recorded' = FALSE
        /\ UNCHANGED <<listClosed, list, failed, inflight, executeAllocations>>
    BY <1>8 DEF SetArguments
  <2>2. \/ Leave(t)
        \/ pc'[t] = "submit" /\ arguments' = call[t].want /\ UNCHANGED call
    BY <1>8, <1>t, SetAll DEF SetArguments, Go
  <2>3. CallInv(t)' /\ pc'[t] \in {"idle", "submit"}
    BY <2>1, <2>2, LeaveRecording DEF CallInv, Submitting
  <2> QED
    BY <1>2, <2>1, <2>3 DEF ListInv, IdleInv
<1>9. CASE RefuseSubmission(t) \/ CreateResources(t)
  <2>1. /\ pc[t] = "submit"
        /\ UNCHANGED <<recorded, listClosed, list, failed, inflight, executeAllocations, arguments>>
    BY <1>9 DEF RefuseSubmission, CreateResources, flags, driver
  <2>2. \/ Leave(t)
        \/ pc'[t] = "resetlist" /\ ~failed /\ UNCHANGED call
    BY <1>9, <1>t DEF RefuseSubmission, CreateResources, Go, Poisoned
  <2>3. CallInv(t)' /\ pc'[t] \in {"idle", "resetlist"}
    BY <2>1, <2>2, LeaveRecording DEF CallInv, Submitting
  <2> QED
    BY <1>2, <2>1, <2>3 DEF ListInv, IdleInv
<1>10. CASE ResetList(t)
  <2>1. /\ pc[t] = "resetlist" /\ pc'[t] = "resetfence" /\ UNCHANGED call
        /\ UNCHANGED <<recorded, failed, inflight, executeAllocations, arguments>>
        /\ IF ~call[t].reuse /\ listClosed
             THEN list' = <<>> /\ listClosed' = FALSE
             ELSE UNCHANGED <<list, listClosed>>
    BY <1>10, <1>t DEF ResetList, Go, MustReset
  <2>2. CallInv(t)'
    BY <2>1 DEF CallInv, Submitting, ShapeOK, FlagsOK
  <2> QED
    BY <1>2, <2>1, <2>2 DEF ListInv, IdleInv, CallInv, Submitting
<1>11. CASE ResetFence(t)
  <2>1. /\ pc[t] = "resetfence" /\ UNCHANGED call
        /\ pc'[t] = IF call[t].reuse THEN "execute" ELSE "append"
        /\ UNCHANGED <<recorded, listClosed, list, failed, inflight, executeAllocations, arguments>>
    BY <1>11, <1>t DEF ResetFence, Go, driver
  <2>2. CallInv(t)'
    BY <2>1 DEF CallInv, Submitting, ListInv
  <2> QED
    BY <1>2, <2>1, <2>2 DEF ListInv, IdleInv
<1>12. CASE AppendCommand(t)
  <2>1. /\ pc[t] = "append" /\ pc'[t] = "close" /\ UNCHANGED call
        /\ list' = Append(list, [initialize |-> call[t].initialize, bind |-> arguments])
        /\ UNCHANGED <<recorded, listClosed, failed, inflight, executeAllocations>>
    BY <1>12, <1>t DEF AppendCommand, Go, flags
  <2>2. ~recorded /\ ~listClosed /\ ~call[t].reuse /\ arguments = call[t].want /\ ~failed
    BY <2>1 DEF CallInv, Submitting
  <2>3. list = <<>>
    BY <1>2, <2>1, <2>2 DEF ListInv
  <2>4. list' = <<[initialize |-> call[t].initialize, bind |-> call[t].want]>>
    BY <2>1, <2>2, <2>3
  <2>5. CallInv(t)'
    BY <2>1, <2>2, <2>4 DEF CallInv, Submitting
  <2> QED
    BY <1>2, <2>1, <2>2, <2>5 DEF ListInv, IdleInv
<1>13. CASE CloseList(t)
  <2>1. /\ pc[t] = "close" /\ pc'[t] = "execute" /\ listClosed' = TRUE /\ UNCHANGED call
        /\ UNCHANGED <<recorded, list, failed, inflight, executeAllocations>>
    BY <1>13, <1>t DEF CloseList, Go, driver
  <2>2. CallInv(t)'
    BY <2>1 DEF CallInv, Submitting
  <2> QED
    BY <1>2, <2>1, <2>2 DEF ListInv, IdleInv
<1>14. CASE Execute(t)
  <2>1. /\ pc[t] = "execute" /\ pc'[t] = "wait" /\ UNCHANGED call
        /\ inflight' = inflight \o list
        /\ UNCHANGED <<recorded, listClosed, list, failed, executeAllocations>>
    BY <1>14, <1>t DEF Execute, Go
  <2>2. ~failed
    BY <2>1 DEF CallInv, Submitting
  <2>3. inflight = <<>>
    BY <1>2, <2>1, <2>2 DEF IdleInv
  <2>4. inflight' = list
    BY <2>1, <2>3, ConcatEmptySeq DEF ShapeOK, DriverOK
  <2>5. CallInv(t)'
    BY <2>1, <2>4 DEF CallInv, Submitting
  <2> QED
    BY <1>2, <2>1, <2>5 DEF ListInv, IdleInv
<1>15. CASE SubmissionFails(t)
  <2>1. Leave(t) /\ failed' = TRUE /\ UNCHANGED <<recorded, listClosed, list, executeAllocations>>
    BY <1>15 DEF SubmissionFails, driver
  <2> QED
    BY <2>1, LeaveRecording DEF ListInv, IdleInv
<1>16. CASE FenceSignalled(t)
  <2>1. /\ pc[t] = "wait" /\ inflight = <<>>
        /\ UNCHANGED <<recorded, listClosed, list, failed, inflight, executeAllocations, lastRun>>
    BY <1>16 DEF FenceSignalled, driver
  <2>2. IF call[t].initialize
          THEN pc'[t] = "setargs" /\ call'[t] = [call[t] EXCEPT !.initialize = FALSE]
          ELSE pc'[t] = "complete" /\ UNCHANGED call
    BY <1>16, <1>t DEF FenceSignalled, Go
  <2>3. call[t].initialize => ~call'[t].initialize /\ call'[t].reuse = call[t].reuse
    BY <2>2, <1>t DEF Calls
  <2>4. list # <<>>
    BY <2>1 DEF CallInv, ListInv, ExecuteOn, Submitting
  <2>5. CallInv(t)'
    BY <2>1, <2>2, <2>3, <2>4 DEF CallInv, Submitting
  <2> QED
    BY <1>2, <2>1, <2>2, <2>5 DEF ListInv, IdleInv
<1>17. CASE Complete(t)
  <2>1. /\ pc[t] = "complete" /\ Leave(t) /\ recorded' = TRUE
        /\ executeAllocations' = IF call[t].reuse THEN executeAllocations ELSE call[t].want
        /\ UNCHANGED <<listClosed, list, failed, inflight>>
    BY <1>17 DEF Complete, driver
  <2>2. listClosed /\ inflight = <<>> /\ list' = ExecuteOn(executeAllocations)'
    BY <2>1 DEF CallInv, ListInv, ExecuteOn, Submitting
  <2> QED
    BY <1>2, <2>1, <2>2, LeaveRecording DEF ListInv, IdleInv
<1> QED
  BY <1>4, <1>5, <1>6, <1>7, <1>8, <1>9, <1>10, <1>11, <1>12, <1>13, <1>14, <1>15, <1>16, <1>17
     DEF Holder

\* While nothing has failed, what the device runs is the one command of the waiting call.
LEMMA DeviceRuns ==
  ASSUME ShapeOK, RecordingInv, ~failed, inflight # <<>>
  PROVE  \E t \in Threads :
           /\ pc[t] = "wait"
           /\ inflight = <<[initialize |-> call[t].initialize, bind |-> call[t].want]>>
<1>t. call \in [Threads -> Calls]
  BY DEF ShapeOK, ClientOK
<1> USE DEF RecordingInv
<1>1. PICK t \in Threads : pc[t] = "wait"
  BY DEF IdleInv
<1>2. inflight = list
  BY <1>1 DEF CallInv
<1>3. CASE ~call[t].reuse
  BY <1>1, <1>2, <1>3 DEF CallInv
<1>4. CASE call[t].reuse
  <2>1. ~call[t].initialize /\ list = ExecuteOn(call[t].want)
    BY <1>1, <1>4 DEF CallInv, ListInv, Submitting
  <2>2. call[t].initialize = FALSE
    BY <1>t, <2>1 DEF Calls
  <2> QED
    BY <1>1, <1>2, <2>1, <2>2 DEF ExecuteOn
<1> QED
  BY <1>3, <1>4

\* So does every other step: the client's, the device's, and the last reference's.
LEMMA NextRecording ==
  ShapeOK /\ Serialized /\ RecordingInv /\ [Next]_vars => RecordingInv'
<1> SUFFICES ASSUME ShapeOK, Serialized, RecordingInv, [Next]_vars PROVE RecordingInv'
  OBVIOUS
<1> USE DEF RecordingInv
<1>t. /\ pc \in [Threads -> Locked \cup {"idle", "enter", "unref"}]
      /\ call \in [Threads -> Calls]
      /\ inflight \in Seq(Commands)
  BY DEF ShapeOK, ClientOK, DriverOK
\* A step of a thread outside of the critical section that touches no recording state.
<1>o. ASSUME NEW t \in Threads, pc[t] \in {"idle", "enter", "unref"},
             NEW p \in {"idle", "enter", "locked"}, pc' = [pc EXCEPT ![t] = p],
             NEW c, call' = [call EXCEPT ![t] = c], ~c.initialize, ~c.reuse,
             UNCHANGED <<recorded, listClosed, list, failed, inflight, executeAllocations,
                         arguments, lastRun>>
      PROVE  RecordingInv'
  <2>1. CallInv(t)'
    BY <1>o, <1>t, OutsideCall
  <2>2. ASSUME NEW u \in Threads \ {t} PROVE CallInv(u)'
    BY <1>o, <1>t DEF CallInv, Submitting
  <2>3. \A u \in Threads : (pc'[u] = "close" <=> pc[u] = "close") /\ (pc'[u] = "wait" <=> pc[u] = "wait")
    BY <1>o, <1>t
  <2>4. ListInv'
    BY <1>o, <2>3 DEF ListInv, ExecuteOn
  <2>5. IdleInv'
    BY <1>o, <2>3 DEF IdleInv
  <2> QED
    BY <2>1, <2>2, <2>4, <2>5
<1>1. CASE Create \/ UNCHANGED vars
  <2>1. UNCHANGED <<recorded, listClosed, list, failed, inflight, executeAllocations,
                    arguments, lastRun, pc, call>>
    BY <1>1 DEF Create, vars, flags, driver
  <2> QED
    BY <2>1 DEF ListInv, ExecuteOn, IdleInv, CallInv
<1>2. ASSUME NEW t \in Threads, Client(t) PROVE RecordingInv'
  <2>1. /\ pc[t] = "idle" /\ pc' = [pc EXCEPT ![t] = "enter"]
        /\ UNCHANGED <<flags, driver>>
    BY <1>2 DEF Client, CallShared, CallCopied, CallCreateBuffer, CallReleaseBuffer,
                CallReleaseSession, Use, Begin
  <2>2. PICK c : call' = [call EXCEPT ![t] = c] /\ ~c.initialize /\ ~c.reuse
    <3>1. CASE CallShared(t)
      <4>1. PICK b \in [Args -> Buffers] : Begin(t, [NoCall EXCEPT !.kind = "shared", !.binding = b])
        BY <3>1 DEF CallShared, Use
      <4> DEFINE c == [NoCall EXCEPT !.kind = "shared", !.binding = b]
      <4>2. ~c.initialize /\ ~c.reuse
        BY NoCallOK DEF Calls
      <4>3. call' = [call EXCEPT ![t] = c]
        BY <4>1 DEF Begin
      <4> QED
        BY <4>2, <4>3
    <3>2. CASE CallCopied(t)
      <4>1. PICK d \in [Inputs -> Data] : Begin(t, [NoCall EXCEPT !.kind = "copied", !.data = d])
        BY <3>2 DEF CallCopied, Use
      <4> DEFINE c == [NoCall EXCEPT !.kind = "copied", !.data = d]
      <4>2. ~c.initialize /\ ~c.reuse
        BY NoCallOK DEF Calls
      <4>3. call' = [call EXCEPT ![t] = c]
        BY <4>1 DEF Begin
      <4> QED
        BY <4>2, <4>3
    <3>3. CASE CallCreateBuffer(t)
      <4>1. PICK b \in Buffers : Begin(t, [NoCall EXCEPT !.kind = "create_buffer", !.buffer = b])
        BY <3>3 DEF CallCreateBuffer, Use
      <4> DEFINE c == [NoCall EXCEPT !.kind = "create_buffer", !.buffer = b]
      <4>2. ~c.initialize /\ ~c.reuse
        BY NoCallOK DEF Calls
      <4>3. call' = [call EXCEPT ![t] = c]
        BY <4>1 DEF Begin
      <4> QED
        BY <4>2, <4>3
    <3>4. CASE CallReleaseBuffer(t)
      <4>1. PICK b \in Buffers : Begin(t, [NoCall EXCEPT !.kind = "release_buffer", !.buffer = b])
        BY <3>4 DEF CallReleaseBuffer, Live
      <4> DEFINE c == [NoCall EXCEPT !.kind = "release_buffer", !.buffer = b]
      <4>2. ~c.initialize /\ ~c.reuse
        BY NoCallOK DEF Calls
      <4>3. call' = [call EXCEPT ![t] = c]
        BY <4>1 DEF Begin
      <4> QED
        BY <4>2, <4>3
    <3>5. CASE CallReleaseSession(t)
      <4>1. Begin(t, [NoCall EXCEPT !.kind = "release_session"])
        BY <3>5 DEF CallReleaseSession
      <4> DEFINE c == [NoCall EXCEPT !.kind = "release_session"]
      <4>2. ~c.initialize /\ ~c.reuse
        BY NoCallOK DEF Calls
      <4>3. call' = [call EXCEPT ![t] = c]
        BY <4>1 DEF Begin
      <4> QED
        BY <4>2, <4>3
    <3> QED
      BY <1>2, <3>1, <3>2, <3>3, <3>4, <3>5 DEF Client
  <2> QED
    BY <1>o, <2>1, <2>2 DEF flags, driver
<1>3. ASSUME NEW t \in Threads, Enter(t) PROVE RecordingInv'
  <2>1. /\ pc[t] = "enter" /\ pc' = [pc EXCEPT ![t] = "locked"]
        /\ UNCHANGED <<flags, driver, call>>
    BY <1>3 DEF Enter
  <2>2. call' = [call EXCEPT ![t] = call[t]] /\ ~call[t].initialize /\ ~call[t].reuse
    BY <1>t, <2>1 DEF CallInv
  <2> QED
    BY <1>o, <2>1, <2>2 DEF flags, driver
<1>4. ASSUME NEW t \in Threads, Holder(t) PROVE RecordingInv'
  BY <1>4, HolderRecording
<1>5. ASSUME NEW t \in Threads, Unref(t) PROVE RecordingInv'
  <2>1. /\ pc[t] = "unref" /\ pc' = [pc EXCEPT ![t] = "idle"]
        /\ call' = [call EXCEPT ![t] = NoCall]
        /\ UNCHANGED <<flags, driver>>
    BY <1>5 DEF Unref
  <2> QED
    BY <1>o, <2>1, NoCallOK DEF flags, driver
<1>6. CASE DeviceRun
  <2>1. /\ inflight # <<>> /\ inflight' = Tail(inflight)
        /\ IF Head(inflight).initialize THEN UNCHANGED lastRun
                                        ELSE lastRun' = Head(inflight).bind
        /\ UNCHANGED <<recorded, listClosed, list, failed, executeAllocations, arguments, pc, call>>
    BY <1>6 DEF DeviceRun, flags
  <2>2. ListInv'
    BY <2>1 DEF ListInv, ExecuteOn
  <2>3. CASE failed
    <3>1. \A u \in Threads : pc[u] \notin Submitting
      BY <2>3 DEF CallInv
    <3>2. ASSUME NEW u \in Threads PROVE CallInv(u)'
      BY <2>1, <3>1 DEF CallInv, Submitting
    <3> QED
      BY <2>1, <2>2, <2>3, <3>2 DEF IdleInv
  <2>4. CASE ~failed
    <3>1. PICK t \in Threads :
            /\ pc[t] = "wait"
            /\ inflight = <<[initialize |-> call[t].initialize, bind |-> call[t].want]>>
      BY <2>1, <2>4, DeviceRuns
    <3>4. inflight' = <<>> /\ (call[t].initialize \/ lastRun' = call[t].want)
      <4> DEFINE r == [initialize |-> call[t].initialize, bind |-> call[t].want]
      <4>1. inflight = <<r>>
        BY <3>1
      <4>2. r.initialize = call[t].initialize /\ r.bind = call[t].want
        OBVIOUS
      <4> HIDE DEF r
      <4>3. Head(inflight) = r /\ Tail(inflight) = <<>>
        BY <4>1
      <4> QED
        BY <2>1, <4>2, <4>3
    <3>5. CallInv(t)'
      BY <2>1, <3>1, <3>4 DEF CallInv, Submitting
    <3>6. ASSUME NEW u \in Threads \ {t} PROVE CallInv(u)'
      <4>1. pc[u] \notin Locked
        BY <3>1 DEF Serialized, Locked
      <4> QED
        BY <2>1, <4>1, Bystander
    <3> QED
      BY <2>2, <3>4, <3>5, <3>6 DEF IdleInv
  <2> QED
    BY <2>3, <2>4
<1> QED
  BY <1>1, <1>2, <1>3, <1>4, <1>5, <1>6 DEF Next

\* The invariant holds in every reachable state.
THEOREM RecordingCorrect == Spec => []RecordingInv
<1>1. Init => RecordingInv
  BY NoCallOK DEF Init, RecordingInv, ListInv, IdleInv, CallInv, Submitting
<1> QED
  BY <1>1, ShapeCorrect, SerializedCorrect, NextRecording, PTL DEF Spec

\* An inference that completes has run on exactly the allocations of its own call.
THEOREM ExecutedCorrect == Spec => []ExecutedWhatWasAsked
<1>1. RecordingInv => ExecutedWhatWasAsked
  BY DEF RecordingInv, CallInv, ExecutedWhatWasAsked
<1> QED
  BY <1>1, RecordingCorrect, PTL

\* A submission that means to reuse the recorded list always can.
THEOREM RecordingAvailableCorrect == Spec => []RecordingAvailable
<1>1. RecordingInv => RecordingAvailable
  BY DEF RecordingInv, ListInv, CallInv, RecordingAvailable, RecordingUsable, Submitting
<1> QED
  BY <1>1, RecordingCorrect, PTL

\* The command list is reset, recorded and submitted only while the device is idle.
THEOREM IdleCorrect == Spec => []ResourcesIdleWhenReused
<1>1. Serialized /\ RecordingInv => ResourcesIdleWhenReused
  <2> SUFFICES ASSUME Serialized, RecordingInv, NEW t \in Threads,
                      pc[t] \in {"resetlist", "resetfence", "append", "close", "execute"}
               PROVE  inflight = <<>>
    BY DEF ResourcesIdleWhenReused
  <2>1. ~failed
    BY DEF RecordingInv, CallInv, Submitting
  <2>2. \A u \in Threads : pc[u] # "wait"
    BY DEF Serialized, Locked
  <2> QED
    BY <2>1, <2>2 DEF RecordingInv, IdleInv
<1> QED
  BY <1>1, SerializedCorrect, RecordingCorrect, PTL

-----------------------------------------------------------------------------
(***************************************************************************)
(* Only allocations are ever run on: the contents keep their type.         *)
(***************************************************************************)

BoundCommands == [initialize : BOOLEAN, bind : [Args -> Addresses]]

\* From binding on a call wants real allocations, and so do the commands made of them.
BoundInv ==
  /\ \A t \in Threads : pc[t] \in Locked \ {"locked"} => call[t].want \in [Args -> Addresses]
  /\ copied = NoAllocations \/ copied \in [Args -> Addresses]
  /\ list \in Seq(BoundCommands)
  /\ inflight \in Seq(BoundCommands)
  /\ content \in [Addresses -> Data]

\* What the host stores into the copied tensors is data.
LEMMA FillTyped ==
  ASSUME content \in [Addresses -> Data], NEW where, NEW data \in [Inputs -> Data],
         Fill(where, data)
  PROVE  content' \in [Addresses -> Data]
<1> DEFINE new(x) == IF \E i \in Args : where[i] = x
                       THEN LET i == CHOOSE i \in Args : where[i] = x
                            IN  IF i \in Inputs THEN data[i] ELSE Zero
                       ELSE content[x]
<1>1. ASSUME NEW x \in Addresses PROVE new(x) \in Data
  <2> DEFINE i == CHOOSE i \in Args : where[i] = x
  <2>1. (IF i \in Inputs THEN data[i] ELSE Zero) \in Data
    OBVIOUS
  <2>2. content[x] \in Data
    BY <1>1
  <2> HIDE DEF i
  <2> QED
    BY <2>1, <2>2 DEF i
<1>2. content' = [x \in Addresses |-> new(x)]
  BY DEF Fill
<1> HIDE DEF new
<1> QED
  BY <1>1, <1>2

\* Every step inside of the critical section keeps the bindings real.
LEMMA HolderBound ==
  ASSUME ShapeOK, Serialized, RecordingInv, BoundInv, NEW t \in Threads, Holder(t)
  PROVE  BoundInv'
<1>t. /\ pc \in [Threads -> Locked \cup {"idle", "enter", "unref"}]
      /\ call \in [Threads -> Calls] /\ CallOK(call[t])
      /\ buffers \in [Buffers -> Allocation]
      /\ call[t].initialize \in BOOLEAN
      /\ call[t].data \in [Inputs -> Data]
  BY DEF ShapeOK, ClientOK, Calls
<1>o. \A u \in Threads \ {t} : pc'[u] = pc[u] /\ call'[u] = call[u]
  BY HolderOthers
<1>l. pc[t] \in Locked
  BY HolderLock
<1> USE DEF BoundInv
<1>s. ASSUME UNCHANGED <<copied, list, inflight, content>>,
             pc'[t] \in {"idle", "unref"} \/ call'[t].want \in [Args -> Addresses]
      PROVE  BoundInv'
  BY <1>s, <1>o DEF Locked
<1>i. ASSUME Leave(t) PROVE pc'[t] = "idle"
  BY <1>i, <1>t DEF Leave
<1>w. pc[t] # "locked" => call[t].want \in [Args -> Addresses]
  BY <1>l
<1>1. CASE Refuse(t) \/ ReleaseBuffer(t) \/ ReleaseSession(t)
  <2>1. /\ UNCHANGED <<copied, list, inflight, content>>
        /\ pc'[t] \in {"idle", "unref"}
    BY <1>1, <1>i, <1>t DEF Refuse, ReleaseBuffer, ReleaseSession, memory, driver
  <2> QED
    BY <2>1, <1>s
<1>2. CASE CreateBuffer(t)
  <2>1. UNCHANGED <<copied, list, inflight>> /\ pc'[t] = "idle"
    BY <1>2, <1>i DEF CreateBuffer, driver
  <2>2. content' \in [Addresses -> Data]
    BY <1>2 DEF CreateBuffer, memory
  <2> QED
    BY <1>o, <2>1, <2>2 DEF Locked
<1>3. CASE BindShared(t)
  <2>1. UNCHANGED <<copied, list, inflight, content>>
    BY <1>3 DEF BindShared, memory, driver
  <2>2. call[t].binding \in [Args -> Buffers]
    BY <1>3, <1>t DEF BindShared, CallOK, Kind
  <2>3. \A a \in Args : buffers[call[t].binding[a]] \in Addresses
    BY <1>3, <1>t, <2>2 DEF BindShared, Allocation
  <2>4. call'[t].want = [a \in Args |-> buffers[call[t].binding[a]]]
    BY <1>3, <1>t DEF BindShared, Calls
  <2>5. call'[t].want \in [Args -> Addresses]
    BY <2>3, <2>4
  <2> QED
    BY <1>s, <2>1, <2>5
<1>4. CASE BindCopied(t)
  <2>1. UNCHANGED <<list, inflight>>
    BY <1>4 DEF BindCopied, driver
  <2>2. CASE Leave(t) /\ UNCHANGED <<memory, copied>>
    BY <1>i, <1>s, <2>1, <2>2 DEF memory
  <2>3. ASSUME NEW where \in [Args -> Addresses], Fill(where, call[t].data), copied' = where,
               call' = [call EXCEPT ![t].want = where]
        PROVE  BoundInv'
    <3>1. content' \in [Addresses -> Data]
      BY <1>t, <2>3, FillTyped
    <3>2. call'[t].want = where
      BY <1>t, <2>3 DEF Calls
    <3> QED
      BY <1>o, <2>1, <2>3, <3>1, <3>2
  <2>4. CASE /\ copied # NoAllocations /\ Fill(copied, call[t].data) /\ UNCHANGED copied
             /\ call' = [call EXCEPT ![t].want = copied]
    BY <2>3, <2>4
  <2>5. CASE \E where \in [Args -> {a \in Addresses : owner[a] = "free"}] :
               /\ copied' = where /\ Fill(where, call[t].data)
               /\ call' = [call EXCEPT ![t].want = where]
    <3>1. PICK where \in [Args -> {a \in Addresses : owner[a] = "free"}] :
               /\ copied' = where /\ Fill(where, call[t].data)
               /\ call' = [call EXCEPT ![t].want = where]
      BY <2>5
    <3>2. where \in [Args -> Addresses]
      OBVIOUS
    <3> QED
      BY <2>3, <3>1, <3>2
  <2> QED
    BY <1>4, <2>2, <2>4, <2>5 DEF BindCopied
<1>5. CASE \/ Prepare(t) \/ PreInit(t) \/ SetArguments(t) \/ RefuseSubmission(t)
           \/ CreateResources(t) \/ ResetFence(t) \/ CloseList(t) \/ SubmissionFails(t)
           \/ FenceSignalled(t) \/ Complete(t)
  <2>1. UNCHANGED <<copied, list, inflight, content>>
    BY <1>5 DEF Prepare, PreInit, SetArguments, RefuseSubmission, CreateResources, ResetFence,
                CloseList, SubmissionFails, FenceSignalled, Complete, executeFrame, memory, driver
  <2>2. call[t].want \in [Args -> Addresses]
    BY <1>5, <1>w DEF Prepare, PreInit, SetArguments, RefuseSubmission, CreateResources,
                ResetFence, CloseList, SubmissionFails, DriverCall, FenceSignalled, Complete
  <2>3. Leave(t) \/ call'[t].want = call[t].want
    <3>1. CASE Prepare(t) \/ FenceSignalled(t)
      BY <3>1, <1>t DEF Prepare, FenceSignalled, Calls
    <3>2. CASE PreInit(t) \/ SetArguments(t)
      BY <3>2, <1>t DEF PreInit, SetArguments, Calls
    <3>3. CASE \/ RefuseSubmission(t) \/ CreateResources(t) \/ ResetFence(t) \/ CloseList(t)
               \/ SubmissionFails(t) \/ Complete(t)
      BY <3>3 DEF RefuseSubmission, CreateResources, ResetFence, CloseList, SubmissionFails,
                  Complete
    <3> QED
      BY <1>5, <3>1, <3>2, <3>3
  <2> QED
    BY <1>s, <1>i, <2>1, <2>2, <2>3
<1>6. CASE ResetList(t) \/ AppendCommand(t) \/ Execute(t)
  <2>1. UNCHANGED <<copied, content, call>> /\ pc[t] # "locked"
    BY <1>6 DEF ResetList, AppendCommand, Execute, executeFrame, memory
  <2>2. \A u \in Threads : pc'[u] \in Locked \ {"locked"} => call'[u].want \in [Args -> Addresses]
    BY <1>o, <1>w, <2>1
  <2>3. SUFFICES list' \in Seq(BoundCommands) /\ inflight' \in Seq(BoundCommands)
    BY <2>1, <2>2
  <2>4. CASE ResetList(t)
    <3>1. (list' = <<>> \/ list' = list) /\ inflight' = inflight
      BY <2>4 DEF ResetList
    <3> QED
      BY <3>1, EmptySeq
  <2>5. CASE AppendCommand(t)
    <3> DEFINE c == [initialize |-> call[t].initialize, bind |-> arguments]
    <3>1. pc[t] = "append" /\ list' = Append(list, c) /\ inflight' = inflight
      BY <2>5 DEF AppendCommand
    <3>2. arguments = call[t].want
      BY <3>1 DEF RecordingInv, CallInv
    <3>3. arguments \in [Args -> Addresses]
      BY <1>w, <2>1, <3>2
    <3>4. c \in BoundCommands
      BY <1>t, <3>3 DEF BoundCommands
    <3> HIDE DEF c
    <3> QED
      BY <3>1, <3>4, AppendProperties
  <2>6. CASE Execute(t)
    <3>1. inflight' = inflight \o list /\ list' = list
      BY <2>6 DEF Execute
    <3> QED
      BY <3>1, ConcatProperties
  <2> QED
    BY <1>6, <2>4, <2>5, <2>6
<1> QED
  BY <1>1, <1>2, <1>3, <1>4, <1>5, <1>6 DEF Holder

\* Every step keeps them real, the device's included.
LEMMA NextBound ==
  ShapeOK /\ Serialized /\ RecordingInv /\ BoundInv /\ [Next]_vars => BoundInv'
<1> SUFFICES ASSUME ShapeOK, Serialized, RecordingInv, BoundInv, [Next]_vars PROVE BoundInv'
  OBVIOUS
<1>t. /\ pc \in [Threads -> Locked \cup {"idle", "enter", "unref"}]
      /\ call \in [Threads -> Calls]
  BY DEF ShapeOK, ClientOK
<1> USE DEF BoundInv
<1>1. CASE Create \/ UNCHANGED vars
  BY <1>1 DEF Create, vars, memory, driver
<1>2. ASSUME NEW t \in Threads, Client(t) \/ Enter(t) \/ Unref(t) PROVE BoundInv'
  <2>1. pc'[t] \in {"enter", "locked", "idle"} /\ UNCHANGED <<list, inflight, content>>
    BY <1>2, <1>t DEF Client, CallShared, CallCopied, CallCreateBuffer, CallReleaseBuffer,
              CallReleaseSession, Use, Begin, Enter, Unref, memory, driver
  <2>2. copied' = copied \/ copied' = NoAllocations
    BY <1>2 DEF Client, CallShared, CallCopied, CallCreateBuffer, CallReleaseBuffer,
              CallReleaseSession, Use, Begin, Enter, Unref
  <2>3. \A u \in Threads \ {t} : pc'[u] = pc[u] /\ call'[u] = call[u]
    BY <1>2, <1>t DEF Client, CallShared, CallCopied, CallCreateBuffer, CallReleaseBuffer,
              CallReleaseSession, Use, Begin, Enter, Unref
  <2> QED
    BY <2>1, <2>2, <2>3 DEF Locked
<1>3. ASSUME NEW t \in Threads, Holder(t) PROVE BoundInv'
  BY <1>3, HolderBound
<1>4. CASE DeviceRun
  <2> DEFINE c == Head(inflight)
             result == Compute([i \in Inputs |-> content[c.bind[i]]])
  <2>1. c \in BoundCommands /\ inflight' \in Seq(BoundCommands)
    BY <1>4, HeadTailProperties DEF DeviceRun
  <2>2. c.bind \in [Args -> Addresses]
    BY <2>1 DEF BoundCommands
  <2> HIDE DEF c
  <2>3. [i \in Inputs |-> content[c.bind[i]]] \in [Inputs -> Data]
    BY <2>2
  <2>4. result \in Data
    BY <2>3, ComputeAssumption
  <2>5. \/ content' = content
        \/ content' = [x \in Addresses |->
                         IF \E o \in Outputs : c.bind[o] = x THEN result ELSE content[x]]
    BY <1>4 DEF DeviceRun, c
  <2> HIDE DEF result
  <2>6. content' \in [Addresses -> Data]
    BY <2>4, <2>5
  <2> QED
    BY <1>4, <2>1, <2>6 DEF DeviceRun
<1> QED
  BY <1>1, <1>2, <1>3, <1>4 DEF Next

\* TypeOK holds in every reachable state: the device only ever computes on the contents of
\* allocations.
THEOREM TypeCorrect == Spec => []TypeOK
<1>1. Init => BoundInv
  BY EmptySeq DEF Init, BoundInv, Locked
<1>2. ShapeOK /\ BoundInv => TypeOK
  BY DEF ShapeOK, BoundInv, TypeOK
<1> QED
  BY <1>1, <1>2, ShapeCorrect, SerializedCorrect, RecordingCorrect, NextBound, PTL DEF Spec

\* The reuse of recordings and submission objects by graphinfer_session_infer is sound.
THEOREM SubmissionCorrect == Spec => []SubmissionSound
BY ExecutedCorrect, RecordingAvailableCorrect, IdleCorrect, PTL DEF SubmissionSound

-----------------------------------------------------------------------------
(***************************************************************************)
(* The answer of a copied inference.                                       *)
(***************************************************************************)

Bound == Locked \ {"locked"}

Distinct(where) == \A i, j \in Args : where[i] = where[j] => i = j

\* A copied call that is under way: its tensors are distinct, they hold its inputs as long
\* as no submission has failed, and they hold its answer once the device has run it.
FreshCall(t) ==
  pc[t] \in Bound /\ Kind(t) = "copied" =>
    /\ Distinct(call[t].want)
    /\ ~failed => \A i \in Inputs : content[call[t].want[i]] = call[t].data[i]
    /\ pc[t] = "complete" \/ (pc[t] = "wait" /\ inflight = <<>> /\ ~call[t].initialize)
         => \A o \in Outputs : content[call[t].want[o]] = Compute(call[t].data)

FreshInv ==
  /\ copied = NoAllocations \/ Distinct(copied)
  /\ \A t \in Threads : FreshCall(t)

\* What is left of a step from binding on: the call goes on for the same tensors with the
\* memory untouched, or returns.  It only completes after the device has run all of it.
LEMMA HolderContinues ==
  ASSUME ShapeOK, RecordingInv, NEW t \in Threads, Holder(t), pc[t] # "locked"
  PROVE  /\ UNCHANGED <<content, copied, owner, references, session, buffers>>
         /\ \/ pc'[t] = "idle" /\ call'[t] = NoCall
            \/ /\ pc'[t] \in Bound /\ failed' = failed
               /\ call'[t].kind = call[t].kind /\ call'[t].data = call[t].data
               /\ call'[t].want = call[t].want /\ call'[t].binding = call[t].binding
               /\ call'[t].buffer = call[t].buffer
               /\ pc'[t] = "complete" =>
                    pc[t] = "wait" /\ inflight = <<>> /\ ~call[t].initialize
               /\ pc'[t] = "wait" => pc[t] = "execute" /\ inflight' = inflight \o list
<1>t. /\ pc \in [Threads -> Locked \cup {"idle", "enter", "unref"}]
      /\ call \in [Threads -> Calls]
  BY DEF ShapeOK, ClientOK
<1>i. ASSUME Leave(t) PROVE pc'[t] = "idle" /\ call'[t] = NoCall
  BY <1>i, <1>t DEF Leave
<1> USE DEF executeFrame, memory, Bound, Locked
<1>1. CASE Refuse(t) \/ CreateBuffer(t) \/ ReleaseBuffer(t) \/ ReleaseSession(t)
           \/ BindShared(t) \/ BindCopied(t)
  BY <1>1 DEF Refuse, CreateBuffer, ReleaseBuffer, ReleaseSession, BindShared, BindCopied,
              AtLocked
<1>2. CASE Prepare(t)
  BY <1>2, <1>t DEF Prepare, Go, Calls, flags
<1>3. CASE PreInit(t)
  BY <1>3, <1>t, <1>i DEF PreInit, Go, Calls
<1>4. CASE SetArguments(t) \/ RefuseSubmission(t) \/ CreateResources(t)
  BY <1>4, <1>t, <1>i DEF SetArguments, RefuseSubmission, CreateResources, Go, flags
<1>5. CASE ResetList(t) \/ ResetFence(t) \/ AppendCommand(t) \/ CloseList(t) \/ Execute(t)
  BY <1>5, <1>t DEF ResetList, ResetFence, AppendCommand, CloseList, Execute, Go, flags
<1>6. CASE SubmissionFails(t) \/ Complete(t)
  BY <1>6, <1>i DEF SubmissionFails, Complete
<1>7. CASE FenceSignalled(t)
  BY <1>7, <1>t DEF FenceSignalled, Go, Calls
<1> QED
  BY <1>1, <1>2, <1>3, <1>4, <1>5, <1>6, <1>7 DEF Holder

\* Copying the inputs into distinct tensors puts each where the graph will read it.
LEMMA FillInputs ==
  ASSUME NEW where \in [Args -> Addresses], Distinct(where), NEW data, Fill(where, data),
         NEW i \in Inputs
  PROVE  content'[where[i]] = data[i]
<1> DEFINE x == where[i]
           chosen == CHOOSE j \in Args : where[j] = x
<1>1. i \in Args /\ x \in Addresses
  OBVIOUS
<1>2. chosen \in Args /\ where[chosen] = x
  BY <1>1
<1>3. chosen = i
  BY <1>1, <1>2 DEF Distinct
<1>4. content'[x] = IF chosen \in Inputs THEN data[chosen] ELSE Zero
  BY <1>1 DEF Fill
<1> HIDE DEF chosen
<1> QED
  BY <1>3, <1>4

\* Every step inside of the critical section keeps the answers fresh.
LEMMA HolderFresh ==
  ASSUME ShapeOK, Serialized, RecordingInv, BoundInv, FreshInv, NEW t \in Threads, Holder(t)
  PROVE  FreshInv'
<1>t. /\ pc \in [Threads -> Locked \cup {"idle", "enter", "unref"}]
      /\ call \in [Threads -> Calls]
  BY DEF ShapeOK, ClientOK
<1>o. \A u \in Threads \ {t} : pc'[u] \notin Locked
  BY HolderOthers, HolderLock DEF Serialized
<1>1. ASSUME FreshCall(t)', (copied = NoAllocations \/ Distinct(copied))' PROVE FreshInv'
  BY <1>1, <1>o DEF FreshInv, FreshCall, Bound
<1>2. CASE pc[t] # "locked"
  <2>1. /\ UNCHANGED <<content, copied>>
        /\ \/ pc'[t] = "idle"
           \/ /\ pc'[t] \in Bound /\ failed' = failed
              /\ call'[t].kind = call[t].kind /\ call'[t].data = call[t].data
              /\ call'[t].want = call[t].want
              /\ pc'[t] = "complete" =>
                   pc[t] = "wait" /\ inflight = <<>> /\ ~call[t].initialize
              /\ pc'[t] = "wait" => pc[t] = "execute" /\ inflight' = inflight \o list
    BY <1>2, HolderContinues
  <2>2. (copied = NoAllocations \/ Distinct(copied))'
    BY <2>1 DEF FreshInv, Distinct
  <2>3. CASE pc'[t] = "idle"
    BY <1>1, <2>2, <2>3 DEF FreshCall, Bound, Locked
  <2>4. CASE pc'[t] \in Bound
    <3>1. pc[t] \in Bound
      BY <1>2, HolderLock DEF Bound
    <3>2. FreshCall(t)
      BY DEF FreshInv
    <3>3. pc'[t] = "wait" => inflight' # <<>>
      <4> SUFFICES ASSUME pc'[t] = "wait" PROVE inflight' # <<>>
        OBVIOUS
      <4>1. pc[t] = "execute" /\ inflight' = inflight \o list
        BY <2>1, <2>4 DEF Bound, Locked
      <4>2. Len(list) = 1
        BY <4>1 DEF RecordingInv, CallInv, ListInv, ExecuteOn, Submitting
      <4>3. inflight \in Seq(Commands) /\ list \in Seq(Commands)
        BY DEF ShapeOK, DriverOK
      <4> QED
        BY <4>1, <4>2, <4>3, ConcatProperties
    <3>4. /\ Distinct(call[t].want)' <=> Distinct(call[t].want)
      BY <2>1, <2>4 DEF Distinct, Bound, Locked
    <3> QED
      BY <1>1, <2>1, <2>2, <2>4, <3>1, <3>2, <3>3, <3>4 DEF FreshCall, Kind, Bound, Locked
  <2> QED
    BY <2>1, <2>3, <2>4
<1>3. CASE pc[t] = "locked"
  <2>1. CASE BindCopied(t)
    <3>1. CASE Leave(t) /\ UNCHANGED copied
      <4>1. pc'[t] = "idle"
        BY <1>t, <3>1 DEF Leave
      <4> QED
        BY <1>1, <3>1, <4>1 DEF FreshInv, FreshCall, Distinct, Bound, Locked
    <3>2. ASSUME NEW where \in [Args -> Addresses], Distinct(where), copied' = where,
                 Fill(where, call[t].data), call' = [call EXCEPT ![t].want = where],
                 Go(t, "prepare")
          PROVE  FreshInv'
      <4>1. call'[t].want = where /\ call'[t].data = call[t].data /\ pc'[t] = "prepare"
        BY <1>t, <3>2 DEF Calls, Go
      <4>2. \A i \in Inputs : content'[where[i]] = call[t].data[i]
        BY <3>2, FillInputs
      <4>3. Distinct(copied)' /\ Distinct(call[t].want)'
        BY <3>2, <4>1 DEF Distinct
      <4> QED
        BY <1>1, <4>1, <4>2, <4>3 DEF FreshCall
    <3>3. CASE /\ copied # NoAllocations /\ Fill(copied, call[t].data) /\ UNCHANGED copied
               /\ call' = [call EXCEPT ![t].want = copied] /\ Go(t, "prepare")
      <4>1. copied \in [Args -> Addresses] /\ Distinct(copied)
        BY <3>3 DEF BoundInv, FreshInv
      <4> QED
        BY <3>2, <3>3, <4>1
    <3>4. CASE \E where \in [Args -> {a \in Addresses : owner[a] = "free"}] :
                 /\ \A i, j \in Args : where[i] = where[j] => i = j
                 /\ copied' = where /\ Fill(where, call[t].data)
                 /\ call' = [call EXCEPT ![t].want = where] /\ Go(t, "prepare")
      <4>1. PICK where \in [Args -> {a \in Addresses : owner[a] = "free"}] :
                 /\ \A i, j \in Args : where[i] = where[j] => i = j
                 /\ copied' = where /\ Fill(where, call[t].data)
                 /\ call' = [call EXCEPT ![t].want = where] /\ Go(t, "prepare")
        BY <3>4
      <4>2. where \in [Args -> Addresses] /\ Distinct(where)
        BY <4>1 DEF Distinct
      <4> QED
        BY <3>2, <4>1, <4>2
    <3> QED
      BY <2>1, <3>1, <3>3, <3>4 DEF BindCopied
  <2>2. CASE Refuse(t) \/ CreateBuffer(t) \/ ReleaseBuffer(t) \/ ReleaseSession(t)
    <3>1. pc'[t] \in {"idle", "unref"} /\ UNCHANGED copied
      BY <1>t, <2>2 DEF Refuse, CreateBuffer, ReleaseBuffer, ReleaseSession, Leave
    <3> QED
      BY <1>1, <3>1 DEF FreshInv, FreshCall, Distinct, Bound, Locked
  <2>3. CASE BindShared(t)
    <3>1. Kind(t)' = "shared" /\ UNCHANGED copied
      BY <1>t, <2>3 DEF BindShared, Kind, Calls
    <3> QED
      BY <1>1, <3>1 DEF FreshInv, FreshCall, Distinct
  <2> QED
    BY <1>3, <2>1, <2>2, <2>3
       DEF Holder, Prepare, PreInit, SetArguments, RefuseSubmission, CreateResources, ResetList,
           ResetFence, AppendCommand, CloseList, Execute, SubmissionFails, DriverCall,
           FenceSignalled, Complete
<1> QED
  BY <1>2, <1>3

\* So does every other step; the device stores the answer of the call that waits for it.
LEMMA NextFresh ==
  ShapeOK /\ Serialized /\ RecordingInv /\ BoundInv /\ FreshInv /\ [Next]_vars => FreshInv'
<1> SUFFICES ASSUME ShapeOK, Serialized, RecordingInv, BoundInv, FreshInv, [Next]_vars
             PROVE  FreshInv'
  OBVIOUS
<1>t. /\ pc \in [Threads -> Locked \cup {"idle", "enter", "unref"}]
      /\ call \in [Threads -> Calls]
  BY DEF ShapeOK, ClientOK
<1>1. CASE Create \/ UNCHANGED vars
  BY <1>1 DEF Create, vars, flags, memory, driver, FreshInv, FreshCall, Distinct, Kind
<1>2. ASSUME NEW t \in Threads, Client(t) \/ Enter(t) \/ Unref(t) PROVE FreshInv'
  <2>1. /\ pc'[t] \in {"enter", "locked", "idle"} /\ UNCHANGED <<inflight, content, failed>>
        /\ copied' = copied \/ copied' = NoAllocations
        /\ \A u \in Threads \ {t} : pc'[u] = pc[u] /\ call'[u] = call[u]
    BY <1>2, <1>t DEF Client, CallShared, CallCopied, CallCreateBuffer, CallReleaseBuffer,
              CallReleaseSession, Use, Begin, Enter, Unref, flags, memory, driver
  <2>2. FreshCall(t)'
    BY <2>1 DEF FreshCall, Bound, Locked
  <2>3. ASSUME NEW u \in Threads \ {t} PROVE FreshCall(u)'
    BY <2>1 DEF FreshInv, FreshCall, Distinct, Kind
  <2> QED
    BY <2>1, <2>2, <2>3 DEF FreshInv, Distinct
<1>3. ASSUME NEW t \in Threads, Holder(t) PROVE FreshInv'
  BY <1>3, HolderFresh
<1>4. CASE DeviceRun
  <2>1. inflight # <<>> /\ UNCHANGED <<copied, pc, call, failed>>
    BY <1>4 DEF DeviceRun, flags
  <2>2. SUFFICES ASSUME NEW t \in Threads, pc[t] \in Bound, Kind(t) = "copied" PROVE FreshCall(t)'
    BY <2>1 DEF FreshInv, FreshCall, Distinct, Kind
  <2>3. CASE failed
    <3>1. pc[t] \notin {"wait", "complete"}
      BY <2>3 DEF RecordingInv, CallInv, Submitting
    <3> QED
      BY <2>1, <2>2, <2>3, <3>1 DEF FreshInv, FreshCall, Distinct, Kind
  <2>4. CASE ~failed
    <3> DEFINE r == [initialize |-> call[t].initialize, bind |-> call[t].want]
               old == [i \in Inputs |-> content[call[t].want[i]]]
    <3>1. pc[t] = "wait" /\ inflight = <<r>>
      <4>1. PICK u \in Threads :
              /\ pc[u] = "wait"
              /\ inflight = <<[initialize |-> call[u].initialize, bind |-> call[u].want]>>
        BY <2>1, <2>4, DeviceRuns
      <4>2. u = t
        BY <2>2, <4>1 DEF Serialized, Bound, Locked
      <4> QED
        BY <4>1, <4>2
    <3>2. r.initialize = call[t].initialize /\ r.bind = call[t].want
      OBVIOUS
    <3> HIDE DEF r
    <3>3. Head(inflight) = r /\ Tail(inflight) = <<>>
      BY <3>1
    <3>4. /\ Distinct(call[t].want) /\ call[t].want \in [Args -> Addresses]
          /\ \A i \in Inputs : content[call[t].want[i]] = call[t].data[i]
      BY <2>2, <2>4 DEF FreshInv, FreshCall, BoundInv, Bound
    <3>5. call[t].data \in [Inputs -> Data]
      BY <1>t DEF Calls
    <3>6. old = call[t].data
      BY <3>4, <3>5
    <3>7. CASE call[t].initialize
      <4>1. UNCHANGED content
        BY <1>4, <3>2, <3>3, <3>7 DEF DeviceRun
      <4> QED
        BY <2>1, <2>2, <2>4, <3>1, <3>4, <3>7, <4>1 DEF FreshCall, Distinct, Kind
    <3>8. CASE ~call[t].initialize
      <4>1. content' = [x \in Addresses |->
                          IF \E o \in Outputs : call[t].want[o] = x THEN Compute(old) ELSE content[x]]
        BY <1>4, <3>2, <3>3, <3>8 DEF DeviceRun
      <4>2. \A o \in Outputs : content'[call[t].want[o]] = Compute(call[t].data)
        BY <3>4, <3>6, <4>1 DEF Outputs
      <4>3. \A i \in Inputs : content'[call[t].want[i]] = call[t].data[i]
        BY <3>4, <4>1 DEF Distinct, Outputs
      <4> QED
        BY <2>1, <2>2, <3>4, <4>2, <4>3 DEF FreshCall, Distinct, Kind
    <3> QED
      BY <3>7, <3>8
  <2> QED
    BY <2>3, <2>4
<1> QED
  BY <1>1, <1>2, <1>3, <1>4 DEF Next

\* The answer of a copied inference is what the graph computes from the inputs of this very
\* call, whatever was submitted, failed or timed out before.
THEOREM FreshCorrect == Spec => []CopiedAnswerIsFresh
<1>1. Init => BoundInv /\ FreshInv
  BY EmptySeq DEF Init, BoundInv, FreshInv, FreshCall, Bound, Locked
<1>2. FreshInv => CopiedAnswerIsFresh
  BY DEF FreshInv, FreshCall, CopiedAnswerIsFresh, Bound, Locked
<1>3. Spec => []BoundInv
  BY <1>1, ShapeCorrect, SerializedCorrect, RecordingCorrect, NextBound, PTL DEF Spec
<1> QED
  BY <1>1, <1>2, <1>3, ShapeCorrect, SerializedCorrect, RecordingCorrect, NextFresh, PTL DEF Spec

-----------------------------------------------------------------------------
(***************************************************************************)
(* The lifetime of memory: who holds what, who counts as an owner, and     *)
(* what a release may take away.                                           *)
(***************************************************************************)

OfBuffer(t) == Kind(t) \in {"create_buffer", "release_buffer"}

\* The release of buffer b has freed its memory and not yet dropped its reference.
Freed(b) == \E t \in Threads : /\ pc[t] = "unref"
                               /\ Kind(t) = "release_buffer"
                               /\ call[t].buffer = b

\* The buffers whose memory is theirs.
Held == {b \in Live : ~Freed(b)}

\* What kind of call gets how far.
KindInv ==
  \A t \in Threads :
    /\ pc[t] = "idle" <=> Kind(t) = "none"
    /\ pc[t] = "unref" => Releasing(Kind(t))
    /\ pc[t] \in Bound => Kind(t) \in {"shared", "copied"}

\* Calls do not take each other's buffers away.
RoleInv ==
  /\ \A t \in Threads :
       /\ Kind(t) = "create_buffer" => call[t].buffer \notin Live
       /\ Kind(t) = "release_buffer" => call[t].buffer \in Live
       /\ Kind(t) = "release_session" => session = "released"
       /\ Kind(t) = "shared" => \A a \in Args : ~BeingReleased(call[t].binding[a])
  /\ \A t, u \in Threads : OfBuffer(t) /\ OfBuffer(u) /\ call[t].buffer = call[u].buffer => t = u
  /\ \A t, u \in Threads : Kind(t) = "release_session" /\ Kind(u) = "release_session" => t = u

\* A call that is no release has an owner of the session behind it.
UseInv ==
  /\ session \in {"none", "failed"} => Live = {} /\ \A t \in Threads : pc[t] = "idle"
  /\ (\E t \in Threads : pc[t] # "idle" /\ ~Releasing(Kind(t))) => Owners # {}

CountInv == KindInv /\ RoleInv /\ UseInv /\ ReferencesExact

\* Memory belongs to exactly one buffer that holds it, or to the copied tensors.
AllocInv ==
  /\ \A b \in Held : owner[buffers[b]] = "shared"
  /\ \A b, c \in Held : buffers[b] = buffers[c] => b = c
  /\ \A x \in Addresses : owner[x] = "shared" => \E b \in Held : buffers[b] = x
  /\ copied # NoAllocations => \A a \in Args : owner[copied[a]] = "copied"
  /\ references = 0 => \A x \in Addresses : owner[x] # "copied"

\* What a call has bound stays what it was.
WantInv ==
  \A t \in Threads : pc[t] \in Bound =>
    /\ Kind(t) = "shared" => \A a \in Args : /\ call[t].binding[a] \in Live
                                             /\ call[t].want[a] = buffers[call[t].binding[a]]
    /\ Kind(t) = "copied" => copied # NoAllocations /\ call[t].want = copied

ContextInv ==
  /\ references # 0 => "context" \in resources
  /\ references = 0 => resources = {}

LifeInv == CountInv /\ AllocInv /\ WantInv /\ ContextInv

\* The count of a set of buffers is a number, and zero only if there are none.
LEMMA LiveCount ==
  /\ IsFiniteSet(Live) /\ Cardinality(Live) \in Nat
  /\ Cardinality(Live) = 0 <=> Live = {}
<1>1. IsFiniteSet(Live)
  BY FS_Subset DEF Live
<1> QED
  BY <1>1, FS_CardinalityType, FS_EmptySet

\* A call in progress is counted, and so is a buffer: their session is not gone.
Counted ==
  /\ references \in Nat
  /\ \A t \in Threads : pc[t] # "idle" => references # 0
  /\ references = 0 => Live = {}

LEMMA BusyCounted == CountInv => Counted
<1> SUFFICES ASSUME CountInv PROVE Counted
  OBVIOUS
<1> USE DEF CountInv, Counted
<1>1. references = Unreleased + Cardinality(Live) /\ Unreleased \in {0, 1}
  BY DEF ReferencesExact, Unreleased
<1>2. Live # {} => references # 0
  BY <1>1, LiveCount
<1>4. Unreleased = 1 => references # 0
  BY <1>1, LiveCount
<1>3. ASSUME NEW t \in Threads, pc[t] # "idle" PROVE references # 0
  <2>1. CASE Kind(t) = "release_session"
    <3>1. Unreleased = 1
      BY <1>3, <2>1 DEF Unreleased
    <3> QED
      BY <1>4, <3>1
  <2>2. CASE Kind(t) = "release_buffer"
    BY <1>2, <2>2 DEF RoleInv
  <2>3. CASE ~Releasing(Kind(t))
    <3>1. Owners # {}
      BY <1>3, <2>3 DEF UseInv
    <3>2. Live # {} \/ session = "open"
      BY <3>1 DEF Owners
    <3>3. session = "open" => Unreleased = 1
      BY DEF Unreleased
    <3> QED
      BY <1>2, <1>4, <3>2, <3>3
  <2> QED
    BY <2>1, <2>2, <2>3 DEF Releasing
<1> QED
  BY <1>1, <1>2, <1>3, LiveCount

\* A thread that is no buffer's release changes nothing about what is being released.
LEMMA SameReleases ==
  ASSUME NEW t \in Threads, \A u \in Threads \ {t} : pc'[u] = pc[u] /\ call'[u] = call[u],
         Kind(t) # "release_buffer", call'[t].kind # "release_buffer", NEW b
  PROVE  (BeingReleased(b)' <=> BeingReleased(b)) /\ (Freed(b)' <=> Freed(b))
<1>1. ASSUME NEW u \in Threads
      PROVE  /\ (pc'[u] # "idle" /\ call'[u].kind = "release_buffer" /\ call'[u].buffer = b)
                  <=> (pc[u] # "idle" /\ call[u].kind = "release_buffer" /\ call[u].buffer = b)
             /\ (pc'[u] = "unref" /\ call'[u].kind = "release_buffer" /\ call'[u].buffer = b)
                  <=> (pc[u] = "unref" /\ call[u].kind = "release_buffer" /\ call[u].buffer = b)
  BY DEF Kind
<1> QED
  BY <1>1 DEF BeingReleased, Freed, Kind

\* A step that goes on with a call, or returns from one that is no release, keeps the count.
LEMMA ContinueCount ==
  ASSUME ShapeOK, CountInv, NEW t \in Threads, pc[t] # "idle",
         \A u \in Threads \ {t} : pc'[u] = pc[u] /\ call'[u] = call[u],
         UNCHANGED <<references, session, buffers>>,
         \/ pc'[t] = "idle" /\ call'[t] = NoCall /\ ~Releasing(Kind(t))
         \/ /\ pc'[t] # "idle"
            /\ call'[t].kind = call[t].kind /\ call'[t].buffer = call[t].buffer
            /\ call'[t].binding = call[t].binding
            /\ pc'[t] = "unref" => Releasing(Kind(t))
            /\ pc'[t] \in Bound => Kind(t) \in {"shared", "copied"}
  PROVE  CountInv'
<1> USE DEF CountInv
<1>1. Live' = Live
  BY DEF Live
<1>2. ASSUME NEW u \in Threads
      PROVE  \/ pc'[u] = "idle" /\ call'[u] = NoCall /\ pc[u] # "idle" /\ ~Releasing(Kind(u))
             \/ /\ pc'[u] = "idle" <=> pc[u] = "idle"
                /\ call'[u].kind = call[u].kind /\ call'[u].buffer = call[u].buffer
                /\ call'[u].binding = call[u].binding
  OBVIOUS
<1>3. \A u \in Threads : Releasing(call'[u].kind) <=> Releasing(call[u].kind)
  BY <1>2, NoCallOK DEF Releasing, Kind
<1>4. ASSUME NEW b PROVE BeingReleased(b)' <=> BeingReleased(b)
  <2>1. ASSUME NEW u \in Threads
        PROVE  (pc'[u] # "idle" /\ call'[u].kind = "release_buffer" /\ call'[u].buffer = b)
                 <=> (pc[u] # "idle" /\ call[u].kind = "release_buffer" /\ call[u].buffer = b)
    BY <1>2, NoCallOK DEF Releasing, Kind
  <2> QED
    BY <2>1 DEF BeingReleased
<1>5. Owners' = Owners
  BY <1>1, <1>4 DEF Owners
<1>6. KindInv'
  BY NoCallOK DEF KindInv, Kind, Bound, Locked
<1>7. RoleInv'
  <2>1. ASSUME NEW u \in Threads
        PROVE  /\ Kind(u)' = Kind(u) /\ call'[u].buffer = call[u].buffer
                  /\ call'[u].binding = call[u].binding
               \/ Kind(u)' = "none"
    BY <1>2, NoCallOK DEF Kind
  <2>2. ASSUME NEW u \in Threads
        PROVE  /\ Kind(u)' = "create_buffer" => call'[u].buffer \notin Live'
               /\ Kind(u)' = "release_buffer" => call'[u].buffer \in Live'
               /\ Kind(u)' = "release_session" => session' = "released"
               /\ Kind(u)' = "shared" => \A a \in Args : ~BeingReleased(call[u].binding[a])'
    BY <1>1, <1>4, <2>1 DEF RoleInv
  <2>3. ASSUME NEW u \in Threads, NEW v \in Threads,
               OfBuffer(u)', OfBuffer(v)', call'[u].buffer = call'[v].buffer
        PROVE  u = v
    BY <2>1, <2>3 DEF RoleInv, OfBuffer
  <2>4. ASSUME NEW u \in Threads, NEW v \in Threads,
               Kind(u)' = "release_session", Kind(v)' = "release_session"
        PROVE  u = v
    BY <2>1, <2>4 DEF RoleInv
  <2> QED
    BY <2>2, <2>3, <2>4 DEF RoleInv
<1>8. UseInv'
  <2>1. session' \in {"none", "failed"} => Live' = {} /\ \A u \in Threads : pc'[u] = "idle"
    BY <1>1 DEF UseInv
  <2>2. ASSUME NEW u \in Threads, pc'[u] # "idle", ~Releasing(call'[u].kind)
        PROVE  Owners' # {}
    <3>1. pc[u] # "idle" /\ ~Releasing(Kind(u))
      BY <1>2, <1>3, <2>2 DEF Kind
    <3> QED
      BY <1>5, <3>1 DEF UseInv
  <2> QED
    BY <2>1, <2>2 DEF UseInv, Kind
<1>9. Unreleased' = Unreleased
  <2>1. ASSUME NEW u \in Threads
        PROVE  (pc'[u] # "idle" /\ call'[u].kind = "release_session")
                 <=> (pc[u] # "idle" /\ call[u].kind = "release_session")
    BY <1>2, NoCallOK DEF Releasing, Kind
  <2> QED
    BY <2>1 DEF Unreleased, Kind
<1> QED
  BY <1>1, <1>6, <1>7, <1>8, <1>9 DEF ReferencesExact

\* What entering the client's call c does to what the other threads see.
LEMMA BeginEffect ==
  ASSUME ShapeOK, CountInv, NEW t \in Threads, NEW c, Begin(t, c)
  PROVE  /\ pc[t] = "idle" /\ pc'[t] = "enter" /\ call'[t] = c /\ Kind(t) = "none"
         /\ \A u \in Threads \ {t} : pc'[u] = pc[u] /\ call'[u] = call[u]
         /\ UNCHANGED <<references, flags, copied, lock, buffers, resources, memory, driver>>
         /\ Live' = Live
BY DEF Begin, ShapeOK, ClientOK, CountInv, KindInv, Live

\* A call that uses the session keeps the count.
LEMMA UseCount ==
  ASSUME ShapeOK, CountInv, NEW t \in Threads, NEW c, Use(t, c),
         c.kind \in {"shared", "copied", "create_buffer"},
         c.kind = "shared" => \A a \in Args : ~BeingReleased(c.binding[a]),
         c.kind = "create_buffer" =>
           c.buffer \notin Live /\ \A u \in Threads : pc[u] # "idle" => call[u].buffer # c.buffer
  PROVE  CountInv'
<1> USE DEF CountInv
<1>1. /\ pc[t] = "idle" /\ pc'[t] = "enter" /\ call'[t] = c /\ Kind(t) = "none"
      /\ \A u \in Threads \ {t} : pc'[u] = pc[u] /\ call'[u] = call[u]
      /\ Live' = Live /\ references' = references /\ session' = session
  BY BeginEffect DEF Use
<1>2. \A b : BeingReleased(b)' <=> BeingReleased(b)
  BY <1>1, SameReleases
<1>3. Owners' = Owners /\ Owners # {}
  BY <1>1, <1>2 DEF Owners, Use
<1>4. session \notin {"none", "failed"}
  BY <1>3 DEF Owners, UseInv
<1>5. KindInv'
  BY <1>1 DEF KindInv, Kind, Bound, Locked
<1>6. RoleInv'
  <2>1. ASSUME NEW u \in Threads
        PROVE  /\ Kind(u)' = "create_buffer" => call'[u].buffer \notin Live'
               /\ Kind(u)' = "release_buffer" => call'[u].buffer \in Live'
               /\ Kind(u)' = "release_session" => session' = "released"
               /\ Kind(u)' = "shared" => \A a \in Args : ~BeingReleased(call[u].binding[a])'
    BY <1>1, <1>2 DEF RoleInv, Kind
  <2>2. ASSUME NEW u \in Threads, OfBuffer(u)', u # t
        PROVE  pc[u] # "idle" /\ call'[u].buffer = call[u].buffer /\ OfBuffer(u)
    BY <1>1, <2>2 DEF OfBuffer, Kind, KindInv
  <2>3. OfBuffer(t)' => c.kind = "create_buffer"
    BY <1>1 DEF OfBuffer, Kind
  <2>4. ASSUME NEW u \in Threads, NEW v \in Threads,
               OfBuffer(u)', OfBuffer(v)', call'[u].buffer = call'[v].buffer
        PROVE  u = v
    <3>1. CASE u # t /\ v # t
      BY <2>2, <2>4, <3>1 DEF RoleInv
    <3>2. CASE u = t /\ v # t
      BY <1>1, <2>2, <2>3, <2>4, <3>2
    <3>3. CASE v = t /\ u # t
      BY <1>1, <2>2, <2>3, <2>4, <3>3
    <3> QED
      BY <3>1, <3>2, <3>3
  <2>5. ASSUME NEW u \in Threads, NEW v \in Threads,
               Kind(u)' = "release_session", Kind(v)' = "release_session"
        PROVE  u = v
    BY <1>1, <2>5 DEF RoleInv, Kind
  <2> QED
    BY <2>1, <2>4, <2>5 DEF RoleInv
<1>7. UseInv'
  BY <1>1, <1>3, <1>4 DEF UseInv
<1>8. Unreleased' = Unreleased
  BY <1>1 DEF Unreleased, Kind
<1> QED
  BY <1>1, <1>5, <1>6, <1>7, <1>8 DEF ReferencesExact

\* So does the beginning of a buffer's release.
LEMMA ReleaseBufferCount ==
  ASSUME ShapeOK, CountInv, NEW t \in Threads, CallReleaseBuffer(t)
  PROVE  CountInv'
<1> USE DEF CountInv
<1>1. PICK b \in Live : /\ MayRelease(t, b)
                        /\ \A u \in Threads : \A a \in Args : call[u].binding[a] # b
                        /\ Begin(t, [NoCall EXCEPT !.kind = "release_buffer", !.buffer = b])
                        /\ UNCHANGED session
  BY DEF CallReleaseBuffer
<1> DEFINE c == [NoCall EXCEPT !.kind = "release_buffer", !.buffer = b]
<1>2. c.kind = "release_buffer" /\ c.buffer = b
  BY DEF NoCall
<1> HIDE DEF c
<1>3. /\ pc[t] = "idle" /\ pc'[t] = "enter" /\ call'[t] = c /\ Kind(t) = "none"
      /\ \A u \in Threads \ {t} : pc'[u] = pc[u] /\ call'[u] = call[u]
      /\ Live' = Live /\ references' = references /\ session' = session
  BY <1>1, BeginEffect DEF c
<1>4. b \in Buffers /\ b # "session" /\ ~BeingReleased(b)
  BY <1>1 DEF Live, MayRelease, Owners
<1>5. ASSUME NEW d PROVE BeingReleased(d)' <=> BeingReleased(d) \/ d = b
  <2>1. ASSUME NEW u \in Threads
        PROVE  (pc'[u] # "idle" /\ call'[u].kind = "release_buffer" /\ call'[u].buffer = d)
                 <=> \/ u = t /\ d = b
                     \/ pc[u] # "idle" /\ call[u].kind = "release_buffer" /\ call[u].buffer = d
    BY <1>2, <1>3 DEF Kind
  <2> QED
    BY <2>1 DEF BeingReleased
<1>6. Owners' = Owners \ {b}
  BY <1>3, <1>4, <1>5 DEF Owners
<1>7. KindInv'
  BY <1>2, <1>3 DEF KindInv, Kind, Bound, Locked
<1>8. RoleInv'
  <2>1. ASSUME NEW u \in Threads
        PROVE  /\ Kind(u)' = "create_buffer" => call'[u].buffer \notin Live'
               /\ Kind(u)' = "release_buffer" => call'[u].buffer \in Live'
               /\ Kind(u)' = "release_session" => session' = "released"
               /\ Kind(u)' = "shared" => \A a \in Args : ~BeingReleased(call[u].binding[a])'
    BY <1>1, <1>2, <1>3, <1>5 DEF RoleInv, Kind
  <2>2. ASSUME NEW u \in Threads, OfBuffer(u)', u # t
        PROVE  call'[u].buffer = call[u].buffer /\ OfBuffer(u) /\ call[u].buffer # b
    <3>1. call'[u] = call[u] /\ OfBuffer(u)
      BY <1>3, <2>2 DEF OfBuffer, Kind
    <3>2. pc[u] # "idle"
      BY <3>1 DEF OfBuffer, KindInv
    <3> QED
      BY <1>1, <1>4, <3>1, <3>2 DEF OfBuffer, RoleInv, BeingReleased, Kind
  <2>3. ASSUME NEW u \in Threads, NEW v \in Threads,
               OfBuffer(u)', OfBuffer(v)', call'[u].buffer = call'[v].buffer
        PROVE  u = v
    BY <1>2, <1>3, <2>2, <2>3 DEF RoleInv
  <2>4. ASSUME NEW u \in Threads, NEW v \in Threads,
               Kind(u)' = "release_session", Kind(v)' = "release_session"
        PROVE  u = v
    BY <1>2, <1>3, <2>4 DEF RoleInv, Kind
  <2> QED
    BY <2>1, <2>3, <2>4 DEF RoleInv
<1>9. UseInv'
  <2>1. session' \notin {"none", "failed"}
    BY <1>1, <1>3 DEF UseInv
  <2>2. ASSUME NEW u \in Threads, pc'[u] # "idle", ~Releasing(call'[u].kind)
        PROVE  Owners' # {}
    <3>1. u # t
      BY <1>2, <1>3, <2>2 DEF Releasing
    <3>2. pc[u] # "idle" /\ ~Releasing(call[u].kind)
      BY <1>3, <2>2, <3>1
    <3> QED
      BY <1>1, <1>6, <3>1, <3>2 DEF MayRelease
  <2> QED
    BY <2>1, <2>2 DEF UseInv, Kind
<1>10. Unreleased' = Unreleased
  BY <1>2, <1>3 DEF Unreleased, Kind
<1> QED
  BY <1>3, <1>7, <1>8, <1>9, <1>10 DEF ReferencesExact

\* And the beginning of the session's release, which keeps its reference for now.
LEMMA ReleaseSessionCount ==
  ASSUME ShapeOK, CountInv, NEW t \in Threads, CallReleaseSession(t)
  PROVE  CountInv'
<1> USE DEF CountInv
<1> DEFINE c == [NoCall EXCEPT !.kind = "release_session"]
<1>1. c.kind = "release_session"
  BY DEF NoCall
<1>2. MayRelease(t, "session") /\ Begin(t, c) /\ session' = "released"
  BY DEF CallReleaseSession
<1> HIDE DEF c
<1>3. /\ pc[t] = "idle" /\ pc'[t] = "enter" /\ call'[t] = c /\ Kind(t) = "none"
      /\ \A u \in Threads \ {t} : pc'[u] = pc[u] /\ call'[u] = call[u]
      /\ Live' = Live /\ references' = references
  BY <1>2, BeginEffect
<1>4. session = "open"
  BY <1>2 DEF MayRelease, Owners, Live
<1>5. \A b : BeingReleased(b)' <=> BeingReleased(b)
  BY <1>1, <1>3, SameReleases
<1>6. Owners' = Owners \ {"session"}
  BY <1>2, <1>3, <1>5 DEF Owners, Live
<1>7. KindInv'
  BY <1>1, <1>3 DEF KindInv, Kind, Bound, Locked
<1>8. RoleInv'
  <2>1. ASSUME NEW u \in Threads
        PROVE  /\ Kind(u)' = "create_buffer" => call'[u].buffer \notin Live'
               /\ Kind(u)' = "release_buffer" => call'[u].buffer \in Live'
               /\ Kind(u)' = "release_session" => session' = "released"
               /\ Kind(u)' = "shared" => \A a \in Args : ~BeingReleased(call[u].binding[a])'
    BY <1>1, <1>2, <1>3, <1>5 DEF RoleInv, Kind
  <2>2. ASSUME NEW u \in Threads, NEW v \in Threads,
               OfBuffer(u)', OfBuffer(v)', call'[u].buffer = call'[v].buffer
        PROVE  u = v
    BY <1>1, <1>3, <2>2 DEF RoleInv, OfBuffer, Kind
  <2>3. ASSUME NEW u \in Threads, u # t PROVE Kind(u)' # "release_session"
    BY <1>3, <1>4, <2>3 DEF RoleInv, Kind
  <2> QED
    BY <2>1, <2>2, <2>3 DEF RoleInv
<1>9. UseInv'
  <2>1. session' \notin {"none", "failed"}
    BY <1>2
  <2>2. ASSUME NEW u \in Threads, pc'[u] # "idle", ~Releasing(call'[u].kind)
        PROVE  Owners' # {}
    <3>1. u # t
      BY <1>1, <1>3, <2>2 DEF Releasing
    <3>2. pc[u] # "idle" /\ ~Releasing(call[u].kind)
      BY <1>3, <2>2, <3>1
    <3> QED
      BY <1>2, <1>6, <3>1, <3>2 DEF MayRelease
  <2> QED
    BY <2>1, <2>2 DEF UseInv, Kind
<1>10. Unreleased = 1 /\ Unreleased' = 1
  BY <1>1, <1>3, <1>4 DEF Unreleased, Kind
<1> QED
  BY <1>3, <1>7, <1>8, <1>9, <1>10 DEF ReferencesExact

\* The client's calls, whichever begins.
LEMMA ClientCount ==
  ASSUME ShapeOK, CountInv, NEW t \in Threads, Client(t)
  PROVE  CountInv'
<1>1. CASE CallShared(t)
  <2>1. PICK b \in [Args -> Buffers] :
          /\ \A a \in Args : ~BeingReleased(b[a])
          /\ Use(t, [NoCall EXCEPT !.kind = "shared", !.binding = b])
    BY <1>1 DEF CallShared
  <2> DEFINE c == [NoCall EXCEPT !.kind = "shared", !.binding = b]
  <2>2. c.kind = "shared" /\ c.binding = b
    BY DEF NoCall
  <2> HIDE DEF c
  <2> QED
    BY <2>1, <2>2, UseCount DEF c
<1>2. CASE CallCopied(t)
  <2>1. PICK d \in [Inputs -> Data] : Use(t, [NoCall EXCEPT !.kind = "copied", !.data = d])
    BY <1>2 DEF CallCopied
  <2> DEFINE c == [NoCall EXCEPT !.kind = "copied", !.data = d]
  <2>2. c.kind = "copied"
    BY DEF NoCall
  <2> HIDE DEF c
  <2> QED
    BY <2>1, <2>2, UseCount DEF c
<1>3. CASE CallCreateBuffer(t)
  <2>1. PICK b \in Buffers \ Live :
          /\ \A u \in Threads : pc[u] # "idle" => call[u].buffer # b
          /\ Use(t, [NoCall EXCEPT !.kind = "create_buffer", !.buffer = b])
    BY <1>3 DEF CallCreateBuffer
  <2> DEFINE c == [NoCall EXCEPT !.kind = "create_buffer", !.buffer = b]
  <2>2. c.kind = "create_buffer" /\ c.buffer = b
    BY DEF NoCall
  <2> HIDE DEF c
  <2> QED
    BY <2>1, <2>2, UseCount DEF c
<1> QED
  BY <1>1, <1>2, <1>3, ReleaseBufferCount, ReleaseSessionCount DEF Client

\* A new buffer is one more owner.
LEMMA CreateBufferCount ==
  ASSUME ShapeOK, CountInv, NEW t \in Threads, pc[t] = "locked", Kind(t) = "create_buffer",
         NEW a \in Addresses, buffers' = [buffers EXCEPT ![call[t].buffer] = a],
         CountBuffer, Leave(t), UNCHANGED session
  PROVE  CountInv' /\ Live' = Live \cup {call[t].buffer}
<1> USE DEF CountInv
<1> DEFINE b == call[t].buffer
<1>1. /\ pc'[t] = "idle" /\ call'[t] = NoCall
      /\ \A u \in Threads \ {t} : pc'[u] = pc[u] /\ call'[u] = call[u]
      /\ b \in Buffers /\ buffers \in [Buffers -> Allocation]
  BY DEF Leave, ShapeOK, ClientOK, CallOK, Kind
<1>2. b \notin Live
  BY DEF RoleInv
<1>3. Live' = Live \cup {b}
  BY <1>1, SessionAssumption DEF Live
<1>4. \A d : BeingReleased(d)' <=> BeingReleased(d)
  BY <1>1, NoCallOK, SameReleases
<1>5. Owners \subseteq Owners'
  BY <1>3, <1>4 DEF Owners
<1>6. KindInv'
  BY <1>1, NoCallOK DEF KindInv, Kind, Bound, Locked
<1>7. RoleInv'
  <2>1. ASSUME NEW u \in Threads, u # t, OfBuffer(u) PROVE call[u].buffer # b
    BY <2>1 DEF RoleInv, OfBuffer
  <2>2. ASSUME NEW u \in Threads
        PROVE  /\ Kind(u)' = "create_buffer" => call'[u].buffer \notin Live'
               /\ Kind(u)' = "release_buffer" => call'[u].buffer \in Live'
               /\ Kind(u)' = "release_session" => session' = "released"
               /\ Kind(u)' = "shared" => \A i \in Args : ~BeingReleased(call[u].binding[i])'
    BY <1>1, <1>3, <1>4, <2>1, NoCallOK DEF RoleInv, Kind, OfBuffer
  <2>3. ASSUME NEW u \in Threads, NEW v \in Threads,
               OfBuffer(u)', OfBuffer(v)', call'[u].buffer = call'[v].buffer
        PROVE  u = v
    BY <1>1, <2>3, NoCallOK DEF RoleInv, OfBuffer, Kind
  <2>4. ASSUME NEW u \in Threads, NEW v \in Threads,
               Kind(u)' = "release_session", Kind(v)' = "release_session"
        PROVE  u = v
    BY <1>1, <2>4, NoCallOK DEF RoleInv, Kind
  <2> QED
    BY <2>2, <2>3, <2>4 DEF RoleInv
<1>8. UseInv'
  <2>1. session \notin {"none", "failed"}
    BY DEF UseInv
  <2>2. ASSUME NEW u \in Threads, pc'[u] # "idle", ~Releasing(call'[u].kind)
        PROVE  Owners' # {}
    BY <1>1, <1>5, <2>2 DEF UseInv, Kind
  <2> QED
    BY <2>1, <2>2 DEF UseInv, Kind
<1>9. Unreleased' = Unreleased
  BY <1>1, NoCallOK DEF Unreleased, Kind
<1>10. Cardinality(Live') = Cardinality(Live) + 1
  BY <1>2, <1>3, LiveCount, FS_AddElement
<1>11. references' = references + 1 /\ references = Unreleased + Cardinality(Live)
       /\ Unreleased \in {0, 1}
  BY DEF CountBuffer, ReferencesExact, Unreleased
<1>12. ReferencesExact'
  BY <1>9, <1>10, <1>11, LiveCount DEF ReferencesExact
<1> QED
  BY <1>3, <1>6, <1>7, <1>8, <1>12

\* A release that drops its reference is one owner less, and it was none of those that
\* keep the session for a call.
LEMMA UnrefCount ==
  ASSUME ShapeOK, CountInv, NEW t \in Threads, Unref(t)
  PROVE  /\ CountInv'
         /\ Live' = IF Kind(t) = "release_buffer" THEN Live \ {call[t].buffer} ELSE Live
<1> USE DEF CountInv
<1> DEFINE b == call[t].buffer
<1>1. /\ pc[t] = "unref" /\ pc'[t] = "idle" /\ call'[t] = NoCall
      /\ \A u \in Threads \ {t} : pc'[u] = pc[u] /\ call'[u] = call[u]
      /\ session' = session /\ references' = references - 1
  BY DEF Unref, ShapeOK, ClientOK
<1>2. Kind(t) \in {"release_buffer", "release_session"}
  BY <1>1 DEF KindInv, Releasing
<1>3. Live' = IF Kind(t) = "release_buffer" THEN Live \ {b} ELSE Live
  <2>1. buffers' = [d \in Buffers |->
          IF Kind(t) = "release_buffer" /\ d = b THEN Null ELSE buffers[d]]
    BY DEF Unref
  <2> QED
    BY <2>1 DEF Live
<1>4. \A u \in Threads \ {t} : OfBuffer(u) /\ Kind(t) = "release_buffer" => call[u].buffer # b
  BY DEF RoleInv, OfBuffer
<1>5. ASSUME NEW d \in Live' PROVE BeingReleased(d)' <=> BeingReleased(d)
  <2>1. ASSUME NEW u \in Threads
        PROVE  (pc'[u] # "idle" /\ call'[u].kind = "release_buffer" /\ call'[u].buffer = d)
                 <=> (pc[u] # "idle" /\ call[u].kind = "release_buffer" /\ call[u].buffer = d)
    BY <1>1, <1>3, <1>5 DEF Kind
  <2> QED
    BY <2>1 DEF BeingReleased
<1>6. ASSUME NEW d, BeingReleased(d)' PROVE BeingReleased(d)
  BY <1>1, <1>6, NoCallOK DEF BeingReleased
<1>7. Owners' = Owners
  <2>1. Kind(t) = "release_buffer" => BeingReleased(b)
    BY <1>1 DEF BeingReleased, Kind
  <2> QED
    BY <1>1, <1>3, <1>5, <2>1 DEF Owners
<1>8. KindInv'
  BY <1>1, NoCallOK DEF KindInv, Kind, Bound, Locked
<1>9. RoleInv'
  <2>1. ASSUME NEW u \in Threads
        PROVE  /\ Kind(u)' = "create_buffer" => call'[u].buffer \notin Live'
               /\ Kind(u)' = "release_buffer" => call'[u].buffer \in Live'
               /\ Kind(u)' = "release_session" => session' = "released"
               /\ Kind(u)' = "shared" => \A i \in Args : ~BeingReleased(call[u].binding[i])'
    BY <1>1, <1>3, <1>4, <1>6, NoCallOK DEF RoleInv, Kind, OfBuffer
  <2>2. ASSUME NEW u \in Threads, NEW v \in Threads,
               OfBuffer(u)', OfBuffer(v)', call'[u].buffer = call'[v].buffer
        PROVE  u = v
    BY <1>1, <2>2, NoCallOK DEF RoleInv, OfBuffer, Kind
  <2>3. ASSUME NEW u \in Threads, NEW v \in Threads,
               Kind(u)' = "release_session", Kind(v)' = "release_session"
        PROVE  u = v
    BY <1>1, <2>3, NoCallOK DEF RoleInv, Kind
  <2> QED
    BY <2>1, <2>2, <2>3 DEF RoleInv
<1>10. UseInv'
  <2>1. session \notin {"none", "failed"}
    BY <1>1 DEF UseInv
  <2>2. ASSUME NEW u \in Threads, pc'[u] # "idle", ~Releasing(call'[u].kind)
        PROVE  Owners' # {}
    BY <1>1, <1>7, <2>2 DEF UseInv, Kind
  <2> QED
    BY <1>1, <2>1, <2>2 DEF UseInv, Kind
<1>11. ReferencesExact'
  <2>1. references = Unreleased + Cardinality(Live) /\ Unreleased \in {0, 1}
    BY DEF ReferencesExact, Unreleased
  <2>2. CASE Kind(t) = "release_buffer"
    <3>1. Unreleased' = Unreleased
      BY <1>1, <2>2, NoCallOK DEF Unreleased, Kind
    <3>2. b \in Live
      BY <2>2 DEF RoleInv
    <3>3. Cardinality(Live') = Cardinality(Live) - 1
      BY <1>3, <2>2, <3>2, LiveCount, FS_RemoveElement
    <3> QED
      BY <1>1, <2>1, <3>1, <3>3, LiveCount DEF ReferencesExact
  <2>3. CASE Kind(t) = "release_session"
    <3>1. Unreleased = 1
      BY <1>1, <2>3 DEF Unreleased
    <3>2. \A u \in Threads \ {t} : Kind(u) # "release_session"
      BY <2>3 DEF RoleInv
    <3>3. session = "released"
      BY <2>3 DEF RoleInv
    <3>4. Unreleased' = 0
      BY <1>1, <3>2, <3>3, NoCallOK DEF Unreleased, Kind
    <3> QED
      BY <1>1, <1>3, <2>1, <2>3, <3>1, <3>4, LiveCount DEF ReferencesExact
  <2> QED
    BY <1>2, <2>2, <2>3
<1> QED
  BY <1>3, <1>8, <1>9, <1>10, <1>11

\* Every step of the session, its clients and the device keeps the count.
LEMMA NextCount ==
  ASSUME ShapeOK, Serialized, RecordingInv, CountInv, [Next]_vars
  PROVE  CountInv'
<1>t. /\ pc \in [Threads -> Locked \cup {"idle", "enter", "unref"}]
      /\ call \in [Threads -> Calls]
  BY DEF ShapeOK, ClientOK
<1>1. CASE Create
  <2>1. /\ session = "none" /\ UNCHANGED <<buffers, pc, call>>
        /\ \/ session' = "open" /\ references' = 1
           \/ session' = "failed" /\ references' = references
    BY <1>1 DEF Create
  <2>2. Live = {} /\ Live' = {} /\ \A t \in Threads : pc[t] = "idle" /\ pc'[t] = "idle"
    BY <2>1 DEF CountInv, UseInv, Live
  <2>3. \A t \in Threads : Kind(t) = "none" /\ Kind(t)' = "none"
    BY <2>1, <2>2 DEF CountInv, KindInv, Kind
  <2>4. KindInv' /\ RoleInv' /\ UseInv'
    BY <2>2, <2>3 DEF KindInv, RoleInv, UseInv, OfBuffer, Bound, Locked
  <2>5. Cardinality({}) = 0
    BY FS_EmptySet
  <2>6. ReferencesExact'
    BY <2>1, <2>2, <2>5 DEF CountInv, ReferencesExact, Unreleased
  <2> QED
    BY <2>4, <2>6 DEF CountInv
<1>2. ASSUME NEW t \in Threads, Client(t) PROVE CountInv'
  BY <1>2, ClientCount
<1>3. ASSUME NEW t \in Threads, Enter(t) PROVE CountInv'
  <2>1. /\ pc[t] = "enter" /\ pc'[t] = "locked" /\ UNCHANGED <<call, references, session, buffers>>
        /\ \A u \in Threads \ {t} : pc'[u] = pc[u]
    BY <1>3, <1>t DEF Enter
  <2> QED
    BY <2>1, ContinueCount DEF Bound
<1>4. ASSUME NEW t \in Threads, Holder(t) PROVE CountInv'
  <2>1. /\ pc[t] \in Locked /\ pc[t] # "idle"
        /\ \A u \in Threads \ {t} : pc'[u] = pc[u] /\ call'[u] = call[u]
    BY <1>4, HolderLock, HolderOthers DEF Locked
  <2>2. ASSUME Leave(t), ~Releasing(Kind(t)), UNCHANGED <<references, session, buffers>>
        PROVE  CountInv'
    <3>1. pc'[t] = "idle" /\ call'[t] = NoCall
      BY <1>t, <2>2 DEF Leave
    <3> QED
      BY <2>1, <2>2, <3>1, ContinueCount
  <2>3. CASE pc[t] # "locked"
    <3>1. Kind(t) \in {"shared", "copied"}
      BY <2>1, <2>3 DEF CountInv, KindInv, Bound
    <3>2. /\ UNCHANGED <<references, session, buffers>>
          /\ \/ pc'[t] = "idle" /\ call'[t] = NoCall
             \/ /\ pc'[t] \in Bound /\ call'[t].kind = call[t].kind
                /\ call'[t].binding = call[t].binding /\ call'[t].buffer = call[t].buffer
      BY <1>4, <2>3, HolderContinues
    <3>3. pc'[t] \in Bound => pc'[t] \notin {"idle", "unref"}
      BY DEF Bound, Locked
    <3> QED
      BY <2>1, <3>1, <3>2, <3>3, ContinueCount DEF Releasing
  <2>4. CASE Refuse(t) \/ BindShared(t) \/ BindCopied(t)
    <3>1. ~Releasing(Kind(t)) /\ UNCHANGED <<references, session, buffers>>
      BY <2>4 DEF Refuse, BindShared, BindCopied, Releasing
    <3>2. \/ Leave(t)
          \/ /\ pc'[t] = "prepare" /\ Kind(t) \in {"shared", "copied"}
             /\ call'[t].kind = call[t].kind /\ call'[t].buffer = call[t].buffer
             /\ call'[t].binding = call[t].binding
      BY <1>t, <2>4 DEF Refuse, BindShared, BindCopied, Go, Calls
    <3> QED
      BY <2>1, <2>2, <3>1, <3>2, ContinueCount
  <2>5. CASE ReleaseBuffer(t) \/ ReleaseSession(t)
    <3>1. /\ Releasing(Kind(t)) /\ pc'[t] = "unref"
          /\ UNCHANGED <<call, references, session, buffers>>
      BY <1>t, <2>5 DEF ReleaseBuffer, ReleaseSession, Releasing
    <3> QED
      BY <2>1, <3>1, ContinueCount DEF Bound, Locked
  <2>6. CASE CreateBuffer(t)
    <3>1. pc[t] = "locked" /\ Kind(t) = "create_buffer" /\ UNCHANGED session
      BY <2>6 DEF CreateBuffer, AtLocked
    <3>2. CASE UNCHANGED <<references, buffers>> /\ Leave(t)
      BY <2>2, <3>1, <3>2 DEF Releasing
    <3>3. CASE \E a \in Addresses : /\ buffers' = [buffers EXCEPT ![call[t].buffer] = a]
                                    /\ CountBuffer /\ Leave(t)
      BY <3>1, <3>3, CreateBufferCount
    <3> QED
      BY <2>6, <3>2, <3>3 DEF CreateBuffer
  <2> QED
    BY <1>4, <2>3, <2>4, <2>5, <2>6
       DEF Holder, Prepare, PreInit, SetArguments, RefuseSubmission, CreateResources, ResetList,
           ResetFence, AppendCommand, CloseList, Execute, SubmissionFails, DriverCall,
           FenceSignalled, Complete
<1>5. ASSUME NEW t \in Threads, Unref(t) PROVE CountInv'
  BY <1>5, UnrefCount
<1>6. CASE DeviceRun \/ UNCHANGED vars
  <2>1. UNCHANGED <<references, session, buffers, pc, call>>
    BY <1>6 DEF DeviceRun, vars
  <2> QED
    BY <2>1 DEF CountInv, KindInv, RoleInv, UseInv, ReferencesExact, Kind, Live, Owners,
                BeingReleased, OfBuffer, Unreleased
<1> QED
  BY <1>1, <1>2, <1>3, <1>4, <1>5, <1>6 DEF Next

\* A step after which the same buffers hold the same memory, and every bound call is one
\* that was bound to the same before, keeps the memory.
LEMMA MemoryKept ==
  ASSUME AllocInv, WantInv, UNCHANGED <<owner, buffers, copied>>, Held' = Held,
         references' = 0 => references = 0,
         \A u \in Threads : pc'[u] \in Bound =>
           /\ pc[u] \in Bound /\ call'[u].kind = call[u].kind
           /\ call'[u].binding = call[u].binding /\ call'[u].want = call[u].want
  PROVE  AllocInv' /\ WantInv'
<1>1. AllocInv'
  BY DEF AllocInv
<1>2. Live' = Live
  BY DEF Live
<1>3. WantInv'
  BY <1>2 DEF WantInv, Kind
<1> QED
  BY <1>1, <1>3

\* Where nobody reaches or leaves the end of a release, the same buffers are held.
LEMMA HeldKept ==
  ASSUME UNCHANGED buffers,
         \A u \in Threads : pc'[u] = "unref" /\ call'[u].kind = "release_buffer"
                              <=> pc[u] = "unref" /\ call[u].kind = "release_buffer",
         \A u \in Threads : pc[u] = "unref" => call'[u] = call[u]
  PROVE  Held' = Held
<1>1. ASSUME NEW b PROVE Freed(b)' <=> Freed(b)
  BY DEF Freed, Kind
<1> QED
  BY <1>1 DEF Held, Live

\* Allocating a buffer takes memory that was nobody's.
LEMMA CreateBufferMemory ==
  ASSUME ShapeOK, Serialized, BoundInv, CountInv, AllocInv, NEW t \in Threads,
         pc[t] = "locked", Kind(t) = "create_buffer", NEW a \in Addresses, owner[a] = "free",
         owner' = [owner EXCEPT ![a] = "shared"],
         buffers' = [buffers EXCEPT ![call[t].buffer] = a],
         CountBuffer, Leave(t), UNCHANGED <<session, copied>>
  PROVE  AllocInv' /\ WantInv'
<1> DEFINE b == call[t].buffer
<1>1. /\ owner \in [Addresses -> {"free", "shared", "copied"}]
      /\ buffers \in [Buffers -> Allocation] /\ b \in Buffers /\ Null \notin Addresses
      /\ pc'[t] = "idle" /\ call'[t] = NoCall
      /\ \A u \in Threads \ {t} : pc'[u] = pc[u] /\ call'[u] = call[u]
  BY DEF ShapeOK, DriverOK, ClientOK, CallOK, Kind, Leave
<1>2. /\ \A u \in Threads \ {t} : pc'[u] \notin Locked
      /\ WantInv'
  <2>1. \A u \in Threads \ {t} : pc'[u] \notin Locked
    BY <1>1 DEF Serialized, Locked
  <2> QED
    BY <1>1, <2>1 DEF WantInv, Bound, Locked
<1>3. Live' = Live \cup {b} /\ b \notin Live /\ CountInv'
  BY CreateBufferCount DEF CountInv, RoleInv
<1>4. ASSUME NEW d PROVE Freed(d)' <=> Freed(d)
  BY <1>1, NoCallOK, SameReleases
<1>5. ~Freed(b)
  BY DEF Freed, CountInv, RoleInv, OfBuffer
<1>6. Held' = Held \cup {b}
  BY <1>3, <1>4, <1>5 DEF Held
<1>7. \A c \in Held : c \in Buffers /\ c # b /\ buffers'[c] = buffers[c] /\ buffers[c] \in Addresses
  BY <1>1, <1>3 DEF Held, Live, Allocation
<1>8. buffers'[b] = a /\ owner'[a] = "shared"
  BY <1>1
<1>9. \A c \in Held : buffers[c] # a /\ owner'[buffers[c]] = "shared"
  BY <1>1, <1>7 DEF AllocInv
<1>10. \A c \in Held' : owner'[buffers'[c]] = "shared"
  BY <1>6, <1>7, <1>8, <1>9
<1>11. \A c, d \in Held' : buffers'[c] = buffers'[d] => c = d
  BY <1>6, <1>7, <1>8, <1>9 DEF AllocInv
<1>12. ASSUME NEW x \in Addresses, owner'[x] = "shared" PROVE \E c \in Held' : buffers'[c] = x
  <2>1. CASE x = a
    BY <1>6, <1>8, <2>1
  <2>2. CASE x # a
    <3>1. owner[x] = "shared"
      BY <1>1, <1>12, <2>2
    <3> QED
      BY <1>6, <1>7, <3>1 DEF AllocInv
  <2> QED
    BY <2>1, <2>2
<1>13. copied' # NoAllocations => \A i \in Args : owner'[copied'[i]] = "copied"
  <2> SUFFICES ASSUME copied # NoAllocations, NEW i \in Args PROVE owner'[copied[i]] = "copied"
    OBVIOUS
  <2>1. owner[copied[i]] = "copied" /\ copied[i] \in Addresses
    BY DEF AllocInv, BoundInv
  <2>2. copied[i] # a
    BY <2>1
  <2> QED
    BY <1>1, <2>1, <2>2
<1>14. references' # 0
  BY <1>3, BusyCounted, LiveCount DEF Counted, CountBuffer, CountInv, ReferencesExact, Unreleased
<1> QED
  BY <1>2, <1>10, <1>11, <1>12, <1>13, <1>14 DEF AllocInv

\* Freeing a buffer's memory takes it from nobody else.
LEMMA ReleaseBufferMemory ==
  ASSUME ShapeOK, Serialized, BoundInv, CountInv, AllocInv, NEW t \in Threads, ReleaseBuffer(t)
  PROVE  AllocInv' /\ WantInv'
<1> DEFINE b == call[t].buffer
<1>1. /\ owner \in [Addresses -> {"free", "shared", "copied"}]
      /\ buffers \in [Buffers -> Allocation]
      /\ pc \in [Threads -> Locked \cup {"idle", "enter", "unref"}]
  BY DEF ShapeOK, DriverOK, ClientOK
<1>2. /\ pc[t] = "locked" /\ Kind(t) = "release_buffer" /\ pc'[t] = "unref"
      /\ \A u \in Threads \ {t} : pc'[u] = pc[u]
      /\ owner' = [owner EXCEPT ![buffers[b]] = "free"]
      /\ UNCHANGED <<references, buffers, call, copied>>
  BY <1>1 DEF ReleaseBuffer, AtLocked
<1>3. \A u \in Threads : pc'[u] \notin Bound
  BY <1>2 DEF Serialized, Bound, Locked
<1>4. b \in Live /\ b \in Buffers /\ buffers[b] \in Addresses
  BY <1>1, <1>2 DEF CountInv, RoleInv, Live, Allocation
<1>5. \A u \in Threads \ {t} : OfBuffer(u) => call[u].buffer # b
  BY <1>2 DEF CountInv, RoleInv, OfBuffer
<1>6. b \in Held
  BY <1>2, <1>4, <1>5 DEF Held, Freed, OfBuffer
<1>7. ASSUME NEW d PROVE Freed(d)' <=> Freed(d) \/ d = b
  <2>1. ASSUME NEW u \in Threads
        PROVE  (pc'[u] = "unref" /\ call'[u].kind = "release_buffer" /\ call'[u].buffer = d)
                 <=> \/ u = t /\ d = b
                     \/ pc[u] = "unref" /\ call[u].kind = "release_buffer" /\ call[u].buffer = d
    BY <1>2 DEF Kind
  <2> QED
    BY <2>1 DEF Freed, Kind
<1>8. Held' = Held \ {b}
  BY <1>2, <1>7 DEF Held, Live
<1>9. \A c \in Held : c \in Buffers /\ buffers[c] \in Addresses
  BY <1>1 DEF Held, Live, Allocation
<1>10. \A c \in Held' : owner'[buffers'[c]] = "shared"
  BY <1>1, <1>2, <1>4, <1>6, <1>8, <1>9 DEF AllocInv
<1>11. \A c, d \in Held' : buffers'[c] = buffers'[d] => c = d
  BY <1>2, <1>8 DEF AllocInv
<1>12. \A x \in Addresses : owner'[x] = "shared" => \E c \in Held' : buffers'[c] = x
  <2> SUFFICES ASSUME NEW x \in Addresses, owner'[x] = "shared"
               PROVE  \E c \in Held' : buffers'[c] = x
    OBVIOUS
  <2>1. x # buffers[b] /\ owner[x] = "shared"
    BY <1>1, <1>2, <1>4
  <2>2. PICK c \in Held : buffers[c] = x
    BY <2>1 DEF AllocInv
  <2> QED
    BY <1>2, <1>8, <2>1, <2>2
<1>13. copied' # NoAllocations => \A i \in Args : owner'[copied'[i]] = "copied"
  <2> SUFFICES ASSUME copied # NoAllocations, NEW i \in Args PROVE owner'[copied[i]] = "copied"
    BY <1>2
  <2>1. owner[copied[i]] = "copied" /\ copied[i] \in Addresses
    BY DEF AllocInv, BoundInv
  <2>2. copied[i] # buffers[b]
    BY <1>6, <2>1 DEF AllocInv
  <2> QED
    BY <1>1, <1>2, <1>4, <2>1, <2>2
<1>14. references' = 0 => \A x \in Addresses : owner'[x] # "copied"
  BY <1>1, <1>2, <1>4 DEF AllocInv
<1> QED
  BY <1>3, <1>10, <1>11, <1>12, <1>13, <1>14 DEF AllocInv, WantInv

\* Allocating the copied tensors takes memory that was nobody's.
LEMMA CopiedMemory ==
  ASSUME ShapeOK, Serialized, CountInv, AllocInv, NEW t \in Threads, pc[t] = "locked",
         copied = NoAllocations,
         NEW where \in [Args -> {a \in Addresses : owner[a] = "free"}], copied' = where,
         owner' = [x \in Addresses |-> IF \E i \in Args : where[i] = x THEN "copied" ELSE owner[x]],
         call' = [call EXCEPT ![t].want = where], Go(t, "prepare"), Kind(t) = "copied",
         UNCHANGED <<references, buffers>>
  PROVE  AllocInv' /\ WantInv'
<1>1. /\ owner \in [Addresses -> {"free", "shared", "copied"}]
      /\ buffers \in [Buffers -> Allocation]
      /\ pc \in [Threads -> Locked \cup {"idle", "enter", "unref"}]
      /\ call \in [Threads -> Calls]
  BY DEF ShapeOK, DriverOK, ClientOK
<1>2. /\ pc'[t] = "prepare" /\ \A u \in Threads \ {t} : pc'[u] = pc[u] /\ call'[u] = call[u]
      /\ call'[t].want = where /\ call'[t].kind = "copied"
  BY <1>1 DEF Go, Calls, Kind
<1>3. \A u \in Threads \ {t} : pc'[u] \notin Locked
  BY <1>2 DEF Serialized, Locked
<1>4. copied' # NoAllocations
  <2>1. 1 \in Args
    BY DEF Args
  <2>2. where[1] \in Addresses /\ NoAllocations[1] = Null
    BY <2>1 DEF NoAllocations
  <2> QED
    BY <2>2
<1>5. WantInv'
  BY <1>2, <1>3, <1>4 DEF WantInv, Kind, Bound
<1>6. Held' = Held
  <2>1. \A u \in Threads : /\ pc'[u] = "unref" /\ call'[u].kind = "release_buffer"
                                <=> pc[u] = "unref" /\ call[u].kind = "release_buffer"
                           /\ pc[u] = "unref" => call'[u] = call[u]
    BY <1>2
  <2> QED
    BY <2>1, HeldKept
<1>7. \A i \in Args : where[i] \in Addresses /\ owner[where[i]] = "free"
  OBVIOUS
<1>8. \A x \in Addresses : owner[x] = "shared" <=> owner'[x] = "shared"
  BY <1>1, <1>7
<1>9. \A c \in Held : buffers[c] \in Addresses
  BY <1>1 DEF Held, Live, Allocation
<1>10. \A i \in Args : owner'[copied'[i]] = "copied"
  BY <1>7
<1>11. references' # 0
  BY BusyCounted DEF Counted
<1>12. AllocInv'
  BY <1>6, <1>8, <1>9, <1>10, <1>11 DEF AllocInv
<1> QED
  BY <1>5, <1>12

\* Dropping a reference takes nothing that is held or bound; the last one finds nothing left
\* but the copied tensors.
LEMMA UnrefMemory ==
  ASSUME ShapeOK, BoundInv, LifeInv, NEW t \in Threads, Unref(t)
  PROVE  AllocInv' /\ WantInv' /\ ContextInv'
<1> USE DEF LifeInv
<1> DEFINE b == call[t].buffer
<1>1. /\ owner \in [Addresses -> {"free", "shared", "copied"}]
      /\ pc \in [Threads -> Locked \cup {"idle", "enter", "unref"}]
      /\ call \in [Threads -> Calls] /\ call' = [call EXCEPT ![t] = NoCall]
      /\ pc[t] = "unref" /\ pc' = [pc EXCEPT ![t] = "idle"]
  BY DEF ShapeOK, DriverOK, ClientOK, Unref
<1>2. /\ pc'[t] = "idle" /\ call'[t] = NoCall
      /\ \A u \in Threads \ {t} : pc'[u] = pc[u] /\ call'[u] = call[u]
  BY <1>1
<1>3. /\ CountInv'
      /\ Live' = IF Kind(t) = "release_buffer" THEN Live \ {b} ELSE Live
  BY UnrefCount
<1>4. ASSUME NEW c \in Buffers, ~(Kind(t) = "release_buffer" /\ c = b)
      PROVE  buffers'[c] = buffers[c]
  BY <1>4 DEF Unref
<1>5. ASSUME NEW d, ~(Kind(t) = "release_buffer" /\ d = b) PROVE Freed(d)' <=> Freed(d)
  <2>1. ASSUME NEW u \in Threads
        PROVE  (pc'[u] = "unref" /\ call'[u].kind = "release_buffer" /\ call'[u].buffer = d)
                 <=> pc[u] = "unref" /\ call[u].kind = "release_buffer" /\ call[u].buffer = d
    BY <1>1, <1>2, <1>5 DEF Kind
  <2> QED
    BY <2>1 DEF Freed, Kind
<1>6. Kind(t) = "release_buffer" => Freed(b)
  BY <1>1 DEF Freed
<1>7. Held' = Held
  BY <1>3, <1>5, <1>6 DEF Held
<1>8. \A c \in Held : c \in Buffers /\ buffers'[c] = buffers[c]
  BY <1>4, <1>6 DEF Held, Live
<1>9. /\ \A u \in Threads : pc[u] # "idle" => references # 0
      /\ \A u \in Threads : pc'[u] # "idle" => references' # 0
  <2>1. CountInv' => Counted'
    BY BusyCounted, PTL
  <2> QED
    BY <1>3, <2>1, BusyCounted DEF Counted
<1>10. CASE references' = 0
  <2>1. /\ owner' = [a \in Addresses |-> IF owner[a] = "copied" THEN "free" ELSE owner[a]]
        /\ copied' = NoAllocations /\ resources' = {}
    BY <1>10 DEF Unref, LastReference
  <2>2. \A x \in Addresses : (owner'[x] = "shared" <=> owner[x] = "shared") /\ owner'[x] # "copied"
    BY <1>1, <2>1
  <2>3. \A c \in Held : buffers[c] \in Addresses
    BY DEF Held, Live, ShapeOK, ClientOK, Allocation
  <2>4. AllocInv'
    BY <1>7, <1>8, <2>1, <2>2, <2>3 DEF AllocInv
  <2>5. WantInv'
    BY <1>9, <1>10 DEF WantInv, Bound, Locked
  <2> QED
    BY <1>10, <2>1, <2>4, <2>5 DEF ContextInv
<1>11. CASE references' # 0
  <2>1. UNCHANGED <<owner, copied, resources>>
    BY <1>11 DEF Unref, LastReference
  <2>2. AllocInv'
    BY <1>7, <1>8, <1>11, <2>1 DEF AllocInv
  <2>3. ASSUME NEW u \in Threads, pc'[u] \in Bound
        PROVE  /\ Kind(u)' = "shared" => \A a \in Args :
                    call'[u].binding[a] \in Live' /\ call'[u].want[a] = buffers'[call'[u].binding[a]]
               /\ Kind(u)' = "copied" => copied' # NoAllocations /\ call'[u].want = copied'
    <3>1. u # t /\ pc[u] \in Bound /\ call'[u] = call[u]
      BY <1>2, <2>3 DEF Bound, Locked
    <3>2. CASE Kind(u) = "shared"
      <4>1. ASSUME NEW a \in Args
            PROVE  ~(Kind(t) = "release_buffer" /\ call[u].binding[a] = b)
        BY <1>1, <3>2 DEF CountInv, RoleInv, BeingReleased, Kind
      <4>2. \A a \in Args : call[u].binding[a] \in Live /\ call[u].binding[a] \in Buffers
        BY <3>1, <3>2 DEF WantInv, Live
      <4>3. \A a \in Args : call[u].binding[a] \in Live'
        BY <1>3, <4>1, <4>2
      <4>4. \A a \in Args : buffers'[call[u].binding[a]] = buffers[call[u].binding[a]]
        BY <1>4, <4>1, <4>2
      <4> QED
        BY <3>1, <3>2, <4>3, <4>4 DEF WantInv, Kind
    <3>3. CASE Kind(u) # "shared"
      BY <2>1, <3>1, <3>3 DEF WantInv, Kind
    <3> QED
      BY <3>2, <3>3
  <2>4. ContextInv'
    BY <1>1, <1>9, <1>11, <2>1 DEF ContextInv
  <2> QED
    BY <2>2, <2>3, <2>4 DEF WantInv
<1> QED
  BY <1>10, <1>11

\* Every step inside of the critical section keeps the memory.
LEMMA HolderMemory ==
  ASSUME ShapeOK, Serialized, RecordingInv, BoundInv, LifeInv, NEW t \in Threads, Holder(t)
  PROVE  AllocInv' /\ WantInv' /\ ContextInv'
<1> USE DEF LifeInv
<1>t. /\ pc \in [Threads -> Locked \cup {"idle", "enter", "unref"}]
      /\ call \in [Threads -> Calls] /\ CallOK(call[t])
      /\ buffers \in [Buffers -> Allocation]
  BY DEF ShapeOK, ClientOK
<1>o. /\ \A u \in Threads \ {t} : pc'[u] = pc[u] /\ call'[u] = call[u] /\ pc[u] \notin Locked
      /\ pc[t] \in Locked
  BY HolderOthers, HolderLock DEF Serialized
<1>b. \A u \in Threads \ {t} : pc'[u] \notin Bound
  BY <1>o DEF Bound
<1>r. references # 0
  BY <1>o, BusyCounted DEF Counted, Locked
<1>i. ASSUME Leave(t) PROVE pc'[t] = "idle" /\ call'[t] = NoCall
  BY <1>i, <1>t DEF Leave
\* a step that neither begins nor ends the freeing of a buffer
<1>h. ASSUME pc'[t] # "unref" \/ call'[t].kind = "release_session", UNCHANGED buffers
      PROVE  Held' = Held
  <2>1. \A u \in Threads : /\ pc'[u] = "unref" /\ call'[u].kind = "release_buffer"
                                <=> pc[u] = "unref" /\ call[u].kind = "release_buffer"
                           /\ pc[u] = "unref" => call'[u] = call[u]
    BY <1>h, <1>o DEF Locked
  <2> QED
    BY <1>h, <2>1, HeldKept
<1>c. ASSUME "context" \in resources => "context" \in resources', references' # 0
      PROVE  ContextInv'
  BY <1>c, <1>r DEF ContextInv
<1>1. CASE pc[t] # "locked"
  <2>1. /\ UNCHANGED <<copied, owner, references, buffers>>
        /\ \/ pc'[t] = "idle"
           \/ /\ pc'[t] \in Bound /\ call'[t].kind = call[t].kind
              /\ call'[t].want = call[t].want /\ call'[t].binding = call[t].binding
    BY <1>1, HolderContinues
  <2>2. pc[t] \in Bound /\ pc'[t] # "unref" /\ "idle" \notin Bound
    BY <1>1, <1>o, <2>1 DEF Bound, Locked
  <2>3. AllocInv' /\ WantInv'
    BY <1>b, <1>h, <2>1, <2>2, MemoryKept
  <2>4. "context" \in resources => "context" \in resources'
    BY <1>1 DEF Holder, Refuse, CreateBuffer, ReleaseBuffer, ReleaseSession, BindShared,
       BindCopied, AtLocked, Prepare, PreInit, SetArguments, RefuseSubmission, CreateResources,
       ResetList, ResetFence, AppendCommand, CloseList, Execute, SubmissionFails,
       FenceSignalled, Complete
  <2> QED
    BY <1>c, <1>r, <2>1, <2>3, <2>4
<1>2. ASSUME Leave(t), UNCHANGED <<references, buffers, copied, owner, resources>>
      PROVE  AllocInv' /\ WantInv' /\ ContextInv'
  <2>1. Held' = Held
    BY <1>h, <1>i, <1>2
  <2>2. AllocInv' /\ WantInv'
    BY <1>b, <1>i, <1>2, <2>1, MemoryKept DEF Bound, Locked
  <2> QED
    BY <1>2, <1>c, <1>r, <2>2
<1>3. CASE Refuse(t)
  BY <1>2, <1>3 DEF Refuse, memory
<1>4. CASE CreateBuffer(t)
  <2>1. /\ pc[t] = "locked" /\ Kind(t) = "create_buffer" /\ UNCHANGED <<session, copied, resources>>
    BY <1>4 DEF CreateBuffer, AtLocked
  <2>2. CASE Leave(t) /\ UNCHANGED <<memory, buffers, references>>
    BY <1>2, <2>1, <2>2 DEF memory
  <2>3. CASE \E a \in Addresses :
               /\ owner[a] = "free" /\ owner' = [owner EXCEPT ![a] = "shared"]
               /\ buffers' = [buffers EXCEPT ![call[t].buffer] = a]
               /\ CountBuffer /\ Leave(t)
    <3>1. AllocInv' /\ WantInv'
      BY <2>1, <2>3, CreateBufferMemory
    <3>2. references' # 0
      BY <2>3, BusyCounted DEF Counted, CountBuffer
    <3> QED
      BY <1>c, <2>1, <3>1, <3>2
  <2> QED
    BY <1>4, <2>2, <2>3 DEF CreateBuffer
<1>5. CASE ReleaseBuffer(t)
  BY <1>5, <1>c, <1>r, ReleaseBufferMemory DEF ReleaseBuffer
<1>6. CASE ReleaseSession(t)
  <2>1. /\ UNCHANGED <<owner, copied, buffers, references, call>>
        /\ pc'[t] = "unref" /\ Kind(t) = "release_session"
        /\ "context" \in resources => "context" \in resources'
    BY <1>6, <1>t DEF ReleaseSession, memory
  <2>2. Held' = Held
    BY <1>h, <2>1 DEF Kind
  <2>3. AllocInv' /\ WantInv'
    BY <1>b, <2>1, <2>2, MemoryKept DEF Bound, Locked
  <2> QED
    BY <1>c, <1>r, <2>1, <2>3
<1>7. CASE BindShared(t)
  <2>1. /\ UNCHANGED <<owner, copied, buffers, references, resources>>
        /\ pc'[t] = "prepare" /\ call'[t].kind = "shared" /\ Kind(t) = "shared"
        /\ call'[t].binding = call[t].binding
        /\ call'[t].want = [a \in Args |-> buffers[call[t].binding[a]]]
        /\ \A a \in Args : buffers[call[t].binding[a]] # Null
    BY <1>7, <1>t DEF BindShared, memory, Go, Calls, Kind
  <2>2. call[t].binding \in [Args -> Buffers]
    BY <1>t, <2>1 DEF CallOK, Kind
  <2>3. Held' = Held
    BY <1>h, <2>1
  <2>4. AllocInv'
    BY <2>1, <2>3 DEF AllocInv
  <2>5. \A a \in Args : call[t].binding[a] \in Live'
    BY <2>1, <2>2 DEF Live
  <2>6. WantInv'
    BY <1>b, <2>1, <2>5 DEF WantInv, Kind
  <2> QED
    BY <1>c, <1>r, <2>1, <2>4, <2>6
<1>8. CASE BindCopied(t)
  <2>1. /\ pc[t] = "locked" /\ Kind(t) = "copied" /\ UNCHANGED <<references, buffers, resources>>
    BY <1>8 DEF BindCopied, AtLocked
  <2>2. CASE Leave(t) /\ UNCHANGED <<memory, copied>>
    BY <1>2, <2>1, <2>2 DEF memory
  <2>3. CASE /\ copied # NoAllocations /\ call' = [call EXCEPT ![t].want = copied]
             /\ Go(t, "prepare") /\ UNCHANGED <<owner, copied>>
    <3>1. pc'[t] = "prepare" /\ call'[t].want = copied /\ call'[t].kind = "copied"
      BY <1>t, <2>1, <2>3 DEF Go, Calls, Kind
    <3>2. Held' = Held
      BY <1>h, <2>1, <3>1
    <3>3. AllocInv'
      BY <2>1, <2>3, <3>2 DEF AllocInv
    <3>4. WantInv'
      BY <1>b, <2>3, <3>1 DEF WantInv, Kind
    <3> QED
      BY <1>c, <1>r, <2>1, <3>3, <3>4
  <2>4. CASE /\ copied = NoAllocations
             /\ \E where \in [Args -> {a \in Addresses : owner[a] = "free"}] :
                  /\ copied' = where
                  /\ owner' = [x \in Addresses |->
                                 IF \E i \in Args : where[i] = x THEN "copied" ELSE owner[x]]
                  /\ call' = [call EXCEPT ![t].want = where]
             /\ Go(t, "prepare")
    <3>1. PICK where \in [Args -> {a \in Addresses : owner[a] = "free"}] :
            /\ copied' = where
            /\ owner' = [x \in Addresses |->
                           IF \E i \in Args : where[i] = x THEN "copied" ELSE owner[x]]
            /\ call' = [call EXCEPT ![t].want = where]
      BY <2>4
    <3>2. AllocInv' /\ WantInv'
      BY <2>1, <2>4, <3>1, CopiedMemory
    <3> QED
      BY <1>c, <1>r, <2>1, <3>2
  <2> QED
    BY <1>8, <2>2, <2>3, <2>4 DEF BindCopied
<1> QED
  BY <1>1, <1>3, <1>4, <1>5, <1>6, <1>7, <1>8
     DEF Holder, Prepare, PreInit, SetArguments, RefuseSubmission, CreateResources, ResetList,
         ResetFence, AppendCommand, CloseList, Execute, SubmissionFails, DriverCall,
         FenceSignalled, Complete

\* So does every other step.
LEMMA NextLife ==
  ShapeOK /\ Serialized /\ RecordingInv /\ BoundInv /\ LifeInv /\ [Next]_vars => LifeInv'
<1> SUFFICES ASSUME ShapeOK, Serialized, RecordingInv, BoundInv, LifeInv, [Next]_vars
             PROVE  LifeInv'
  OBVIOUS
<1>t. /\ pc \in [Threads -> Locked \cup {"idle", "enter", "unref"}]
      /\ call \in [Threads -> Calls]
  BY DEF ShapeOK, ClientOK
<1>c. CountInv'
  BY NextCount DEF LifeInv
<1>1. CASE Create
  <2>1. /\ session = "none" /\ UNCHANGED <<buffers, pc, call, owner, copied>>
        /\ \/ references' = 1 /\ "context" \in resources'
           \/ UNCHANGED <<references, resources>>
    BY <1>1 DEF Create, memory
  <2>2. Held' = Held
    BY <2>1, HeldKept
  <2>3. AllocInv' /\ WantInv'
    BY <2>1, <2>2, MemoryKept DEF LifeInv
  <2>4. ContextInv'
    BY <2>1 DEF LifeInv, ContextInv
  <2> QED
    BY <1>c, <2>3, <2>4 DEF LifeInv
<1>2. ASSUME NEW t \in Threads, Client(t) \/ Enter(t) PROVE LifeInv'
  <2>1. /\ pc[t] \in {"idle", "enter"} /\ pc'[t] \in {"enter", "locked"}
        /\ \A u \in Threads \ {t} : pc'[u] = pc[u] /\ call'[u] = call[u]
        /\ UNCHANGED <<buffers, owner, copied, references, resources>>
    BY <1>2, <1>t DEF Client, CallShared, CallCopied, CallCreateBuffer, CallReleaseBuffer,
              CallReleaseSession, Use, Begin, Enter, memory
  <2>2. \A u \in Threads : /\ pc'[u] = "unref" /\ call'[u].kind = "release_buffer"
                                <=> pc[u] = "unref" /\ call[u].kind = "release_buffer"
                           /\ pc[u] = "unref" => call'[u] = call[u]
    BY <2>1
  <2>3. Held' = Held
    BY <2>1, <2>2, HeldKept
  <2>4. AllocInv' /\ WantInv'
    BY <2>1, <2>3, MemoryKept DEF LifeInv, Bound, Locked
  <2>5. ContextInv'
    BY <2>1 DEF LifeInv, ContextInv
  <2> QED
    BY <1>c, <2>4, <2>5 DEF LifeInv
<1>3. ASSUME NEW t \in Threads, Holder(t) PROVE LifeInv'
  BY <1>3, <1>c, HolderMemory DEF LifeInv
<1>4. ASSUME NEW t \in Threads, Unref(t) PROVE LifeInv'
  BY <1>4, <1>c, UnrefMemory DEF LifeInv
<1>5. CASE DeviceRun \/ UNCHANGED vars
  <2>1. UNCHANGED <<buffers, pc, call, owner, copied, references, resources>>
    BY <1>5 DEF DeviceRun, vars, memory
  <2>2. Held' = Held
    BY <2>1, HeldKept
  <2>3. AllocInv' /\ WantInv'
    BY <2>1, <2>2, MemoryKept DEF LifeInv
  <2>4. ContextInv'
    BY <2>1 DEF LifeInv, ContextInv
  <2> QED
    BY <1>c, <2>3, <2>4 DEF LifeInv
<1> QED
  BY <1>1, <1>2, <1>3, <1>4, <1>5 DEF Next

\* What the device has been given is bound by a call that waits, and stays allocated.
LEMMA RunningAllocated ==
  ASSUME ShapeOK, RecordingInv, BoundInv, LifeInv
  PROVE  RunningMemoryAllocated
<1> SUFFICES ASSUME ~failed, NEW n \in DOMAIN inflight, NEW a \in Args
             PROVE  \E x \in Addresses : inflight[n].bind[a] = x /\ owner[x] # "free"
  BY DEF RunningMemoryAllocated
<1>1. inflight # <<>>
  OBVIOUS
<1>2. PICK t \in Threads :
        /\ pc[t] = "wait"
        /\ inflight = <<[initialize |-> call[t].initialize, bind |-> call[t].want]>>
  BY <1>1, DeviceRuns
<1>3. inflight[n].bind = call[t].want
  BY <1>2
<1>4. pc[t] \in Bound
  BY <1>2 DEF Bound, Locked
<1>5. call[t].want[a] \in Addresses
  BY <1>4 DEF BoundInv, Bound
<1>6. CASE Kind(t) = "shared"
  <2> DEFINE b == call[t].binding[a]
  <2>1. b \in Live /\ call[t].want[a] = buffers[b] /\ ~BeingReleased(b)
    BY <1>4, <1>6 DEF LifeInv, WantInv, CountInv, RoleInv
  <2>2. b \in Held
    BY <2>1 DEF Held, Freed, BeingReleased, Kind
  <2>3. owner[buffers[b]] = "shared"
    BY <2>2 DEF LifeInv, AllocInv
  <2> QED
    BY <1>3, <1>5, <2>1, <2>3
<1>7. CASE Kind(t) = "copied"
  <2>1. owner[call[t].want[a]] = "copied"
    BY <1>4, <1>7 DEF LifeInv, WantInv, AllocInv
  <2> QED
    BY <1>3, <1>5, <2>1
<1> QED
  BY <1>4, <1>6, <1>7 DEF LifeInv, CountInv, KindInv

\* Memory lives exactly as long as somebody needs it: what the device may touch stays
\* allocated, the reference count of the session is the number of its owners, and nothing
\* is left of it once they are gone, in whatever order they let go.
THEOREM MemoryCorrect == Spec => []MemoryLive
<1>1. Init => BoundInv /\ LifeInv
  <2> SUFFICES ASSUME Init PROVE BoundInv /\ LifeInv
    OBVIOUS
  <2>1. Live = {} /\ \A t \in Threads : pc[t] = "idle" /\ Kind(t) = "none"
    BY NoCallOK DEF Init, Live, Kind
  <2>2. Cardinality(Live) = 0
    BY <2>1, FS_EmptySet
  <2>3. CountInv
    BY <2>1, <2>2 DEF Init, CountInv, KindInv, RoleInv, UseInv, ReferencesExact, Unreleased,
                      OfBuffer, Bound, Locked
  <2>4. AllocInv /\ WantInv /\ ContextInv
    BY <2>1 DEF Init, AllocInv, WantInv, ContextInv, Held, Bound, Locked
  <2>5. BoundInv
    BY EmptySeq DEF Init, BoundInv, Locked
  <2> QED
    BY <2>3, <2>4, <2>5 DEF LifeInv
<1>2. ShapeOK /\ LifeInv => NothingOutlivesTheSession
  <2> SUFFICES ASSUME ShapeOK, LifeInv PROVE NothingOutlivesTheSession
    OBVIOUS
  <2>1. (\E t \in Threads : pc[t] # "idle") => "context" \in resources
    BY BusyCounted DEF Counted, LifeInv, ContextInv
  <2>2. ASSUME NEW x \in Addresses, owner[x] # "free"
        PROVE  references # 0
    <3>1. CASE owner[x] = "shared"
      <4>1. Live # {}
        BY <3>1 DEF LifeInv, AllocInv, Held
      <4> QED
        BY <4>1, BusyCounted DEF Counted, LifeInv
    <3>2. CASE owner[x] = "copied"
      BY <3>2 DEF LifeInv, AllocInv
    <3> QED
      BY <2>2, <3>1, <3>2 DEF ShapeOK, DriverOK
  <2> QED
    BY <2>1, <2>2 DEF NothingOutlivesTheSession, LifeInv, ContextInv
<1>3. ShapeOK /\ RecordingInv /\ BoundInv /\ LifeInv => MemoryLive
  BY <1>2, RunningAllocated DEF MemoryLive, LifeInv, CountInv
<1>4. Spec => []BoundInv
  BY <1>1, ShapeCorrect, SerializedCorrect, RecordingCorrect, NextBound, PTL DEF Spec
<1> QED
  BY <1>1, <1>3, <1>4, ShapeCorrect, SerializedCorrect, RecordingCorrect, NextLife, PTL DEF Spec
=============================================================================
