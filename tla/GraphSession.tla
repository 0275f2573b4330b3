---------------------------- MODULE GraphSession ----------------------------
(***************************************************************************)
(* One native inference session, src/graphinfer/session_win32.c: threads   *)
(* that infer with shared buffers or with copied tensors, create and       *)
(* release shared buffers and release the session, over a Level Zero       *)
(* driver and a device that runs asynchronously.                           *)
(*                                                                         *)
(* Every operation enters the session's critical section; inside it, each  *)
(* driver call of submit() is a step of its own, since the device runs     *)
(* beside them and any of them may fail.  Reference drops (session_unref)  *)
(* happen outside of the critical section.                                 *)
(*                                                                         *)
(* Addresses stand for allocations, and an address may be allocated again  *)
(* after it was freed.  The driver is modelled from how the session uses   *)
(* it: append captures the argument values of the graph handle, execute    *)
(* hands the commands of the list to the queue, the fence is signalled     *)
(* once the queue has run them, and a failed fence wait stops nothing.     *)
(*                                                                         *)
(* The client is one that C allows: it does not give up what another of    *)
(* its threads is using.  A release waits for the lock, but the buffer     *)
(* object is freed and cleared after it, so a call that binds a buffer     *)
(* while another thread releases it would read freed memory; and a call    *)
(* must not be entered while the last owner of the session goes away.      *)
(***************************************************************************)
EXTENDS Integers, Sequences, FiniteSets

CONSTANTS
  Threads,        \* the threads of the client
  Buffers,        \* the shared buffer objects of the client
  Addresses,      \* where the driver may allocate
  ArgumentCount,  \* graph arguments are numbered 1 .. ArgumentCount
  Inputs,         \* the arguments that are inputs
  Data,           \* contents of a tensor
  Zero,           \* the contents of a cleared tensor
  Compute(_),     \* what the graph computes from its inputs, the same for each output
  InitStages      \* the stages the driver asks for: a set of "direct", "command_list"

CONSTANTS NoThread, Null

Args    == 1 .. ArgumentCount
Outputs == Args \ Inputs

ASSUME SessionAssumption ==
  /\ ArgumentCount \in Nat \ {0}
  /\ Inputs \subseteq Args
  /\ Zero \in Data
  /\ InitStages \subseteq {"direct", "command_list"}
  /\ NoThread \notin Threads
  /\ Null \notin Addresses
  /\ IsFiniteSet(Buffers) /\ "session" \notin Buffers

ASSUME ComputeAssumption == \A x \in [Inputs -> Data] : Compute(x) \in Data

VARIABLES
  \* struct graphinfer_session
  references, active, initialized, recorded, executeAllocations, listClosed,
  fenceSubmitted, failed, copied, lock,
  \* the client: the session result, its buffers, its calls
  session, buffers, pc, call,
  \* the driver and the device
  resources, owner, content, arguments, list, inflight, lastRun

flags    == <<active, initialized, recorded, executeAllocations, listClosed,
              fenceSubmitted, failed>>
memory   == <<owner, content>>
driver   == <<arguments, list, inflight, lastRun>>
vars == <<references, flags, copied, lock, session, buffers, pc, call,
          resources, memory, driver>>

NoAllocations == [a \in Args |-> Null]

NoCall == [kind |-> "none", buffer |-> Null, binding |-> NoAllocations,
           data |-> [i \in Inputs |-> Zero], want |-> NoAllocations,
           reuse |-> FALSE, initialize |-> FALSE]

Init ==
  /\ references = 0
  /\ active = FALSE
  /\ initialized = FALSE
  /\ recorded = FALSE
  /\ executeAllocations = NoAllocations
  /\ listClosed = FALSE
  /\ fenceSubmitted = FALSE
  /\ failed = FALSE
  /\ copied = NoAllocations
  /\ lock = NoThread
  /\ session = "none"
  /\ buffers = [b \in Buffers |-> Null]
  /\ pc = [t \in Threads |-> "idle"]
  /\ call = [t \in Threads |-> NoCall]
  /\ resources = {}
  /\ owner = [a \in Addresses |-> "free"]
  /\ content = [a \in Addresses |-> Zero]
  /\ arguments = NoAllocations
  /\ list = <<>>
  /\ inflight = <<>>
  /\ lastRun = NoAllocations

(***************************************************************************)
(* The client.                                                             *)
(***************************************************************************)

Live == {b \in Buffers : buffers[b] # Null}

\* graphinfer_session_create: a failure at any point destroys what was built.
Create ==
  /\ session = "none"
  /\ \/ /\ session' = "open"
        /\ references' = 1
        /\ active' = TRUE
        /\ resources' = {"loader", "context", "graph"}
     \/ /\ session' = "failed"
        /\ UNCHANGED <<references, active, resources>>
  /\ UNCHANGED <<initialized, recorded, executeAllocations, listClosed, fenceSubmitted,
                 failed, copied, lock, buffers, pc, call, memory, driver>>

Releasing(k) == k \in {"release_session", "release_buffer"}

BeingReleased(b) == \E t \in Threads : /\ pc[t] # "idle"
                                       /\ call[t].kind = "release_buffer"
                                       /\ call[t].buffer = b

\* What keeps the session alive and is not yet being released.
Owners == {b \in Live : ~BeingReleased(b)} \cup (IF session = "open" THEN {"session"} ELSE {})

Begin(t, c) ==
  /\ pc[t] = "idle"
  /\ pc' = [pc EXCEPT ![t] = "enter"]
  /\ call' = [call EXCEPT ![t] = c]
  /\ UNCHANGED <<references, flags, copied, lock, buffers, resources, memory, driver>>

\* The session pointer is used while something of it is still owned.
Use(t, c) == Owners # {} /\ Begin(t, c) /\ UNCHANGED session

CallShared(t) ==
  \E b \in [Args -> Buffers] :
    /\ \A a \in Args : ~BeingReleased(b[a])
    /\ Use(t, [NoCall EXCEPT !.kind = "shared", !.binding = b])

CallCopied(t) ==
  \E d \in [Inputs -> Data] : Use(t, [NoCall EXCEPT !.kind = "copied", !.data = d])

CallCreateBuffer(t) ==
  \E b \in Buffers \ Live :
    /\ \A u \in Threads : pc[u] # "idle" => call[u].buffer # b
    /\ Use(t, [NoCall EXCEPT !.kind = "create_buffer", !.buffer = b])

\* The client does not give up the last owner under the feet of another call.
MayRelease(t, o) ==
  /\ o \in Owners
  /\ \/ Owners \ {o} # {}
     \/ \A u \in Threads \ {t} : pc[u] = "idle" \/ Releasing(call[u].kind)

CallReleaseBuffer(t) ==
  \E b \in Live : /\ MayRelease(t, b)
                  /\ \A u \in Threads : \A a \in Args : call[u].binding[a] # b
                  /\ Begin(t, [NoCall EXCEPT !.kind = "release_buffer", !.buffer = b])
                  /\ UNCHANGED session

CallReleaseSession(t) ==
  /\ MayRelease(t, "session")
  /\ Begin(t, [NoCall EXCEPT !.kind = "release_session"])
  /\ session' = "released"

(***************************************************************************)
(* Entering and leaving the critical section.                              *)
(***************************************************************************)

Enter(t) ==
  /\ pc[t] = "enter"
  /\ lock = NoThread
  /\ lock' = t
  /\ pc' = [pc EXCEPT ![t] = "locked"]
  /\ UNCHANGED <<references, flags, copied, session, buffers, call, resources,
                 memory, driver>>

Leave_closedKeepsLock(t) ==
  /\ lock' = IF active THEN NoThread ELSE lock
  /\ pc' = [pc EXCEPT ![t] = "idle"]
  /\ call' = [call EXCEPT ![t] = NoCall]

\* The call returns; its status and diagnostics are left out.
Leave(t) ==
  /\ lock' = NoThread
  /\ pc' = [pc EXCEPT ![t] = "idle"]
  /\ call' = [call EXCEPT ![t] = NoCall]

Go(t, where) ==
  /\ pc' = [pc EXCEPT ![t] = where]
  /\ UNCHANGED lock

Kind(t) == call[t].kind

AtLocked(t) == pc[t] = "locked"

\* Every operation but the releases finds the session closed; a shared inference also
\* refuses a buffer that has been released.  (Bindings that do not match the arguments of
\* the graph are refused here too, with the same effect: none.)
Refuse(t) ==
  /\ AtLocked(t)
  /\ \/ ~active /\ ~Releasing(Kind(t))
     \/ active /\ Kind(t) = "shared" /\ \E a \in Args : buffers[call[t].binding[a]] = Null
  /\ Leave(t)
  /\ UNCHANGED <<references, flags, copied, session, buffers, resources, memory, driver>>

(***************************************************************************)
(* Shared buffers and the session's release.                               *)
(***************************************************************************)

CountBuffer_forgotten == references' = references

CountBuffer == references' = references + 1

\* graphinfer_shared_buffer_create; the memset follows outside of the lock, before the
\* client sees the buffer.
CreateBuffer(t) ==
  /\ AtLocked(t) /\ Kind(t) = "create_buffer" /\ active
  /\ \/ \E a \in Addresses :
          /\ owner[a] = "free"
          /\ owner' = [owner EXCEPT ![a] = "shared"]
          /\ content' = [content EXCEPT ![a] = Zero]
          /\ buffers' = [buffers EXCEPT ![call[t].buffer] = a]
          /\ CountBuffer
          /\ Leave(t)
     \/ /\ Leave(t)
        /\ UNCHANGED <<memory, buffers, references>>
  /\ UNCHANGED <<flags, copied, session, resources, driver>>

\* graphinfer_shared_buffer_release, the part under the lock.
ReleaseBuffer(t) ==
  /\ AtLocked(t) /\ Kind(t) = "release_buffer"
  /\ owner' = [owner EXCEPT ![buffers[call[t].buffer]] = "free"]
  /\ lock' = NoThread
  /\ pc' = [pc EXCEPT ![t] = "unref"]
  /\ UNCHANGED <<references, flags, copied, session, buffers, call, resources, content, driver>>

\* graphinfer_session_result_release, the part under the lock.
ReleaseSession(t) ==
  /\ AtLocked(t) /\ Kind(t) = "release_session"
  /\ active' = FALSE
  /\ resources' = resources \ {"fence", "list", "queue", "graph"}
  /\ lock' = NoThread
  /\ pc' = [pc EXCEPT ![t] = "unref"]
  /\ UNCHANGED <<references, initialized, recorded, executeAllocations, listClosed,
                 fenceSubmitted, failed, copied, session, buffers, call, memory,
                 driver>>

LastReference_early == references' <= 1

\* The last reference is the one that brings the count to zero.
LastReference == references' = 0

\* session_unref: the last reference frees the copied tensors and destroys the context.  The
\* release that drops its reference clears the client's object last.
Unref(t) ==
  /\ pc[t] = "unref"
  /\ references' = references - 1
  /\ IF LastReference
       THEN /\ owner' = [a \in Addresses |-> IF owner[a] = "copied" THEN "free" ELSE owner[a]]
            /\ copied' = NoAllocations
            /\ resources' = {}
       ELSE UNCHANGED <<owner, copied, resources>>
  /\ buffers' = [b \in Buffers |->
       IF Kind(t) = "release_buffer" /\ b = call[t].buffer THEN Null ELSE buffers[b]]
  /\ pc' = [pc EXCEPT ![t] = "idle"]
  /\ call' = [call EXCEPT ![t] = NoCall]
  /\ UNCHANGED <<flags, lock, session, content, driver>>

(***************************************************************************)
(* Binding: collect_bindings, or the copied tensors of the session.        *)
(***************************************************************************)

BindShared(t) ==
  /\ AtLocked(t) /\ Kind(t) = "shared" /\ active
  /\ \A a \in Args : buffers[call[t].binding[a]] # Null
  /\ call' = [call EXCEPT ![t].want = [a \in Args |-> buffers[call[t].binding[a]]]]
  /\ Go(t, "prepare")
  /\ UNCHANGED <<references, flags, copied, session, buffers, resources, memory, driver>>

\* The same without the memset: the outputs hold whatever the allocation held before.
Fill_uncleared(where, data) ==
  content' = [x \in Addresses |->
    IF \E i \in Args : where[i] = x
      THEN LET i == CHOOSE i \in Args : where[i] = x
           IN  IF i \in Inputs THEN data[i] ELSE Null
      ELSE content[x]]

\* memcpy of the inputs, memset of the outputs.
Fill(where, data) ==
  content' = [x \in Addresses |->
    IF \E i \in Args : where[i] = x
      THEN LET i == CHOOSE i \in Args : where[i] = x
           IN  IF i \in Inputs THEN data[i] ELSE Zero
      ELSE content[x]]

\* ensure_copied_allocations allocates once, all or nothing.
BindCopied(t) ==
  /\ AtLocked(t) /\ Kind(t) = "copied" /\ active
  /\ \/ /\ copied # NoAllocations
        /\ call' = [call EXCEPT ![t].want = copied]
        /\ Fill(copied, call[t].data)
        /\ Go(t, "prepare")
        /\ UNCHANGED <<owner, copied>>
     \/ /\ copied = NoAllocations
        /\ \E where \in [Args -> {a \in Addresses : owner[a] = "free"}] :
             /\ \A i, j \in Args : where[i] = where[j] => i = j
             /\ copied' = where
             /\ owner' = [x \in Addresses |->
                            IF \E i \in Args : where[i] = x THEN "copied" ELSE owner[x]]
             /\ Fill(where, call[t].data)
             /\ call' = [call EXCEPT ![t].want = where]
        /\ Go(t, "prepare")
     \/ \* the output descriptors or the tensors cannot be allocated
        /\ Leave(t)
        /\ UNCHANGED <<memory, copied>>
  /\ UNCHANGED <<references, flags, session, buffers, resources, driver>>

(***************************************************************************)
(* execute_allocations_locked.                                             *)
(***************************************************************************)

executeFrame == UNCHANGED <<references, copied, session, buffers, memory>>

SameRecording_anyAllocations(want) == initialized /\ recorded

SameRecording_unrecorded(want) == initialized /\ executeAllocations = want

SameRecording(want) == initialized /\ recorded /\ executeAllocations = want

\* May the command list be executed again as it is?
Prepare(t) ==
  /\ pc[t] = "prepare"
  /\ LET reuse == SameRecording(call[t].want)
     IN  /\ call' = [call EXCEPT ![t].reuse = reuse]
         /\ Go(t, IF ~initialized THEN "preinit" ELSE IF reuse THEN "submit" ELSE "setargs")
  /\ UNCHANGED <<flags, resources, driver>>
  /\ executeFrame

\* The first `count` arguments are set, in order.
SetFirst(count, want) ==
  arguments' = [a \in Args |-> IF a <= count THEN want[a] ELSE arguments[a]]

\* The first inference: arguments, then the stages that the driver asked for.
PreInit(t) ==
  /\ pc[t] = "preinit"
  /\ \/ /\ SetFirst(ArgumentCount, call[t].want)
        /\ IF "command_list" \in InitStages
             THEN /\ recorded' = FALSE
                  /\ call' = [call EXCEPT ![t].initialize = TRUE]
                  /\ Go(t, "submit")
                  /\ UNCHANGED initialized
             ELSE /\ initialized' = TRUE
                  /\ Go(t, "setargs")
                  /\ UNCHANGED <<recorded, call>>
     \/ \* a pfnSetArgumentValue or the direct initialization fails, or the extension has
        \* no function for a stage
        /\ \E count \in 0 .. ArgumentCount :
             /\ count = ArgumentCount => InitStages # {}
             /\ SetFirst(count, call[t].want)
        /\ Leave(t)
        /\ UNCHANGED <<initialized, recorded>>
  /\ UNCHANGED <<active, executeAllocations, listClosed, fenceSubmitted, failed, resources,
                 list, inflight, lastRun>>
  /\ executeFrame

\* The recording is given up before the arguments change.
SetArguments(t) ==
  /\ pc[t] = "setargs"
  /\ recorded' = FALSE
  /\ \/ SetFirst(ArgumentCount, call[t].want) /\ Go(t, "submit") /\ UNCHANGED call
     \/ /\ \E count \in 0 .. ArgumentCount - 1 : SetFirst(count, call[t].want)
        /\ Leave(t)
  /\ UNCHANGED <<active, initialized, executeAllocations, listClosed, fenceSubmitted, failed,
                 resources, list, inflight, lastRun>>
  /\ executeFrame

(***************************************************************************)
(* submit(): the driver calls, one step each.                              *)
(***************************************************************************)

SubmissionResources == {"queue", "list", "fence"}

Poisoned_never == FALSE

Poisoned == failed

\* Nothing is submitted once a submission has failed.
RefuseSubmission(t) ==
  /\ pc[t] = "submit"
  /\ Poisoned
  /\ Leave(t)
  /\ UNCHANGED <<flags, resources, driver>>
  /\ executeFrame

RecordingUsable(t) == ~call[t].initialize /\ recorded /\ listClosed

\* The queue, the list and the fence are created on first use, in this order; a failure
\* leaves the earlier ones and does not poison the session.
CreateResources(t) ==
  /\ pc[t] = "submit"
  /\ ~Poisoned
  /\ \/ /\ resources' = resources \cup SubmissionResources
        /\ IF call[t].reuse /\ ~RecordingUsable(t)
             THEN Leave(t)
             ELSE Go(t, "resetlist") /\ UNCHANGED call
     \/ /\ \E made \in {{}, {"queue"}, {"queue", "list"}} :
             /\ ~(SubmissionResources \subseteq resources \cup made)
             /\ resources' = resources \cup made
        /\ Leave(t)
  /\ UNCHANGED <<flags, driver>>
  /\ executeFrame

MustReset(t) == ~call[t].reuse /\ listClosed

ResetList(t) ==
  /\ pc[t] = "resetlist"
  /\ IF MustReset(t)
       THEN list' = <<>> /\ listClosed' = FALSE
       ELSE UNCHANGED <<list, listClosed>>
  /\ Go(t, "resetfence")
  /\ UNCHANGED <<active, initialized, recorded, executeAllocations, fenceSubmitted, failed,
                 call, resources, arguments, inflight, lastRun>>
  /\ executeFrame

ResetFence(t) ==
  /\ pc[t] = "resetfence"
  /\ fenceSubmitted' = FALSE
  /\ Go(t, IF call[t].reuse THEN "execute" ELSE "append")
  /\ UNCHANGED <<active, initialized, recorded, executeAllocations, listClosed, failed, call,
                 resources, driver>>
  /\ executeFrame

\* append_initialize or append_execute: the list captures the arguments as they are now.
AppendCommand(t) ==
  /\ pc[t] = "append"
  /\ list' = Append(list, [initialize |-> call[t].initialize, bind |-> arguments])
  /\ Go(t, "close")
  /\ UNCHANGED <<flags, call, resources, arguments, inflight, lastRun>>
  /\ executeFrame

CloseList(t) ==
  /\ pc[t] = "close"
  /\ listClosed' = TRUE
  /\ Go(t, "execute")
  /\ UNCHANGED <<active, initialized, recorded, executeAllocations, fenceSubmitted, failed,
                 call, resources, driver>>
  /\ executeFrame

Execute(t) ==
  /\ pc[t] = "execute"
  /\ inflight' = inflight \o list
  /\ fenceSubmitted' = TRUE
  /\ Go(t, "wait")
  /\ UNCHANGED <<active, initialized, recorded, executeAllocations, listClosed, failed, call,
                 resources, arguments, list, lastRun>>
  /\ executeFrame

\* The submission calls that poison the session when they fail.  A list that needs no reset
\* and a fence that was never submitted are not touched.
DriverCall(t) ==
  \/ pc[t] = "resetlist" /\ MustReset(t)
  \/ pc[t] = "resetfence" /\ fenceSubmitted
  \/ pc[t] \in {"append", "close", "execute", "wait"}

SubmissionFails(t) ==
  /\ DriverCall(t)
  /\ failed' = TRUE
  /\ Leave(t)
  /\ UNCHANGED <<active, initialized, recorded, executeAllocations, listClosed,
                 fenceSubmitted, resources, driver>>
  /\ executeFrame

\* The fence is signalled: an initialization goes on to the inference itself.
FenceSignalled(t) ==
  /\ pc[t] = "wait"
  /\ inflight = <<>>
  /\ IF call[t].initialize
       THEN /\ initialized' = TRUE
            /\ call' = [call EXCEPT ![t].initialize = FALSE]
            /\ Go(t, "setargs")
       ELSE Go(t, "complete") /\ UNCHANGED <<initialized, call>>
  /\ UNCHANGED <<active, recorded, executeAllocations, listClosed, fenceSubmitted, failed,
                 resources, driver>>
  /\ executeFrame

\* The recording is kept for the next inference; a copied call hands out copies of its
\* outputs (or fails to allocate them).
Complete(t) ==
  /\ pc[t] = "complete"
  /\ recorded' = TRUE
  /\ executeAllocations' = IF call[t].reuse THEN executeAllocations ELSE call[t].want
  /\ Leave(t)
  /\ UNCHANGED <<active, initialized, listClosed, fenceSubmitted, failed, resources, driver>>
  /\ executeFrame

(***************************************************************************)
(* The device runs what was queued, whether or not anyone still waits.     *)
(***************************************************************************)
DeviceRun ==
  /\ inflight # <<>>
  /\ inflight' = Tail(inflight)
  /\ LET c == Head(inflight)
         result == Compute([i \in Inputs |-> content[c.bind[i]]])
     IN  IF c.initialize
           THEN UNCHANGED <<content, lastRun>>
           ELSE /\ content' = [x \in Addresses |->
                     IF \E o \in Outputs : c.bind[o] = x THEN result ELSE content[x]]
                /\ lastRun' = c.bind
  /\ UNCHANGED <<references, flags, copied, lock, session, buffers, pc, call,
                 resources, owner, arguments, list>>

-----------------------------------------------------------------------------

Client(t) == \/ CallShared(t) \/ CallCopied(t) \/ CallCreateBuffer(t)
             \/ CallReleaseBuffer(t) \/ CallReleaseSession(t)

\* What the thread inside the critical section does next.
Holder(t) == \/ Refuse(t) \/ CreateBuffer(t) \/ ReleaseBuffer(t) \/ ReleaseSession(t)
             \/ BindShared(t) \/ BindCopied(t) \/ Prepare(t) \/ PreInit(t) \/ SetArguments(t)
             \/ RefuseSubmission(t) \/ CreateResources(t) \/ ResetList(t) \/ ResetFence(t)
             \/ AppendCommand(t) \/ CloseList(t) \/ Execute(t) \/ SubmissionFails(t)
             \/ FenceSignalled(t) \/ Complete(t)

Next == \/ Create
        \/ \E t \in Threads : Client(t) \/ Enter(t) \/ Holder(t) \/ Unref(t)
        \/ DeviceRun

Spec == Init /\ [][Next]_vars

\* A thread inside the critical section keeps running: the fence wait is finite, so the
\* device need not be assumed to make progress.
FairSpec == Spec /\ \A t \in Threads : WF_vars(Holder(t))

-----------------------------------------------------------------------------
(***************************************************************************)
(* Properties.                                                             *)
(***************************************************************************)

Allocation == Addresses \cup {Null}

Locked == {"locked", "prepare", "preinit", "setargs", "submit", "resetlist", "resetfence",
           "append", "close", "execute", "wait", "complete"}

Kinds == {"none", "shared", "copied", "create_buffer", "release_buffer", "release_session"}

Calls == [kind : Kinds, buffer : Buffers \cup {Null},
          binding : [Args -> Buffers \cup {Null}], data : [Inputs -> Data],
          want : [Args -> Allocation], reuse : BOOLEAN, initialize : BOOLEAN]

Commands == [initialize : BOOLEAN, bind : [Args -> Allocation]]

\* A call is about buffers of the client where its kind says so.
CallOK(c) ==
  /\ c \in Calls
  /\ c.kind = "shared" => c.binding \in [Args -> Buffers]
  /\ c.kind \in {"create_buffer", "release_buffer"} => c.buffer \in Buffers

FlagsOK ==
  /\ active \in BOOLEAN /\ initialized \in BOOLEAN /\ recorded \in BOOLEAN
  /\ listClosed \in BOOLEAN /\ fenceSubmitted \in BOOLEAN /\ failed \in BOOLEAN

SessionOK ==
  /\ references \in Int
  /\ executeAllocations \in [Args -> Allocation]
  /\ copied \in [Args -> Allocation]
  /\ lock \in Threads \cup {NoThread}

ClientOK ==
  /\ session \in {"none", "open", "failed", "released"}
  /\ buffers \in [Buffers -> Allocation]
  /\ pc \in [Threads -> Locked \cup {"idle", "enter", "unref"}]
  /\ call \in [Threads -> Calls]
  /\ \A t \in Threads : CallOK(call[t])

DriverOK ==
  /\ resources \subseteq {"loader", "context", "graph", "queue", "list", "fence"}
  /\ owner \in [Addresses -> {"free", "shared", "copied"}]
  /\ arguments \in [Args -> Allocation]
  /\ list \in Seq(Commands)
  /\ inflight \in Seq(Commands)
  /\ lastRun \in [Args -> Allocation]

\* Every variable has its type; in particular the device only ever computes on contents of
\* allocations, never on what an unbound argument would name.
TypeOK == FlagsOK /\ SessionOK /\ ClientOK /\ DriverOK /\ content \in [Addresses -> Data]

\* Copied and shared calls on one session are serialized: exactly the thread that owns the
\* critical section is inside it, however calls begin, fail and return.
Serialized == \A t \in Threads : pc[t] \in Locked <=> lock = t

\* When an inference completes, the device has just run the graph on exactly the
\* allocations this call asked for, also when the command list of an earlier call was
\* executed again: no stale binding survives buffer releases, failures of argument setting
\* or alternation of copied and shared calls.
ExecutedWhatWasAsked == \A t \in Threads : pc[t] = "complete" => lastRun = call[t].want

\* A copied inference that succeeds returns what the graph computes from the inputs of this
\* very call, never the outputs of an earlier or of a late, timed-out submission.
CopiedAnswerIsFresh ==
  \A t \in Threads :
    pc[t] = "complete" /\ Kind(t) = "copied"
      => \A o \in Outputs : content[call[t].want[o]] = Compute(call[t].data)

\* While the session is not poisoned, every allocation that the device may be reading or
\* writing is still allocated: no release of another buffer, and no last reference, frees it meanwhile.
RunningMemoryAllocated ==
  ~failed => \A n \in DOMAIN inflight : \A a \in Args :
    \E x \in Addresses : inflight[n].bind[a] = x /\ owner[x] # "free"

\* A submission that reuses the recorded list finds it there, closed and recorded for
\* execution: the INTERNAL_ERROR of submit() never happens.
RecordingAvailable ==
  \A t \in Threads :
    pc[t] = "submit" /\ call[t].reuse /\ ~failed => RecordingUsable(t)

\* Submission resources are reused only after successful synchronous completion: while the
\* host resets, records or submits the command list, the device runs none of it, also
\* after a fence wait that timed out with the device still running.
ResourcesIdleWhenReused ==
  \A t \in Threads :
    pc[t] \in {"resetlist", "resetfence", "append", "close", "execute"} => inflight = <<>>

\* Reusing the recording and the submission objects of earlier calls is sound: a call finds
\* them there, touches them only when the device has left them, and has executed what it
\* asked for.
SubmissionSound == ExecutedWhatWasAsked /\ RecordingAvailable /\ ResourcesIdleWhenReused

\* The reference count is the number of owners: the session and the buffers whose release
\* has not dropped its reference yet.
Unreleased == IF session = "open" \/ \E t \in Threads : /\ pc[t] # "idle"
                                                         /\ Kind(t) = "release_session"
                THEN 1 ELSE 0

ReferencesExact == references = Unreleased + Cardinality(Live)

\* No thread is inside a call on a destroyed session, and every allocation is gone before
\* its context is; in the end nothing is left.
NothingOutlivesTheSession ==
  /\ (\E t \in Threads : pc[t] # "idle") => "context" \in resources
  /\ (\E x \in Addresses : owner[x] # "free") => "context" \in resources
  /\ references = 0 => resources = {}

\* Memory lives exactly as long as somebody needs it: the device, a buffer's owner or the
\* session, in whatever order they let go of it.
MemoryLive == RunningMemoryAllocated /\ ReferencesExact /\ NothingOutlivesTheSession

\* The critical section is always left again, whatever fails inside it and even if the
\* device never finishes.
LockReleased == lock # NoThread ~> lock = NoThread

\* What the C API documentation says: each synchronous inference resets and re-records the
\* submission objects.
EveryInferenceRecords == \A t \in Threads : pc[t] = "wait" => ~call[t].reuse
=============================================================================
