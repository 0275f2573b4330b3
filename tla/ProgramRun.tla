----------------------------- MODULE ProgramRun -----------------------------
(***************************************************************************)
(* One npunlock Program used by several Python threads: run() with copied  *)
(* and with shared tensors, shared_array(), close(), and the collection of *)
(* arrays, program and session (python/npunlock/__init__.py and            *)
(* _native.py).  ctypes gives the interpreter lock up around every native  *)
(* call, so that a thread is at a step of its own before, in and after it. *)
(*                                                                         *)
(* The native session is modelled from GraphSession: its calls exclude     *)
(* each other, a release waits for the one inside, a released session      *)
(* refuses calls, and its memory stays while a shared buffer lives.        *)
(***************************************************************************)
EXTENDS Naturals, FiniteSets

CONSTANTS Threads,      \* threads of the client
          Arrays,       \* shared arrays it may allocate
          NoThread, NoArray

ASSUME ProgramAssumption == NoThread \notin Threads /\ NoArray \notin Arrays

VARIABLES
  lock,          \* _ProgramExecutionState.lock
  closed,        \* _ProgramExecutionState.closed
  opened,        \* _ProgramExecutionState.session is not None
  sessionClosed, \* InferenceSession._closed
  native,        \* the native session: "absent", "live" or "released"
  buffers,       \* the native buffer of each array, likewise
  held,          \* the arrays that the client refers to
  wanted,        \* the client refers to the program
  pc, op, array, \* of each thread
  handle,        \* whether a thread read a handle that was not yet cleared
  late           \* threads whose call began on a closed program

state  == <<lock, closed, opened, sessionClosed>>
client == <<held, wanted>>
local  == <<op, array, handle, late>>
pvars  == <<state, native, buffers, client, pc, local>>

Init ==
  /\ lock = NoThread /\ closed = FALSE /\ opened = FALSE /\ sessionClosed = FALSE
  /\ native = "absent" /\ buffers = [a \in Arrays |-> "absent"]
  /\ held = {} /\ wanted = TRUE
  /\ pc = [t \in Threads |-> "idle"] /\ op = [t \in Threads |-> "none"]
  /\ array = [t \in Threads |-> NoArray] /\ handle = [t \in Threads |-> FALSE]
  /\ late = {}

Goto(t, label) == pc' = [pc EXCEPT ![t] = label]
Idle(t) == pc[t] = "idle"
Inside(t) == pc[t] = "inside"
Using(a) == \E t \in Threads : ~Idle(t) /\ array[t] = a
Live(a) == buffers[a] = "live"

-----------------------------------------------------------------------------
(* A call begins.  The validation of names, dtypes and shapes touches no   *)
(* state, and a value that fails it never gets this far.                   *)

Begin(t, kind, a) ==
  /\ Idle(t) /\ wanted
  /\ Goto(t, "get")
  /\ op' = [op EXCEPT ![t] = kind]
  /\ array' = [array EXCEPT ![t] = a]
  /\ handle' = [handle EXCEPT ![t] = FALSE]
  /\ late' = IF closed THEN late \cup {t} ELSE late \ {t}
  /\ UNCHANGED <<state, native, buffers, client>>

Run(t) == Begin(t, "copied", NoArray)

\* run(outputs=...): _validate_shared_array accepts an array of this session.
RunShared(t, a) == a \in held /\ Begin(t, "shared", a)

SharedArray(t, a) == buffers[a] = "absent" /\ ~Using(a) /\ Begin(t, "array", a)

CloseCall(t) == Begin(t, "close", NoArray)

Acquire(t) ==
  /\ pc[t] = "get" /\ lock = NoThread
  /\ lock' = t
  /\ Goto(t, "locked")
  /\ UNCHANGED <<closed, opened, sessionClosed, native, buffers, client, local>>

Locked(t) == pc[t] = "locked" /\ lock = t
Unlock == lock' = NoThread

\* get_session(): "program is closed".
Refuse(t) ==
  /\ Locked(t) /\ op[t] # "close" /\ closed
  /\ Unlock /\ Goto(t, "idle")
  /\ UNCHANGED <<closed, opened, sessionClosed, native, buffers, client, local>>

GetSession(t) ==
  /\ Locked(t) /\ op[t] # "close" /\ ~closed /\ opened
  /\ Unlock /\ Goto(t, "got")
  /\ UNCHANGED <<closed, opened, sessionClosed, native, buffers, client, local>>

\* A closed program makes a session again.
CreateSession_reopen(t) ==
  /\ Locked(t) /\ op[t] # "close" /\ ~opened
  /\ native' = "live" /\ opened' = TRUE
  /\ Unlock /\ Goto(t, "got")
  /\ UNCHANGED <<closed, sessionClosed, buffers, client, local>>

\* The first call makes the session, under the lock.
CreateSession(t) ==
  /\ Locked(t) /\ op[t] # "close" /\ ~closed /\ ~opened
  /\ native' = "live" /\ opened' = TRUE
  /\ Unlock /\ Goto(t, "got")
  /\ UNCHANGED <<closed, sessionClosed, buffers, client, local>>

\* graphinfer_session_create fails: the result is released, nothing is kept.
CreateFails(t) ==
  /\ Locked(t) /\ op[t] # "close" /\ ~closed /\ ~opened
  /\ Unlock /\ Goto(t, "idle")
  /\ UNCHANGED <<closed, opened, sessionClosed, native, buffers, client, local>>

\* infer(), infer_copied(), create_buffer(): _closed is looked at, then the
\* handle is read for the native call.
Load(t) ==
  /\ pc[t] = "got"
  /\ IF sessionClosed THEN Goto(t, "idle") ELSE Goto(t, "loaded")
  /\ handle' = [handle EXCEPT ![t] = native = "live"]
  /\ UNCHANGED <<state, native, buffers, client, op, array, late>>

Enter(t) ==
  /\ pc[t] = "loaded" /\ \A u \in Threads : ~Inside(u)
  /\ handle[t] /\ native = "live"
  /\ Goto(t, "inside")
  /\ UNCHANGED <<state, native, buffers, client, local>>

\* The handle was cleared, or the session is there but no longer active.
EnterFails(t) ==
  /\ pc[t] = "loaded"
  /\ handle[t] => native = "released" /\ \E a \in Arrays : Live(a)
  /\ Goto(t, "idle")
  /\ UNCHANGED <<state, native, buffers, client, local>>

\* The memory of the session is gone: the thread may crash or hang.
EnterStray(t) ==
  /\ pc[t] = "loaded" /\ handle[t] /\ native = "released" /\ \A a \in Arrays : ~Live(a)
  /\ Goto(t, "stray")
  /\ UNCHANGED <<state, native, buffers, client, local>>

\* The native call returns; a new buffer becomes an array of the client.
Leave(t) ==
  /\ Inside(t)
  /\ Goto(t, "idle")
  /\ \/ op[t] = "array" /\ buffers' = [buffers EXCEPT ![array[t]] = "live"] /\ held' = held \cup {array[t]}
     \/ UNCHANGED <<buffers, held>>
  /\ UNCHANGED <<state, native, wanted, local>>

-----------------------------------------------------------------------------
CloseAgain(t) ==
  /\ Locked(t) /\ op[t] = "close" /\ closed
  /\ Unlock /\ Goto(t, "idle")
  /\ UNCHANGED <<closed, opened, sessionClosed, native, buffers, client, local>>

TakeSession(t) ==
  /\ Locked(t) /\ op[t] = "close" /\ ~closed
  /\ closed' = TRUE /\ opened' = FALSE
  /\ Unlock /\ IF opened THEN Goto(t, "release") ELSE Goto(t, "idle")
  /\ UNCHANGED <<sessionClosed, native, buffers, client, local>>

\* InferenceSession.close(): the native release waits for the call inside;
\* _closed is set after it.
ReleaseSession(t) ==
  /\ pc[t] = "release" /\ \A u \in Threads : ~Inside(u)
  /\ native' = "released"
  /\ Goto(t, "mark")
  /\ UNCHANGED <<state, buffers, client, local>>

MarkClosed(t) ==
  /\ pc[t] = "mark"
  /\ sessionClosed' = TRUE
  /\ Goto(t, "idle")
  /\ UNCHANGED <<lock, closed, opened, native, buffers, client, local>>

\* A buffer goes with its program although the client holds the array.
Collect_closed(a) ==
  /\ Live(a) /\ ~Using(a) /\ (a \notin held \/ closed)
  /\ buffers' = [buffers EXCEPT ![a] = "released"]
  /\ UNCHANGED <<state, native, client, pc, local>>

\* References go away; what nobody reaches is collected (__del__).
Drop(a) ==
  /\ a \in held /\ held' = held \ {a}
  /\ UNCHANGED <<state, native, buffers, wanted, pc, local>>

Collect(a) ==
  /\ Live(a) /\ a \notin held /\ ~Using(a)
  /\ buffers' = [buffers EXCEPT ![a] = "released"]
  /\ UNCHANGED <<state, native, client, pc, local>>

DropProgram ==
  /\ wanted /\ wanted' = FALSE
  /\ UNCHANGED <<state, native, buffers, held, pc, local>>

\* Buffers do not keep their session alive.
CollectSession_early ==
  /\ ~wanted /\ \A t \in Threads : Idle(t)
  /\ native = "live" /\ ~sessionClosed
  /\ native' = "released" /\ sessionClosed' = TRUE
  /\ UNCHANGED <<lock, closed, opened, buffers, client, pc, local>>

\* Only a closed program gives its session back.
CollectSession_closed == closed /\ CollectSession_early

\* Buffers refer to their session, running calls to the program.
CollectSession ==
  /\ ~wanted /\ \A t \in Threads : Idle(t)
  /\ \A a \in Arrays : ~Live(a)
  /\ native = "live" /\ ~sessionClosed
  /\ native' = "released" /\ sessionClosed' = TRUE
  /\ UNCHANGED <<lock, closed, opened, buffers, client, pc, local>>

Step(t) ==
  \/ Acquire(t) \/ Refuse(t) \/ GetSession(t) \/ CreateSession(t) \/ CreateFails(t)
  \/ Load(t) \/ Enter(t) \/ EnterFails(t) \/ EnterStray(t) \/ Leave(t)
  \/ CloseAgain(t) \/ TakeSession(t) \/ ReleaseSession(t) \/ MarkClosed(t)

Garbage == CollectSession \/ \E a \in Arrays : Collect(a)

Next ==
  \/ \E t \in Threads : \/ Run(t) \/ CloseCall(t) \/ Step(t)
                        \/ \E a \in Arrays : RunShared(t, a) \/ SharedArray(t, a)
  \/ \E a \in Arrays : Drop(a)
  \/ DropProgram \/ Garbage

Spec == Init /\ [][Next]_pvars

\* A started call goes on while it can, and Python collects at once what
\* nobody refers to.
FairSpec == Spec /\ WF_pvars(Garbage) /\ \A t \in Threads : WF_pvars(Step(t))

-----------------------------------------------------------------------------
TypeOK ==
  /\ lock \in Threads \cup {NoThread} /\ closed \in BOOLEAN /\ opened \in BOOLEAN
  /\ sessionClosed \in BOOLEAN
  /\ native \in {"absent", "live", "released"}
  /\ buffers \in [Arrays -> {"absent", "live", "released"}]
  /\ held \subseteq Arrays /\ wanted \in BOOLEAN
  /\ pc \in [Threads -> {"idle", "get", "locked", "got", "loaded", "inside", "release", "mark", "stray"}]
  /\ op \in [Threads -> {"none", "copied", "shared", "array", "close"}]
  /\ array \in [Threads -> Arrays \cup {NoArray}]
  /\ handle \in [Threads -> BOOLEAN]
  /\ late \subseteq Threads

\* An array that the client refers to, or that a call is using, has memory,
\* although the program may be closed or gone (NativeSharedBuffer._session).
HeldMemoryLive ==
  /\ \A a \in held : Live(a)
  /\ \A t \in Threads : Inside(t) /\ op[t] = "shared" => Live(array[t])

\* A call that begins on a closed program never reaches the native session,
\* whatever is still running; only a call that began before close() took the
\* session may enter one that is gone (__init__.py:234, _native.py:862).
ClosedIsFinal ==
  \A t \in Threads :
    /\ t \in late => pc[t] \in {"idle", "get", "locked"}
    /\ Inside(t) => native = "live"

Promise == INSTANCE ProgramPromise WITH
  session <- native, memory <- buffers

\* The threads together keep what ProgramPromise says.
KeepsPromise == Promise!Spec

\* When the client has let go of everything for good, all native objects are
\* released (InferenceSession.__del__, NativeSharedBuffer.__del__).
EventuallyReleased ==
  <>[](~wanted /\ held = {}) => <>[](native # "live" /\ \A a \in Arrays : ~Live(a))
=============================================================================
