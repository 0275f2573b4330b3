---------------------------- MODULE WorkerPosix ----------------------------
(***************************************************************************)
(* The POSIX supervisor of one worker process: npunlock_worker_process_run *)
(* of src/common/worker_process_posix.c.                                   *)
(*                                                                         *)
(* The supervisor spawns a worker in a process group of its own, sends it  *)
(* a request over a socket while it drains three pipes (response, stdout,  *)
(* stderr), watches a deadline, reaps the worker and reports a status with *)
(* the bytes it collected.  The worker, and a descendant that the worker   *)
(* may fork and that inherits its pipes, run concurrently with it.         *)
(*                                                                         *)
(* Bytes are abstracted to numbered units: the n-th unit written to a pipe *)
(* is the number n, so that loss, duplication and reordering show.  The    *)
(* flag timed_out of the code is the same fact as status = "TIMEOUT".  A   *)
(* call interrupted by a signal is made again at once or a round later and *)
(* is left out.                                                            *)
(***************************************************************************)
EXTENDS Naturals, Sequences, FiniteSets

CONSTANTS
  RequestSize,   \* units of the request
  SocketSize,    \* units the request socket buffers
  PipeSize,      \* units a pipe buffers (the worker blocks when it is full)
  ChunkSize,     \* units one read() returns at most
  FirstCapacity, \* the first allocation of a stream (4096 bytes in the code)
  Maximum,       \* [stream -> units accepted], the bound of the caller
  WriteLimit,    \* [stream -> units the worker ever writes], a bound of the model
  Manners,       \* how the worker may behave: "any", "cooperative"
  Faults,        \* the system calls that may fail
  Forks,         \* whether the worker may fork a descendant
  Deadline       \* whether the deadline may pass

StreamOrder == <<"response", "stdout", "stderr">>
Streams     == {"response", "stdout", "stderr"}

FaultKinds == {"setup", "spawn", "poll", "send", "read", "memory"}

\* The caller's arguments are the ones that pass the check at the head of the function.
ASSUME ArgumentsAssumption ==
  /\ RequestSize \in Nat \ {0}
  /\ SocketSize \in Nat \ {0}
  /\ PipeSize \in Nat \ {0}
  /\ ChunkSize \in Nat \ {0}
  /\ FirstCapacity \in Nat \ {0}
  /\ Maximum \in [Streams -> Nat \ {0}]
  /\ WriteLimit \in [Streams -> Nat]
  /\ Manners \subseteq {"any", "cooperative"}
  /\ Faults \subseteq FaultKinds
  /\ Forks \in BOOLEAN
  /\ Deadline \in BOOLEAN

VARIABLES
  pc,             \* where the supervisor is
  at,             \* the stream being drained, an index of StreamOrder
  ready,          \* the descriptors the last poll() reported
  status,         \* the status the function will return
  stream,         \* the three byte_stream records
  fds,            \* descriptors open in the supervisor
  request_offset, \* units of the request handed to the socket
  process_exited, \* the supervisor's belief that the worker was reaped
  wait_status,    \* what waitpid() last stored
  \* the processes and the kernel objects between them
  worker,         \* the worker process
  exit_code,      \* what the worker exited with
  descendant,     \* the process the worker may have forked
  killed,         \* processes with a pending SIGKILL
  pipe,           \* units in each pipe
  written,        \* units ever written to each pipe
  socket,         \* units of the request in the socket
  consumed,       \* units of the request the worker has read
  expired,        \* whether the deadline has passed
  manner          \* how the worker behaves, for the whole behaviour

supervisor == <<pc, at, ready, status, stream, fds, request_offset,
                process_exited, wait_status>>
world == <<worker, exit_code, descendant, killed, pipe, written, socket,
           consumed, expired>>
vars == <<supervisor, world, manner>>

Pairs == <<"request", "response", "stdout", "stderr">>
\* End 0 of a pair is the reading end; the supervisor keeps 1 of the request, 0 of the others.
Kept(p)   == <<p, IF p = "request" THEN 1 ELSE 0>>
Given(p)  == <<p, IF p = "request" THEN 0 ELSE 1>>
PairNames == {Pairs[i] : i \in DOMAIN Pairs}
RequestFd == Kept("request")

SIGKILLED == 137

Init ==
  /\ pc = "setup"
  /\ at = 1
  /\ ready = {}
  /\ status = "INTERNAL_ERROR"
  /\ stream = [s \in Streams |-> [data |-> <<>>, capacity |-> 0, closed |-> FALSE]]
  /\ fds = {}
  /\ request_offset = 0
  /\ process_exited = FALSE
  /\ wait_status = 0
  /\ worker = "none"
  /\ exit_code = 0
  /\ descendant = "none"
  /\ killed = {}
  /\ pipe = [s \in Streams |-> <<>>]
  /\ written = [s \in Streams |-> 0]
  /\ socket = 0
  /\ consumed = 0
  /\ expired = FALSE
  /\ manner \in Manners

(***************************************************************************)
(* A cooperative worker is of the kind that is hardest on the transport:   *)
(* it writes all that the caller accepts, to its pipes in any order,       *)
(* before it reads its request to the end, and then exits with 0.  It does *)
(* not fork, and no system call fails and no deadline passes around it.    *)
(***************************************************************************)
Cooperative == manner = "cooperative"

Fails(call) == call \in Faults /\ ~Cooperative

Limit(s) == IF Cooperative THEN Maximum[s] ELSE WriteLimit[s]

AllWritten == \A s \in Streams : written[s] = Limit(s)

(***************************************************************************)
(* Setup: the four descriptor pairs, then the spawn.                       *)
(***************************************************************************)

\* make_request_socket / make_pipe: a pair is created whole or not at all.
MakePair ==
  /\ pc = "setup"
  /\ at \in DOMAIN Pairs
  /\ \/ /\ fds' = fds \cup {Kept(Pairs[at]), Given(Pairs[at])}
        /\ at' = at + 1
        /\ UNCHANGED pc
     \/ /\ Fails("setup")
        /\ pc' = "done"
        /\ at' = 1
        /\ UNCHANGED fds
  /\ UNCHANGED <<ready, status, stream, request_offset, process_exited, wait_status, world>>

Spawn ==
  /\ pc = "setup"
  /\ at \notin DOMAIN Pairs
  /\ at' = 1
  /\ \/ /\ worker' = "running"
        /\ fds' = {Kept(p) : p \in PairNames}
        /\ status' = "OK"
        /\ pc' = "loop"
     \/ /\ Fails("spawn")
        /\ status' \in {"NOT_FOUND", "INTERNAL_ERROR"}
        /\ pc' = "done"
        /\ UNCHANGED <<worker, fds>>
  /\ UNCHANGED <<ready, stream, request_offset, process_exited, wait_status,
                 exit_code, descendant, killed, pipe, written, socket, consumed, expired>>

(***************************************************************************)
(* The supervision loop.                                                   *)
(***************************************************************************)

\* Some process still holds the other ends of the pipes and of the socket.
Attached == worker = "running" \/ descendant = "attached"

Finished_exited == process_exited

Finished == process_exited /\ \A s \in Streams : stream[s].closed

Readable(s) == ~stream[s].closed /\ (pipe[s] # <<>> \/ ~Attached)

Writable == RequestFd \in fds /\ (socket < SocketSize \/ ~Attached)

Polled_requestFirst ==
  IF RequestFd \in fds THEN (IF Writable THEN {"request"} ELSE {})
                       ELSE {s \in Streams : Readable(s)}

\* What poll() reports: everything that is ready, or nothing when its 100 ms pass.
Polled == {s \in Streams : Readable(s)} \cup (IF Writable THEN {"request"} ELSE {})

DeadlinePassed_never == FALSE

DeadlinePassed == expired

\* The loop condition, the deadline check and poll().
Loop ==
  /\ pc = "loop"
  /\ \/ /\ Finished
        /\ pc' = "final"
        /\ at' = 1
        /\ fds' = fds \ {RequestFd}
        /\ UNCHANGED <<ready, status>>
     \/ /\ ~Finished /\ DeadlinePassed
        /\ status' = "TIMEOUT"
        /\ pc' = "kill"
        /\ UNCHANGED <<at, ready, fds>>
     \/ /\ ~Finished /\ ~DeadlinePassed
        /\ ready' = Polled
        /\ pc' = "send"
        /\ UNCHANGED <<at, status, fds>>
     \/ /\ ~Finished /\ ~DeadlinePassed
        /\ Fails("poll")
        /\ status' = "IO_ERROR"
        /\ pc' = "kill"
        /\ UNCHANGED <<at, ready, fds>>
  /\ UNCHANGED <<stream, request_offset, process_exited, wait_status, world>>

\* What send() is asked to send.
Unsent == RequestSize - request_offset

\* send() of what is left of the request: some of it, would-block, or a broken pipe.
Send ==
  /\ pc = "send"
  /\ at' = 1
  /\ \/ /\ "request" \notin ready
        /\ pc' = "drain"
        /\ UNCHANGED <<status, fds, request_offset, socket>>
     \/ /\ "request" \in ready /\ Attached
        /\ \E sent \in 0 .. RequestSize :
             /\ sent <= Unsent
             /\ sent <= SocketSize - socket
             /\ sent = 0 => socket = SocketSize
             /\ request_offset' = request_offset + sent
             /\ socket' = socket + sent
        /\ fds' = IF request_offset' = RequestSize THEN fds \ {RequestFd} ELSE fds
        /\ pc' = "drain"
        /\ UNCHANGED status
     \/ /\ "request" \in ready /\ ~Attached
        /\ fds' = fds \ {RequestFd}
        /\ pc' = "drain"
        /\ UNCHANGED <<status, request_offset, socket>>
     \/ /\ "request" \in ready /\ Fails("send")
        /\ status' = "IO_ERROR"
        /\ pc' = "kill"
        /\ UNCHANGED <<fds, request_offset, socket>>
  /\ UNCHANGED <<ready, stream, process_exited, wait_status, worker, exit_code,
                 descendant, killed, pipe, written, consumed, expired>>

(***************************************************************************)
(* Draining one stream: one action per read().                             *)
(***************************************************************************)

Current == StreamOrder[at]

NextCapacity_once(capacity, required, maximum) ==
  IF capacity = 0 THEN FirstCapacity ELSE capacity * 2

\* The while loop of reserve_stream: what it makes of the value of `next` it begins with.
Doubled(required, maximum) ==
  LET loop[next \in Nat \ {0}] == IF next >= required THEN next
                                  ELSE IF next > maximum \div 2 THEN maximum
                                  ELSE loop[next * 2]
  IN  loop

\* reserve_stream, when the allocation is too small.
NextCapacity(capacity, required, maximum) ==
  Doubled(required, maximum)[IF capacity = 0 THEN FirstCapacity ELSE capacity]

Chunk == SubSeq(pipe[Current], 1, IF Len(pipe[Current]) < ChunkSize
                                    THEN Len(pipe[Current]) ELSE ChunkSize)

Rest == SubSeq(pipe[Current], Len(Chunk) + 1, Len(pipe[Current]))

Required == Len(stream[Current].data) + Len(Chunk)

\* read() returned units that fit: reserve_stream, then the copy.
ReadUnits ==
  /\ pipe[Current] # <<>>
  /\ Required <= Maximum[Current]
  /\ stream' = [stream EXCEPT
       ![Current].data = @ \o Chunk,
       ![Current].capacity =
          IF Required <= @ THEN @ ELSE NextCapacity(@, Required, Maximum[Current])]
  /\ pipe' = [pipe EXCEPT ![Current] = Rest]
  /\ UNCHANGED fds

\* read() returned units, and reserve_stream refused them: they are gone.
ReadRefused(refusal) ==
  /\ pipe[Current] # <<>>
  /\ \/ /\ Required > Maximum[Current]
        /\ refusal = "OVERFLOW"
     \/ /\ Required <= Maximum[Current]
        /\ Required > stream[Current].capacity
        /\ Fails("memory")
        /\ refusal = "OUT_OF_MEMORY"
  /\ pipe' = [pipe EXCEPT ![Current] = Rest]
  /\ UNCHANGED <<stream, fds>>

\* read() returned 0: no writer is left.
ReadEnd ==
  /\ pipe[Current] = <<>>
  /\ ~Attached
  /\ stream' = [stream EXCEPT ![Current].closed = TRUE]
  /\ fds' = fds \ {Kept(Current)}
  /\ UNCHANGED pipe

ReadWouldBlock ==
  /\ pipe[Current] = <<>>
  /\ Attached
  /\ UNCHANGED <<stream, fds, pipe>>

ReadError ==
  /\ Fails("read")
  /\ UNCHANGED <<stream, fds, pipe>>

NextStream_past(phase) ==
  IF at <= Len(StreamOrder)
    THEN at' = at + 1 /\ UNCHANGED pc
    ELSE at' = 1 /\ pc' = phase

\* The end of a drain_stream(): the next stream, or past the last one the phase after.
NextStream(phase) ==
  IF at < Len(StreamOrder)
    THEN at' = at + 1 /\ UNCHANGED pc
    ELSE at' = 1 /\ pc' = phase

drainFrame == UNCHANGED <<ready, request_offset, process_exited, wait_status, worker,
                          exit_code, descendant, killed, written, socket, consumed, expired>>

Refused_ignored(refusal) == UNCHANGED status /\ UNCHANGED <<pc, at>>

\* A refused chunk ends the loop with the refusal as the status.
Refused(refusal) == status' = refusal /\ pc' = "kill" /\ UNCHANGED at

\* The for loop over the three streams: drain_stream on the ones poll() reported.
Drain ==
  /\ pc = "drain"
  /\ \/ /\ stream[Current].closed \/ Current \notin ready
        /\ NextStream("wait")
        /\ UNCHANGED <<status, stream, fds, pipe>>
     \/ /\ ~stream[Current].closed /\ Current \in ready
        /\ \/ ReadUnits /\ UNCHANGED <<pc, at, status>>
           \/ (ReadEnd \/ ReadWouldBlock) /\ NextStream("wait") /\ UNCHANGED status
           \/ \E refusal \in {"OVERFLOW", "OUT_OF_MEMORY"} :
                ReadRefused(refusal) /\ Refused(refusal)
           \/ ReadError /\ Refused("IO_ERROR")
  /\ drainFrame

\* The last three drains, whose status is ignored.
FinalDrain ==
  /\ pc = "final"
  /\ \/ /\ stream[Current].closed
        /\ NextStream("finish")
        /\ UNCHANGED <<stream, fds, pipe>>
     \/ /\ ~stream[Current].closed
        /\ \/ ReadUnits /\ UNCHANGED <<pc, at>>
           \/ (ReadEnd \/ ReadWouldBlock \/ ReadError) /\ NextStream("finish")
           \/ \E refusal \in {"OVERFLOW", "OUT_OF_MEMORY"} :
                ReadRefused(refusal) /\ NextStream("finish")
  /\ UNCHANGED status
  /\ drainFrame

\* waitpid(WNOHANG): the worker is reaped, is still alive, or was already reaped (ECHILD).
Wait ==
  /\ pc = "wait"
  /\ \/ /\ worker = "zombie"
        /\ worker' = "reaped"
        /\ wait_status' = exit_code
        /\ process_exited' = TRUE
        /\ pc' = "loop"
        /\ UNCHANGED status
     \/ /\ worker \in {"running", "exiting"}
        /\ pc' = "loop"
        /\ UNCHANGED <<worker, wait_status, process_exited, status>>
     \/ /\ worker = "reaped"
        /\ status' = "INTERNAL_ERROR"
        /\ pc' = "kill"
        /\ UNCHANGED <<worker, wait_status, process_exited>>
  /\ UNCHANGED <<at, ready, stream, fds, request_offset, exit_code, descendant,
                 killed, pipe, written, socket, consumed, expired>>

(***************************************************************************)
(* Termination of the group, and the return.                               *)
(***************************************************************************)

Group_workerOnly == IF worker \in {"running", "exiting"} THEN {"worker"} ELSE {}

\* kill(-process) reaches every live member of the group, kill(process) the worker.
Group == (IF worker \in {"running", "exiting"} THEN {"worker"} ELSE {}) \cup
         (IF descendant \in {"attached", "detached"} THEN {"descendant"} ELSE {})

Kill ==
  /\ pc = "kill"
  /\ killed' = killed \cup Group
  /\ pc' = "reap"
  /\ UNCHANGED <<at, ready, status, stream, fds, request_offset, process_exited, wait_status,
                 worker, exit_code, descendant, pipe, written, socket, consumed, expired>>

\* The blocking waitpid(), which fails at once when there is nothing to reap.
Reap ==
  /\ pc = "reap"
  /\ \/ /\ worker = "zombie"
        /\ worker' = "reaped"
        /\ wait_status' = exit_code
     \/ /\ worker = "reaped"
        /\ UNCHANGED <<worker, wait_status>>
  /\ process_exited' = TRUE
  /\ fds' = fds \ {RequestFd}
  /\ at' = 1
  /\ pc' = "final"
  /\ UNCHANGED <<ready, status, stream, request_offset, exit_code, descendant,
                 killed, pipe, written, socket, consumed, expired>>

\* The exit code decides the status, unless something else already has.
Finish ==
  /\ pc = "finish"
  /\ status' = IF status = "OK" /\ wait_status # 0 THEN "DRIVER_FAILED" ELSE status
  /\ pc' = "done"
  /\ UNCHANGED <<at, ready, stream, fds, request_offset, process_exited, wait_status, world>>

\* done: close_fd() of all eight pipe ends and of the three streams.
ClosedAtDone == {Kept(p) : p \in PairNames} \cup {Given(p) : p \in PairNames}

Return ==
  /\ pc = "done"
  /\ fds' = fds \ ClosedAtDone
  /\ pc' = "returned"
  /\ UNCHANGED <<at, ready, status, stream, request_offset, process_exited, wait_status, world>>

(***************************************************************************)
(* The worker, its descendant and time.                                    *)
(***************************************************************************)

\* The model ends with the call.
worldFrame == pc # "returned" /\ UNCHANGED <<supervisor, manner>>

\* The worker, or its descendant, writes one unit to a pipe that has room.
Write(s) ==
  /\ Attached
  /\ written[s] < Limit(s)
  /\ Len(pipe[s]) < PipeSize
  /\ written' = [written EXCEPT ![s] = @ + 1]
  /\ pipe' = [pipe EXCEPT ![s] = Append(@, written[s] + 1)]
  /\ UNCHANGED <<worker, exit_code, descendant, killed, socket, consumed, expired>>
  /\ worldFrame

ReadRequest ==
  /\ worker = "running"
  /\ socket > 0
  /\ Cooperative => AllWritten
  /\ socket' = socket - 1
  /\ consumed' = consumed + 1
  /\ UNCHANGED <<worker, exit_code, descendant, killed, pipe, written, expired>>
  /\ worldFrame

Fork ==
  /\ Forks /\ ~Cooperative
  /\ worker = "running" /\ "worker" \notin killed
  /\ descendant = "none"
  /\ descendant' = "attached"
  /\ UNCHANGED <<worker, exit_code, killed, pipe, written, socket, consumed, expired>>
  /\ worldFrame

\* The descendant closes the inherited pipes, or ends.
DescendantLeaves ==
  /\ descendant \in {"attached", "detached"}
  /\ descendant' \in {"detached", "dead"} \ {descendant}
  /\ UNCHANGED <<worker, exit_code, killed, pipe, written, socket, consumed, expired>>
  /\ worldFrame

\* Exit closes the descriptors first; only then can the process be waited for.
Exit(code) ==
  /\ worker = "running"
  /\ worker' = "exiting"
  /\ exit_code' = code
  /\ UNCHANGED <<descendant, killed, pipe, written, socket, consumed, expired>>
  /\ worldFrame

ExitNormally ==
  \E code \in {0, 1} :
    /\ Cooperative => AllWritten /\ consumed = RequestSize /\ code = 0
    /\ Exit(code)

BecomeZombie ==
  /\ worker = "exiting"
  /\ worker' = "zombie"
  /\ UNCHANGED <<exit_code, descendant, killed, pipe, written, socket, consumed, expired>>
  /\ worldFrame

\* A pending SIGKILL takes effect.
Killed ==
  \/ "worker" \in killed /\ Exit(SIGKILLED)
  \/ /\ "descendant" \in killed
     /\ descendant \in {"attached", "detached"}
     /\ descendant' = "dead"
     /\ UNCHANGED <<worker, exit_code, killed, pipe, written, socket, consumed, expired>>
     /\ worldFrame

Expire ==
  /\ Deadline /\ ~Cooperative
  /\ worker # "none"
  /\ ~expired
  /\ expired' = TRUE
  /\ UNCHANGED <<worker, exit_code, descendant, killed, pipe, written, socket, consumed>>
  /\ worldFrame

Supervise ==
  /\ \/ MakePair \/ Spawn \/ Loop \/ Send \/ Drain \/ Wait
     \/ Kill \/ Reap \/ FinalDrain \/ Finish \/ Return
  /\ UNCHANGED manner

WriteSome == \E s \in Streams : Write(s)

World == \/ WriteSome \/ ReadRequest \/ Fork \/ DescendantLeaves
         \/ ExitNormally \/ BecomeZombie \/ Killed \/ Expire

Next == Supervise \/ World

\* A cooperative worker goes on with what it can do next.
Cooperate == Cooperative /\ (WriteSome \/ ReadRequest \/ ExitNormally)

Spec == Init /\ [][Next]_vars

(***************************************************************************)
(* Fairness.  The supervisor is a running thread; the clock advances; the  *)
(* kernel completes an exit and delivers SIGKILL.  Nothing is assumed of   *)
(* what the worker itself does, unless it is a cooperative one.            *)
(***************************************************************************)
FairSpec == /\ Spec
            /\ WF_vars(Supervise)
            /\ WF_vars(Expire)
            /\ WF_vars(BecomeZombie)
            /\ WF_vars(Killed)
            /\ WF_vars(Cooperate)

-----------------------------------------------------------------------------
(***************************************************************************)
(* Properties.                                                             *)
(***************************************************************************)

Statuses == {"OK", "TIMEOUT", "IO_ERROR", "OVERFLOW", "OUT_OF_MEMORY",
             "INTERNAL_ERROR", "NOT_FOUND", "DRIVER_FAILED"}

Units(s) == 1 .. Limit(s)

\* Every variable of the supervisor and of the processes has its type.
TypeOK ==
  /\ pc \in {"setup", "loop", "send", "drain", "wait", "kill", "reap", "final",
             "finish", "done", "returned"}
  /\ at \in 1 .. 5
  /\ pc # "setup" => at \in DOMAIN StreamOrder
  /\ ready \subseteq Streams \cup {"request"}
  /\ status \in Statuses
  /\ stream \in [Streams -> [data : Seq(Nat), capacity : Nat, closed : BOOLEAN]]
  /\ fds \subseteq ClosedAtDone
  /\ request_offset \in 0 .. RequestSize
  /\ process_exited \in BOOLEAN
  /\ wait_status \in {0, 1, SIGKILLED}
  /\ worker \in {"none", "running", "exiting", "zombie", "reaped"}
  /\ exit_code \in {0, 1, SIGKILLED}
  /\ descendant \in {"none", "attached", "detached", "dead"}
  /\ killed \subseteq {"worker", "descendant"}
  /\ pipe \in [Streams -> Seq(Nat)]
  /\ written \in [Streams -> Nat]
  /\ socket \in 0 .. SocketSize
  /\ consumed \in 0 .. RequestSize
  /\ expired \in BOOLEAN

Returned == pc = "returned"

\* Whatever the interleaving of writes, exits and polls, a run reported as OK belongs to a
\* worker that exited with 0, and delivers every unit that was written to each of the three
\* pipes, in order: nothing is left in a pipe, dropped or truncated.
OkMeansComplete ==
  Returned /\ status = "OK" =>
    /\ worker = "reaped" /\ exit_code = 0 /\ wait_status = 0
    /\ \A s \in Streams : stream[s].data = [i \in 1 .. written[s] |-> i]

\* The returned bytes are a prefix of what was written: a hole (a chunk that reserve_stream
\* refused followed by bytes of a later drain) only ever comes with a status that says so.
PrefixUnlessRefused ==
  Returned /\ status \notin {"OVERFLOW", "OUT_OF_MEMORY"} =>
    \A s \in Streams : \A i \in DOMAIN stream[s].data : stream[s].data[i] = i

\* The copy of drain_stream stays inside the allocation made by reserve_stream, and inside
\* the caller's maximum, through every sequence of growth steps.
CopyFitsAllocation ==
  \A s \in Streams :
    /\ Len(stream[s].data) <= stream[s].capacity
    /\ Len(stream[s].data) <= Maximum[s]

\* What the caller gets of the three pipes is never something else than what was written,
\* whatever fails and whenever the worker exits.
ReportExact == TypeOK /\ OkMeansComplete /\ PrefixUnlessRefused /\ CopyFitsAllocation

\* When the function returns it leaves no zombie and no open descriptor behind, and after a
\* failure of a started worker a surviving descendant of it has been sent SIGKILL
\* (DRIVER_FAILED excepted: there the worker ended by itself and all pipes are closed).
ReturnedClean ==
  Returned =>
    /\ fds = {}
    /\ worker \in {"none", "reaped"}
    /\ status \notin {"OK", "DRIVER_FAILED"} /\ descendant \in {"attached", "detached"}
         => "descendant" \in killed
    /\ status = "DRIVER_FAILED" => wait_status # 0

\* The function returns whatever the worker does (hang, fill its pipes, never read, leave a
\* descendant on the pipes): the deadline and SIGKILL suffice.
AlwaysReturns == <>Returned

\* With full pipes in both directions a cooperative worker still gets through: the
\* supervisor never waits for the request to be taken before it drains the answers.
NoTransportDeadlock == Cooperative => <>(worker \in {"exiting", "zombie", "reaped"})

\* What the fixture test asserts of a worker that exits with 0 within its deadline and its
\* limits, with no failing system call: the run is OK with exit code 0.
EchoSucceeds ==
  Returned /\ Cooperative => status = "OK" /\ wait_status = 0
=============================================================================
