----------------------------- MODULE IrCompile -----------------------------
(***************************************************************************)
(* ir2blob_compile and ir2blob_query of src/ir2blob with their worker      *)
(* process src/workers/ir_worker.c, which selects an NPU, compiles the IR  *)
(* with the driver, exports the native blob, loads it again as a check and *)
(* takes everything down.                                                  *)
(*                                                                         *)
(* The caller's process waits in the supervisor, which gives up on the     *)
(* worker at any moment and otherwise promises what its own module shows:  *)
(* status OK means exit code 0 and a complete response.  Each call of the  *)
(* Level Zero driver fails, crashes the worker or succeeds as it likes.    *)
(***************************************************************************)
EXTENDS Buffers, Integers, Sequences

CONSTANTS
  Platforms,    \* drivers, each a sequence of devices: "vpu" or "other"
  Indices,      \* driver and device indices that callers ask for
  AutoIndex,    \* IR2BLOB_AUTO_INDEX
  MaxMessage,   \* NPUNLOCK_IR_MAX_MESSAGE_SIZE
  MaxBlob,      \* NPUNLOCK_IR_MAX_RESULT_SIZE
  InputSizes,   \* sizes of the XML
  BlobSizes     \* sizes of what the driver exports

(* Units of a header. *)
Header == 1

(* Units that an ELF magic takes. *)
Magic == 1

ASSUME IrAssumption ==
  /\ Platforms # {}
  /\ \A p \in Platforms : p \in Seq(Seq({"vpu", "other"}))
  /\ Indices \subseteq Nat /\ AutoIndex \notin Indices
  /\ {MaxMessage, MaxBlob} \cup InputSizes \cup BlobSizes \subseteq Nat

WorkerStatuses == {"OK", "BAD_REQUEST", "OUT_OF_MEMORY", "LOADER_NOT_FOUND", "SYMBOL_MISSING",
                   "NPU_NOT_FOUND", "GRAPH_EXTENSION_MISSING", "UNSUPPORTED", "DRIVER_FAILED",
                   "BAD_RESULT"}

(* ir_result: the message is 1 when there is a diagnostic. *)
WorkerResults ==
  [status : WorkerStatuses, driver : Int, device : Int, kind : {"none", "elf", "other"},
   size : Int, message : {0, 1}, code : {"SUCCESS", "ERROR"}]

(* npunlock_status, as far as these calls return it. *)
Statuses == {"OK", "INVALID_ARGUMENT", "UNSUPPORTED", "OUT_OF_MEMORY", "NOT_FOUND",
             "INTERNAL_ERROR", "DRIVER_FAILED", "TIMEOUT", "OVERFLOW", "IO_ERROR"}

(* What a caller asks for; the size of a query is that of an empty XML. *)
Options ==
  {o \in [mode : {"COMPILE", "QUERY"}, check : {"OK", "INVALID_ARGUMENT"},
          driver : Indices \cup {AutoIndex}, device : Indices \cup {AutoIndex}, size : InputSizes \cup {0},
          workerPath : {"good", "not_UTF-8"}] :
     (o.mode = "QUERY") <=> (o.size = 0)}

ResultSlots == {"blob", "log", "errlog", "diagnostic"}
WorkSlots   == {"request", "response", "out", "err",
                "worker_blob", "worker_message", "worker_out", "worker_err"}
Slots       == ResultSlots \cup WorkSlots

(* The contents of blocks: requests, responses, diagnostics and logs. *)
Blocks == [id : Slots, what : Options \cup WorkerResults \cup Statuses \cup {<<>>}, size : Nat]

ASSUME NullAssumption ==
  /\ Null \notin WorkerStatuses \cup {"compiled", "reloaded"}
  /\ Null \notin Blocks

VARIABLES
  pc, options, status,
  platform,    \* the machine that the worker runs on
  wpc,         \* where the worker is; "none" when there is no process
  di, vi,      \* loop indices of select_npu
  wresult,     \* ir_result
  context,     \* whether the handle of the context is set
  graph,       \* handle of the graph: Null, "compiled" or "reloaded"
  objects,     \* contexts and graphs that exist in the driver
  sent, exit,
  seen,        \* history of the call, see below
  first,       \* history: the status with which compile_ir reached its label done
  stuck        \* history: objects that the driver refused to destroy

client  == <<pc, options, status, mem, heap>>
driver  == <<context, graph, objects, stuck>>
select  == <<di, vi>>
worker  == <<wpc, select, wresult, driver, sent, exit, first>>
vars    == <<client, platform, worker, seen>>

(* seen collects "oom", an allocation failed; "failed", the worker process *)
(* did not end well; "call_failed", the driver failed a call in select_npu;*)
(* "reloaded", the driver accepted the exported blob.                      *)

----------------------------------------------------------------------------
(* The client up to the worker *)

NoResult == [status |-> "BAD_REQUEST", driver |-> -1, device |-> -1, kind |-> "none", size |-> 0,
             message |-> 0, code |-> "SUCCESS"]

NoWorker == /\ wpc = "none" /\ di = 0 /\ vi = 0 /\ wresult = NoResult
            /\ context = FALSE /\ graph = Null /\ objects = {} /\ stuck = {}
            /\ sent = 0 /\ exit = Null /\ first = Null

Init ==
  /\ pc = "idle" /\ options = Null /\ status = "OK"
  /\ mem = [s \in Slots |-> Null] /\ heap = {}
  /\ platform \in Platforms
  /\ NoWorker
  /\ seen = {}

(* npunlock_set_diagnostic *)
SetDiagnostic(st) ==
  \/ Allocate("diagnostic", st, 1) /\ status' = st /\ UNCHANGED seen
  \/ status' = "OUT_OF_MEMORY" /\ seen' = seen \cup {"oom"} /\ UNCHANGED <<mem, heap>>

Call ==
  \E o \in Options :
    /\ pc = "idle"
    /\ options' = o
    /\ IF o.check = "OK"
         THEN pc' = "build" /\ status' = "OK" /\ UNCHANGED <<mem, heap, seen>>
         ELSE pc' = "returned" /\ SetDiagnostic(o.check)
    /\ UNCHANGED <<platform, worker>>

BuildRequest ==
  /\ pc = "build"
  /\ \/ /\ Header + options.size > MaxMessage
        /\ status' = "INVALID_ARGUMENT" /\ pc' = "ran"
        /\ UNCHANGED <<mem, heap, seen>>
     \/ /\ Header + options.size <= MaxMessage
        /\ status' = "OUT_OF_MEMORY" /\ seen' = seen \cup {"oom"} /\ pc' = "ran"
        /\ UNCHANGED <<mem, heap>>
     \/ /\ Header + options.size <= MaxMessage
        /\ Allocate("request", options, Header + options.size)
        /\ pc' = "start" /\ UNCHANGED <<status, seen>>
  /\ UNCHANGED <<options, platform, worker>>

(* The conversion of a path fails for a bad path and for a lack of memory  *)
(* alike.                                                                  *)
StartWorker ==
  /\ pc = "start"
  /\ \/ /\ options.workerPath = "good"
        /\ wpc' = "read" /\ pc' = "wait" /\ UNCHANGED <<status, seen>>
     \/ /\ \/ /\ options.workerPath = "good"
              /\ status' \in {"NOT_FOUND", "INTERNAL_ERROR"} /\ seen' = seen \cup {"failed"}
           \/ /\ options.workerPath # "good"
              /\ status' = "INVALID_ARGUMENT" /\ seen' = seen \cup {"failed"}
           \/ /\ options.workerPath = "good"
              /\ status' \in {"INVALID_ARGUMENT", "OUT_OF_MEMORY"}
              /\ seen' = seen \cup {"failed", "oom"}
        /\ pc' = "ran" /\ UNCHANGED wpc
  /\ UNCHANGED <<options, mem, heap, platform, select, wresult, driver, sent, exit, first>>

----------------------------------------------------------------------------
(* npunlock_ir_worker_main: the request *)

(* A diagnostic may lack memory; the first one is kept. *)
Explained(r) == {[r EXCEPT !.message = d] : d \in IF r.message = 1 THEN {1} ELSE {0, 1}}

Failure(st, r) ==
  CASE st = "OUT_OF_MEMORY" -> {[r EXCEPT !.status = st]}
    [] st = "DRIVER_FAILED" ->
         UNION {Explained([r EXCEPT !.status = st, !.code = c]) : c \in {"SUCCESS", "ERROR"}}
    [] OTHER -> Explained([r EXCEPT !.status = st])

ReadRequest ==
  /\ wpc = "read"
  /\ \/ wpc' = "parse" /\ UNCHANGED <<wresult, seen>>
     \/ /\ wresult' \in Failure("BAD_REQUEST", wresult) /\ seen' = seen \cup {"oom"}
        /\ wpc' = "header"
  /\ UNCHANGED <<client, platform, select, driver, sent, exit, first>>

WellFormed_neverEmpty(r) == r.mode \in {"COMPILE", "QUERY"} /\ r.size # 0

WellFormed(r) == /\ r.mode \in {"COMPILE", "QUERY"}
                 /\ r.mode = "COMPILE" => r.size # 0
                 /\ r.mode = "QUERY" => r.size = 0

(* parse_request, and the first assignments of compile_ir. *)
ParseRequest ==
  /\ wpc = "parse"
  /\ IF WellFormed(mem["request"].what)
       THEN wpc' = "load" /\ wresult' = [wresult EXCEPT !.status = "DRIVER_FAILED"]
       ELSE wpc' = "header" /\ wresult' \in Failure("BAD_REQUEST", wresult)
  /\ UNCHANGED <<client, platform, select, driver, sent, exit, first, seen>>

----------------------------------------------------------------------------
(* compile_ir: the device *)

(* goto done with a failure. *)
GiveUp(st) == /\ wresult' \in Failure(st, wresult)
              /\ first' = st
              /\ wpc' = "cleanup_graph"

(* A step of compile_ir that only asks the loader or the driver. *)
Ask(at, next, failures) ==
  /\ wpc = at
  /\ \/ wpc' = next /\ UNCHANGED <<wresult, first>>
     \/ \E st \in failures : GiveUp(st)
  /\ UNCHANGED <<client, platform, select, driver, sent, exit, seen>>

LoadLoader == Ask("load", "drivers", {"LOADER_NOT_FOUND", "SYMBOL_MISSING"})

Wanted(index, i) == index = AutoIndex \/ index = i

(* select_npu: the drivers of the platform. *)
InitDrivers ==
  /\ wpc = "drivers"
  /\ \/ /\ Len(platform) > 0
        /\ options.driver # AutoIndex => options.driver < Len(platform)
        /\ wpc' = "driver" /\ di' = 0 /\ UNCHANGED <<wresult, first>>
     \/ /\ \/ Len(platform) = 0
           \/ options.driver # AutoIndex /\ options.driver >= Len(platform)
        /\ GiveUp("NPU_NOT_FOUND") /\ UNCHANGED di
     \/ \E st \in {"DRIVER_FAILED", "OUT_OF_MEMORY"} : GiveUp(st) /\ UNCHANGED di
  /\ UNCHANGED <<client, platform, vi, driver, sent, exit, seen>>

DeviceInRange(devices) ==
  /\ Len(devices) > 0
  /\ options.device # AutoIndex => options.device < Len(devices)

(* One turn of the loop over the drivers: skip it, or look at its devices. *)
SelectDriver ==
  /\ wpc = "driver"
  /\ \/ /\ di = Len(platform)
        /\ GiveUp("NPU_NOT_FOUND") /\ UNCHANGED <<select, seen>>
     \/ /\ di < Len(platform)
        /\ ~Wanted(options.driver, di) \/ ~DeviceInRange(platform[di + 1])
        /\ di' = di + 1 /\ UNCHANGED <<vi, wpc, wresult, first, seen>>
     \/ /\ di < Len(platform) /\ Wanted(options.driver, di)
        /\ di' = di + 1 /\ seen' = seen \cup {"call_failed"}
        /\ UNCHANGED <<vi, wpc, wresult, first>>
     \/ /\ di < Len(platform) /\ Wanted(options.driver, di) /\ DeviceInRange(platform[di + 1])
        /\ \/ wpc' = "device" /\ vi' = 0 /\ UNCHANGED <<wresult, first>>
           \/ GiveUp("OUT_OF_MEMORY") /\ UNCHANGED vi
        /\ UNCHANGED <<di, seen>>
  /\ UNCHANGED <<client, platform, driver, sent, exit>>

IsNpu_any(device) == TRUE
IsNpu(device) == device = "vpu"

(* One turn of the loop over the devices of a driver. *)
SelectDevice ==
  LET devices == platform[di + 1] IN
  /\ wpc = "device"
  /\ \/ /\ vi = Len(devices)
        /\ wpc' = "driver" /\ di' = di + 1 /\ UNCHANGED <<vi, wresult, seen>>
     \/ /\ vi < Len(devices)
        /\ ~Wanted(options.device, vi) \/ ~IsNpu(devices[vi + 1])
        /\ vi' = vi + 1 /\ UNCHANGED <<wpc, di, wresult, seen>>
     \/ /\ vi < Len(devices) /\ Wanted(options.device, vi)
        /\ vi' = vi + 1 /\ seen' = seen \cup {"call_failed"}
        /\ UNCHANGED <<wpc, di, wresult>>
     \/ /\ vi < Len(devices) /\ Wanted(options.device, vi) /\ IsNpu(devices[vi + 1])
        /\ wresult' = [wresult EXCEPT !.driver = di, !.device = vi]
        /\ wpc' = "properties" /\ UNCHANGED <<select, seen>>
  /\ UNCHANGED <<client, platform, driver, sent, exit, first>>

DriverProperties   == Ask("properties", "extension", {"DRIVER_FAILED"})
FindGraphVersion   == Ask("extension", "ddi",
                          {"DRIVER_FAILED", "OUT_OF_MEMORY", "GRAPH_EXTENSION_MISSING"})
GetGraphDdi        == Ask("ddi", "contract", {"DRIVER_FAILED", "SYMBOL_MISSING"})
QueryGraphContract == Ask("contract", "mode", {"DRIVER_FAILED", "UNSUPPORTED"})

----------------------------------------------------------------------------
(* compile_ir: the graph *)

Succeed == /\ wresult' = [wresult EXCEPT !.status = "OK", !.code = "SUCCESS"]
           /\ first' = "OK"
           /\ wpc' = "cleanup_graph"

(* A query is over here; a compilation packs its input. *)
Package ==
  /\ wpc = "mode"
  /\ \/ options.mode = "QUERY" /\ Succeed
     \/ options.mode = "COMPILE" /\ wpc' = "context" /\ UNCHANGED <<wresult, first>>
     \/ options.mode = "COMPILE" /\ GiveUp("OUT_OF_MEMORY")
  /\ UNCHANGED <<client, platform, select, driver, sent, exit, seen>>

CreateContext ==
  /\ wpc = "context"
  /\ \/ /\ context' = TRUE /\ objects' = objects \cup {"context"}
        /\ wpc' = "entry_points" /\ UNCHANGED <<wresult, first>>
     \/ GiveUp("DRIVER_FAILED") /\ UNCHANGED <<context, objects>>
  /\ UNCHANGED <<client, platform, select, graph, stuck, sent, exit, seen>>

EntryPoints == Ask("entry_points", "create", {"UNSUPPORTED"})

(* pfnCreate2 of a graph: from the IR first, from the exported blob later. *)
CreateGraph(at, name, next) ==
  /\ wpc = at
  /\ \/ /\ graph' = name /\ objects' = objects \cup {name}
        /\ next
     \/ /\ GiveUp("DRIVER_FAILED")
        /\ UNCHANGED <<graph, objects, seen>>
  /\ UNCHANGED <<client, platform, select, context, stuck, sent, exit>>

Compile == CreateGraph("create", "compiled",
             wpc' \in {"native2", "native_size"} /\ UNCHANGED <<wresult, first, seen>>)

Usable_unbounded(n) == n # 0
Usable(n) == n # 0 /\ n <= MaxBlob

(* pfnGetNativeBinary2, or the size that pfnGetNativeBinary asks for. *)
GetNativeSize ==
  /\ wpc \in {"native2", "native_size"}
  /\ \/ \E n \in BlobSizes, k \in {"elf", "other"} :
          /\ Usable(n)
          /\ wresult' = [wresult EXCEPT !.size = n, !.kind = IF wpc = "native2" THEN k ELSE "none"]
          /\ wpc' = IF wpc = "native2" THEN "magic" ELSE "native_data"
          /\ UNCHANGED first
     \/ \E st \in {"DRIVER_FAILED", "OUT_OF_MEMORY"} : GiveUp(st)
  /\ UNCHANGED <<client, platform, select, driver, sent, exit, seen>>

(* The second call of pfnGetNativeBinary may return less, down to nothing. *)
GetNativeData ==
  /\ wpc = "native_data"
  /\ \/ \E n \in BlobSizes \cup {0}, k \in {"elf", "other"} :
          /\ n <= wresult.size
          /\ wresult' = [wresult EXCEPT !.size = n, !.kind = k]
          /\ wpc' = "magic" /\ UNCHANGED first
     \/ GiveUp("DRIVER_FAILED")
  /\ UNCHANGED <<client, platform, select, driver, sent, exit, seen>>

IsElf_sizeUnchecked(r) == r.kind = "elf"
IsElf(r) == r.size >= Magic /\ r.kind = "elf"

CheckMagic ==
  /\ wpc = "magic"
  /\ \/ IsElf(wresult) /\ wpc' = "destroy" /\ UNCHANGED <<wresult, first>>
     \/ ~IsElf(wresult) /\ GiveUp("BAD_RESULT")
  /\ UNCHANGED <<client, platform, select, driver, sent, exit, seen>>

(* A call that destroys an object: the driver does so or refuses. *)
Destroyed(name) == objects' = objects \ {name} /\ UNCHANGED stuck
Refused(name)   == stuck' = stuck \cup {name} /\ UNCHANGED objects

(* The handle is cleared before the result is looked at. *)
Forgotten_onSuccess == graph' = IF "compiled" \in objects' THEN graph ELSE Null
Forgotten == graph' = Null

DestroyCompiled ==
  /\ wpc = "destroy"
  /\ \/ Destroyed(graph) /\ wpc' = "reload" /\ UNCHANGED <<wresult, first>>
     \/ Refused(graph) /\ GiveUp("DRIVER_FAILED")
  /\ Forgotten
  /\ UNCHANGED <<client, platform, select, context, sent, exit, seen>>

Reload == CreateGraph("reload", "reloaded", Succeed /\ seen' = seen \cup {"reloaded"})

----------------------------------------------------------------------------
(* compile_ir: the label done, and send_response *)

(* A refusal to destroy fails a compilation that had succeeded, and leaves *)
(* an earlier failure as it is.                                            *)
AfterRefusal_masks(r) == Failure("DRIVER_FAILED", r)
AfterRefusal(r) == IF r.status = "OK" THEN Failure("DRIVER_FAILED", r) ELSE {r}

ToDestroy_afterSuccess == graph # Null /\ wresult.status = "OK"
ToDestroy == graph # Null

CleanUpGraph ==
  /\ wpc = "cleanup_graph"
  /\ \/ ~ToDestroy /\ UNCHANGED <<wresult, objects, stuck>>
     \/ ToDestroy /\ Destroyed(graph) /\ UNCHANGED wresult
     \/ ToDestroy /\ Refused(graph) /\ wresult' \in AfterRefusal(wresult)
  /\ wpc' = "cleanup_context"
  /\ UNCHANGED <<client, platform, select, context, graph, sent, exit, first, seen>>

(* The blob of a failed compilation is dropped. *)
Dropped_onlyIfFailedFirst(r) == IF first # "OK" THEN [r EXCEPT !.size = 0, !.kind = "none"] ELSE r
Dropped(r) == IF r.status # "OK" THEN [r EXCEPT !.size = 0, !.kind = "none"] ELSE r

CleanUpContext ==
  /\ wpc = "cleanup_context"
  /\ \/ ~context /\ wresult' = Dropped(wresult) /\ UNCHANGED <<objects, stuck>>
     \/ context /\ Destroyed("context") /\ wresult' = Dropped(wresult)
     \/ context /\ Refused("context") /\ \E r \in AfterRefusal(wresult) : wresult' = Dropped(r)
  /\ wpc' = "header"
  /\ UNCHANGED <<client, platform, select, context, graph, sent, exit, first, seen>>

Piece == CASE wpc = "header" -> Header
           [] wpc = "output" -> wresult.size
           [] wpc = "message" -> wresult.message

SendResponse ==
  /\ wpc \in {"header", "output", "message"}
  /\ \/ /\ sent' = sent + Piece
        /\ CASE wpc = "header" -> wpc' = "output" /\ UNCHANGED exit
             [] wpc = "output" -> wpc' = "message" /\ UNCHANGED exit
             [] wpc = "message" -> wpc' = "exited" /\ exit' = 0
     \/ Piece > 0 /\ wpc' = "exited" /\ exit' = 3 /\ UNCHANGED sent
  /\ UNCHANGED <<client, platform, select, wresult, driver, first, seen>>

(* The driver brings down the process that called it. *)
Crash ==
  /\ wpc \notin {"none", "exited"}
  /\ wpc' = "exited" /\ exit' = 5
  /\ UNCHANGED <<client, platform, select, wresult, driver, sent, first, seen>>

Worker == \/ ReadRequest \/ ParseRequest \/ LoadLoader \/ InitDrivers \/ SelectDriver
          \/ SelectDevice \/ DriverProperties \/ FindGraphVersion \/ GetGraphDdi
          \/ QueryGraphContract \/ Package \/ CreateContext \/ EntryPoints \/ Compile
          \/ GetNativeSize \/ GetNativeData \/ CheckMagic \/ DestroyCompiled \/ Reload
          \/ CleanUpGraph \/ CleanUpContext \/ SendResponse \/ Crash

----------------------------------------------------------------------------
(* The client after the worker *)

(* npunlock_worker_process_run *)
SupervisorGivesUp_never == {}
SupervisorGivesUp       == {"TIMEOUT", "OVERFLOW", "IO_ERROR", "OUT_OF_MEMORY", "INTERNAL_ERROR"}

SupervisorReturns ==
  /\ pc = "wait"
  /\ \/ wpc = "exited" /\ status' = IF exit = 0 THEN "OK" ELSE "DRIVER_FAILED"
     \/ status' \in SupervisorGivesUp
  /\ \E captured \in SUBSET {"out", "err"} :
       Store([s \in captured \cup (IF sent > 0 THEN {"response"} ELSE {}) |->
                IF s = "response" THEN Block(s, wresult, sent) ELSE Block(s, <<>>, 1)], {})
  /\ seen' = IF status' # "OK" THEN seen \cup {"failed"} ELSE seen
  /\ pc' = "ran"
  /\ wpc' = "none" /\ di' = 0 /\ vi' = 0 /\ wresult' = NoResult
  /\ context' = FALSE /\ graph' = Null /\ objects' = {} /\ stuck' = {}
  /\ sent' = 0 /\ exit' = Null /\ first' = Null
  /\ UNCHANGED <<options, platform>>

(* parse_response *)
Malformed(response) ==
  \/ response.size < Header
  \/ response.what.size > MaxBlob
  \/ Header + response.what.size + response.what.message # response.size

Verdict(st) ==
  CASE st \in {"OK", "OUT_OF_MEMORY"} -> st
    [] st \in {"LOADER_NOT_FOUND", "NPU_NOT_FOUND"} -> "NOT_FOUND"
    [] st \in {"GRAPH_EXTENSION_MISSING", "UNSUPPORTED"} -> "UNSUPPORTED"
    [] st = "BAD_REQUEST" -> "INVALID_ARGUMENT"
    [] OTHER -> "DRIVER_FAILED"

Copies(r) ==
  LET SizeOf(s) == IF s = "worker_blob" THEN r.size ELSE r.message
  IN  [s \in {t \in {"worker_blob", "worker_message"} : SizeOf(t) > 0} |-> Block(s, r, SizeOf(s))]

(* The rest of npunlock_run_ir_worker. *)
WorkerReturns ==
  LET response == mem["response"]
      Leave(put) == Move([s \in {"worker_out", "worker_err"} |->
                            IF s = "worker_out" THEN "out" ELSE "err"],
                         put, {"request", "response"})
  IN
  /\ pc = "ran"
  /\ \/ /\ status # "OK"
        /\ Leave(NoNew) /\ UNCHANGED <<status, seen>>
     \/ /\ status = "OK" /\ Malformed(response)
        /\ Leave(NoNew) /\ status' = "DRIVER_FAILED" /\ UNCHANGED seen
     \/ /\ status = "OK" /\ ~Malformed(response)
        /\ Leave(Copies(response.what)) /\ status' = Verdict(response.what.status)
        /\ UNCHANGED seen
     \/ /\ status = "OK" /\ ~Malformed(response)
        /\ response.what.size + response.what.message > 0
        /\ Leave(NoNew) /\ status' = "OUT_OF_MEMORY" /\ seen' = seen \cup {"oom"}
  /\ pc' = "logs"
  /\ UNCHANGED <<options, platform, worker>>

(* run_worker: the logs move to the caller's result in any case ... *)
MoveLogs ==
  /\ pc = "logs"
  /\ Move([s \in {"log", "errlog"} |-> IF s = "log" THEN "worker_out" ELSE "worker_err"], NoNew, {})
  /\ pc' = "check"
  /\ UNCHANGED <<options, status, platform, worker, seen>>

(* ... the blob after a success, worker_failure explains a failure ...     *)
BlobMoves_copied == mem' = [mem EXCEPT !["blob"] = mem["worker_blob"]] /\ UNCHANGED heap
BlobMoves == Move([s \in {"blob"} |-> "worker_blob"], NoNew, {})

CheckWorker ==
  /\ pc = "check"
  /\ \/ status # "OK" /\ SetDiagnostic(status)
     \/ status = "OK" /\ BlobMoves /\ UNCHANGED <<status, seen>>
  /\ pc' = "done"
  /\ UNCHANGED <<options, platform, worker>>

(* ... and npunlock_ir_worker_result_release. *)
Done ==
  /\ pc = "done"
  /\ Store(NoNew, WorkSlots)
  /\ pc' = "returned"
  /\ UNCHANGED <<options, status, platform, worker, seen>>

(* The caller's ir2blob_result_release. *)
Release ==
  /\ pc = "returned"
  /\ Store(NoNew, ResultSlots)
  /\ pc' = "idle" /\ options' = Null /\ status' = "OK" /\ seen' = {}
  /\ UNCHANGED <<platform, worker>>

Client == \/ BuildRequest \/ StartWorker \/ SupervisorReturns \/ WorkerReturns \/ MoveLogs
          \/ CheckWorker \/ Done

Next == Call \/ Client \/ Worker \/ Release

(* The code of the library does not stop, and the supervisor has a         *)
(* deadline; nothing is assumed of the worker or of the driver.            *)
Spec == Init /\ [][Next]_vars /\ WF_vars(Client)

----------------------------------------------------------------------------
(* Properties *)

Sending == wpc \in {"header", "output", "message"}

TypeOK ==
  /\ pc \in {"idle", "build", "start", "wait", "ran", "logs", "check", "done", "returned"}
  /\ options \in Options \cup {Null}
  /\ status \in Statuses
  /\ platform \in Platforms
  /\ wpc \in {"none", "read", "parse", "load", "drivers", "driver", "device", "properties",
              "extension", "ddi", "contract", "mode", "context", "entry_points", "create",
              "native2", "native_size", "native_data", "magic", "destroy", "reload",
              "cleanup_graph", "cleanup_context", "header", "output", "message", "exited"}
  /\ wresult.size \in 0 .. MaxBlob
  /\ sent \in 0 .. Header + MaxBlob + 1
  /\ context \in BOOLEAN
  /\ graph \in {Null, "compiled", "reloaded"}
  /\ objects \cup stuck \subseteq {"context", "compiled", "reloaded"}
  /\ exit \in {Null, 0, 3, 5}

(* When ir2blob_compile or ir2blob_query has returned, only the result     *)
(* owns memory, and a blob is there exactly after a successful compilation.*)
ResultOwnsTheRest ==
  pc = "returned" =>
    /\ Live \subseteq ResultSlots
    /\ mem["blob"] # Null <=> (status = "OK" /\ options.mode = "COMPILE")

(* What the status tells is true.  OK: the process ended well, and a blob  *)
(* was exported as an ELF and loaded again by the driver.                  *)
(* INVALID_ARGUMENT, to which a refused request is translated as well: the *)
(* arguments are invalid or too long, or memory was lacking.               *)
StatusMeans ==
  /\ pc = "returned" /\ status = "OK" =>
       /\ "failed" \notin seen
       /\ options.mode = "COMPILE" => /\ "reloaded" \in seen
                                      /\ mem["blob"].what.kind = "elf"
                                      /\ mem["blob"].what.status = "OK"
  /\ pc = "returned" /\ status = "INVALID_ARGUMENT" =>
       \/ options.check # "OK" \/ options.workerPath # "good"
       \/ Header + options.size > MaxMessage
       \/ "oom" \in seen

(* A response carries a blob only with status OK, and status OK only when  *)
(* every object of the driver could be destroyed (compile_ir, done).       *)
ResponseConsistent ==
  Sending => /\ wresult.status = "OK" => stuck = {} /\ wresult.code = "SUCCESS"
             /\ wresult.status # "OK" => wresult.size = 0

(* The failure that is reported is the first one: taking down the graph    *)
(* and the context never hides it.                                         *)
FirstErrorKept ==
  Sending /\ first # Null =>
    \/ wresult.status = first
    \/ first = "OK" /\ wresult.status = "DRIVER_FAILED" /\ stuck # {}

(* What the worker tells of a compilation that failed, or whose objects    *)
(* could not be destroyed, is its first failure, without a blob.           *)
ResponseSound == ResponseConsistent /\ FirstErrorKept

(* The handle of a graph that compile_ir may still use is that of a graph  *)
(* that exists and was not passed to pfnDestroy.                           *)
HandleValid ==
  graph # Null /\ wpc \notin {"cleanup_context", "header", "output", "message", "exited", "none"} =>
    graph \in objects \ stuck

(* Before the response is sent, and whenever the context is gone, nothing  *)
(* is left in the driver that it did not refuse to destroy.                *)
DriverObjectsReleased ==
  Sending \/ "context" \notin objects => objects \subseteq stuck

(* compile_ir uses no object of the driver after its destruction and       *)
(* leaves none behind.                                                     *)
DriverSound == HandleValid /\ DriverObjectsReleased

(* The devices of the machine, and those of them that a request allows. *)
Devices == UNION {{d} \X (0 .. Len(platform[d + 1]) - 1) : d \in 0 .. Len(platform) - 1}

Matches ==
  {m \in Devices : /\ Wanted(options.driver, m[1]) /\ Wanted(options.device, m[2])
                   /\ platform[m[1] + 1][m[2] + 1] = "vpu"}

Before(a, b) == a[1] < b[1] \/ (a[1] = b[1] /\ a[2] < b[2])

(* select_npu takes the first NPU that the request allows and reports none *)
(* only when there is none; a call that fails only makes it skip devices.  *)
SelectsFirstNpu ==
  /\ wresult.driver # -1 =>
       /\ <<wresult.driver, wresult.device>> \in Matches
       /\ "call_failed" \notin seen =>
            \A m \in Matches : ~Before(m, <<wresult.driver, wresult.device>>)
  /\ first = "NPU_NOT_FOUND" /\ "call_failed" \notin seen => Matches = {}

(* What the caller gets: one owner for every allocation, a status that is  *)
(* true, and the device that was asked for.                                *)
ResultExact ==
  TypeOK /\ MemoryExact /\ ResultOwnsTheRest /\ StatusMeans /\ SelectsFirstNpu

(* Every call returns, whatever the worker and the driver do. *)
CallReturns == (pc # "idle") ~> (pc = "returned")
============================================================================
