---------------------------- MODULE ShaveCompile ----------------------------
(***************************************************************************)
(* shavecc_compile of src/shavecc: C source to a SHAVE executable in three *)
(* stages, each a request to a movi worker process of its own              *)
(* (src/workers/movi_worker.c) that loads one of the MoviTools libraries.  *)
(*                                                                         *)
(* Two processes take steps here: the caller's, which runs                 *)
(* shavecc_compile and waits in the supervisor, and the worker of the      *)
(* current stage.  The supervisor gives up on the worker at any moment.    *)
(* What it promises is taken over from its own module: status OK means     *)
(* that the worker exited with 0 and that the response is everything that  *)
(* it wrote.                                                               *)
(*                                                                         *)
(* A size is a number of units, and the content of a buffer is the list of *)
(* what went into it.                                                      *)
(***************************************************************************)
EXTENDS Buffers, Integers, Sequences

CONSTANTS
  MaxMessage,      \* NPUNLOCK_MOVI_MAX_MESSAGE_SIZE
  MaxResult,       \* NPUNLOCK_MOVI_MAX_RESULT_SIZE
  MaxDefinitions,  \* the 64 definitions that shavecc_compile accepts
  BaseArguments,   \* arguments of a stage without definitions
  MaxArguments,    \* the 128 arguments that the worker accepts
  DefinitionCounts, \* numbers of definitions that callers pass
  SourceSizes,     \* sizes of C sources
  ScriptSizes,     \* sizes of linker scripts
  OutputSizes,     \* sizes of what the tools return
  WorkerVersions   \* protocol versions of the worker executables

(* NPUNLOCK_MOVI_PROTOCOL_VERSION of the library. *)
Version == 1

(* Units of a header, with the path and the arguments in a request. *)
Header == 1

Stages == 1 .. 3

(* NPUNLOCK_MOVI_STAGE_COMPILE, _ASSEMBLE and _LINK *)
StageName == <<"compile", "assemble", "link">>

ASSUME ShaveAssumption ==
  /\ {MaxMessage, MaxResult, MaxDefinitions, MaxArguments} \subseteq Nat
  /\ BaseArguments \in Nat \ {0}
  /\ DefinitionCounts \subseteq 0 .. MaxDefinitions
  /\ SourceSizes \subseteq Nat \ {0}
  /\ ScriptSizes \cup OutputSizes \cup WorkerVersions \subseteq Nat
  /\ BaseArguments + MaxDefinitions <= MaxArguments

(* What the caller passes: the verdict of the checks on its arguments, the *)
(* source, whether it includes the bundled header, the linker script, the  *)
(* number of definitions, whether the path of the MoviTools is good, longer*)
(* than a worker accepts or not UTF-8, which worker executable runs and    *)
(* whether the supervisor can read its path.                               *)
Options ==
  [check : {"OK", "INVALID_ARGUMENT", "UNSUPPORTED"}, source : SourceSizes,
   include : BOOLEAN, script : ScriptSizes, definitions : DefinitionCounts,
   path : {"good", "long", "not_UTF-8"}, worker : WorkerVersions,
   workerPath : {"good", "not_UTF-8"}]

ResultSlots == {"elf", "log", "errlog", "diagnostic"} \X {0}
WorkSlots   == ({"expanded", "arguments", "request", "response", "out", "err"} \X {0})
                 \cup ({"path"} \X (1 .. 4))
                 \cup ({"definition"} \X (1 .. MaxDefinitions))
                 \cup ({"output", "message", "stdout", "stderr"} \X Stages)
Slots == ResultSlots \cup WorkSlots

(* npunlock_status, as far as this call returns it. *)
Statuses == {"OK", "INVALID_ARGUMENT", "UNSUPPORTED", "OUT_OF_MEMORY", "NOT_FOUND",
             "INTERNAL_ERROR", "DRIVER_FAILED", "TIMEOUT", "OVERFLOW", "IO_ERROR",
             "TOOL_FAILED", "MALFORMED_INPUT"}

(* The contents of buffers. *)
Words == {"header", "source", "compile", "assemble", "link", "script"}
Texts == Seq(Words)
Logs  == Seq(Stages)

(* movi_request and worker_result, as the two processes send them. *)
Pieces == [what : Texts, size : Nat]
Requests ==
  [version : {Version}, stage : Stages, inputs : Seq(Pieces),
   arguments : Nat, path : {"good", "long", "not_UTF-8"}]

WorkerStatuses == {"OK", "BAD_REQUEST", "OUT_OF_MEMORY", "LOAD_FAILED", "SYMBOL_MISSING", "BAD_RESULT"}

Responses ==
  [version : WorkerVersions, status : WorkerStatuses, ret : {-1, 0, 1}, what : Texts, size : Nat,
   diagnostic : {0, 1}]

(* A block keeps the number of the stage that it was allocated for. *)
Names  == {"expanded", "path", "arguments", "definition", "request", "response", "out", "err",
           "output", "message", "log", "errlog", "diagnostic"}
Blocks == [id : Names \X Nat,
           what : Statuses \cup {"path", "arguments", "definition", "message"}
                    \cup Texts \cup Logs \cup Requests \cup Responses,
           size : Nat]

ASSUME NullAssumption ==
  Null \notin Blocks

VARIABLES
  pc,       \* where shavecc_compile is
  options,
  stage,    \* the stage it works on
  item,     \* the path or definition it allocates next
  status,
  wpc,      \* where the worker is; "none" when there is no process
  request,  \* what the worker was sent
  wresult,  \* worker_result of the worker
  tool,     \* what the library returned and owns until freeResults
  sent,     \* units of the response that the worker wrote
  exit,     \* its exit code
  prints,   \* whether it wrote to its standard output and error
  seen,     \* history of the call: "oom", an allocation failed; "failed", a worker or
            \* its tool did not succeed; "empty", a tool succeeded without any output
  printed   \* history of the call: the stages whose output the supervisor captured

client == <<pc, options, stage, item, status, mem, heap>>
worker == <<wpc, request, wresult, tool, sent, exit, prints>>
vars   == <<client, worker, seen, printed>>

----------------------------------------------------------------------------
(* npunlock_set_diagnostic: without memory there is no diagnostic, and the *)
(* status that is returned is the lack of memory.                          *)
SetDiagnostic(st) ==
  \/ Allocate(<<"diagnostic", 0>>, st, 1) /\ status' = st /\ UNCHANGED seen
  \/ status' = "OUT_OF_MEMORY" /\ seen' = seen \cup {"oom"} /\ UNCHANGED <<mem, heap>>

----------------------------------------------------------------------------
(* shavecc_compile up to the first stage *)

NoResult == [status |-> "BAD_REQUEST", ret |-> -1, what |-> <<>>, size |-> 0, diagnostic |-> 0]
NoTool   == [live |-> FALSE, ret |-> -1, what |-> <<>>, size |-> 0, diagnostic |-> 0]

NoWorker == /\ wpc = "none" /\ request = Null /\ wresult = NoResult /\ tool = NoTool
            /\ sent = 0 /\ exit = Null /\ prints = FALSE

Init ==
  /\ pc = "idle" /\ options = Null /\ stage = 1 /\ item = 1 /\ status = "OK"
  /\ mem = [s \in Slots |-> Null] /\ heap = {}
  /\ NoWorker
  /\ seen = {} /\ printed = <<>>

Call ==
  \E o \in Options :
    /\ pc = "idle"
    /\ options' = o
    /\ stage' = 1 /\ item' = 1
    /\ IF o.check = "OK"
         THEN pc' = "expand" /\ status' = "OK" /\ UNCHANGED <<mem, heap, seen>>
         ELSE pc' = "returned" /\ SetDiagnostic(o.check)
    /\ UNCHANGED <<worker, printed>>

(* A failed allocation ends the call; its diagnostic may fail as well. *)
AllocationFails ==
  /\ pc \in {"expand", "arguments", "definitions"}
  /\ pc = "expand" => options.include
  /\ \/ Allocate(<<"diagnostic", 0>>, "OUT_OF_MEMORY", 1)
     \/ UNCHANGED <<mem, heap>>
  /\ status' = "OUT_OF_MEMORY" /\ seen' = seen \cup {"oom"}
  /\ pc' = "done"
  /\ UNCHANGED <<options, stage, item, worker, printed>>

Expand ==
  /\ pc = "expand"
  /\ IF options.include
       THEN Allocate(<<"expanded", 0>>, <<"header", "source">>, options.source + 1)
       ELSE UNCHANGED <<mem, heap>>
  /\ pc' = "paths"
  /\ UNCHANGED <<options, stage, item, status, worker, seen, printed>>

PathsLeft_past == item <= 4
PathsLeft      == item < 4

(* make_path for the three libraries and for the archive of the linker.    *)
(* The status of a failure is kept even when the diagnostic fails.         *)
MakePath ==
  /\ pc = "paths"
  /\ \/ /\ Allocate(<<"path", item>>, "path", 1)
        /\ IF PathsLeft THEN item' = item + 1 /\ pc' = "paths" ELSE item' = 1 /\ pc' = "arguments"
        /\ UNCHANGED <<status, seen>>
     \/ /\ \/ Allocate(<<"diagnostic", 0>>, "OUT_OF_MEMORY", 1)
           \/ UNCHANGED <<mem, heap>>
        /\ status' = "OUT_OF_MEMORY" /\ seen' = seen \cup {"oom"}
        /\ pc' = "done" /\ UNCHANGED item
  /\ UNCHANGED <<options, stage, worker, printed>>

AllocateArguments ==
  /\ pc = "arguments"
  /\ Allocate(<<"arguments", 0>>, "arguments", BaseArguments + options.definitions)
  /\ pc' = IF options.definitions = 0 THEN "build" ELSE "definitions"
  /\ UNCHANGED <<options, stage, item, status, worker, seen, printed>>

AllocateDefinition ==
  /\ pc = "definitions"
  /\ Allocate(<<"definition", item>>, "definition", 1)
  /\ IF item < options.definitions
       THEN item' = item + 1 /\ pc' = "definitions"
       ELSE item' = 1 /\ pc' = "build"
  /\ UNCHANGED <<options, stage, status, worker, seen, printed>>

----------------------------------------------------------------------------
(* npunlock_run_movi_stage: the request *)

Source == IF options.include THEN Content(<<"expanded", 0>>)
          ELSE [what |-> <<"source">>, size |-> options.source]

Inputs_skipsAssembler ==
  CASE stage = 1 -> <<Source>>
    [] stage = 2 -> <<Content(<<"output", 1>>)>>
    [] stage = 3 -> <<Content(<<"output", 1>>), [what |-> <<"script">>, size |-> options.script]>>

Inputs == CASE stage = 1 -> <<Source>>
            [] stage = 2 -> <<Content(<<"output", 1>>)>>
            [] stage = 3 -> <<Content(<<"output", 2>>),
                              [what |-> <<"script">>, size |-> options.script]>>

ArgumentCount_tailTwice == IF stage = 1 THEN mem[<<"arguments", 0>>].size + 1 ELSE BaseArguments

ArgumentCount == IF stage = 1 THEN mem[<<"arguments", 0>>].size ELSE BaseArguments

RequestSize(inputs) == Header + inputs[1].size + (IF Len(inputs) = 2 THEN inputs[2].size ELSE 0)

(* build_request refuses a message that is too long, and may lack memory. *)
BuildRequest ==
  /\ pc = "build"
  /\ \/ /\ RequestSize(Inputs) > MaxMessage
        /\ status' = "INVALID_ARGUMENT" /\ pc' = "ran"
        /\ UNCHANGED <<mem, heap, seen>>
     \/ /\ RequestSize(Inputs) <= MaxMessage
        /\ status' = "OUT_OF_MEMORY" /\ seen' = seen \cup {"oom"} /\ pc' = "ran"
        /\ UNCHANGED <<mem, heap>>
     \/ /\ RequestSize(Inputs) <= MaxMessage
        /\ Allocate(<<"request", 0>>, [version |-> Version, stage |-> stage, inputs |-> Inputs,
                                       arguments |-> ArgumentCount, path |-> options.path],
                    RequestSize(Inputs))
        /\ pc' = "start"
        /\ UNCHANGED <<status, seen>>
  /\ UNCHANGED <<options, stage, item, worker, printed>>

(* The supervisor starts a worker, or cannot: the conversion of a path     *)
(* fails for a bad path and for a lack of memory alike.                    *)
StartWorker ==
  /\ pc = "start"
  /\ \/ /\ options.workerPath = "good"
        /\ wpc' = "read" /\ request' = mem[<<"request", 0>>].what
        /\ pc' = "wait"
        /\ UNCHANGED <<status, seen>>
     \/ /\ \/ /\ options.workerPath = "good"
              /\ status' \in {"NOT_FOUND", "INTERNAL_ERROR"} /\ seen' = seen \cup {"failed"}
           \/ /\ options.workerPath # "good"
              /\ status' = "INVALID_ARGUMENT" /\ seen' = seen \cup {"failed"}
           \/ /\ options.workerPath = "good"
              /\ status' \in {"INVALID_ARGUMENT", "OUT_OF_MEMORY"}
              /\ seen' = seen \cup {"failed", "oom"}
        /\ pc' = "ran"
        /\ UNCHANGED <<wpc, request>>
  /\ UNCHANGED <<options, stage, item, mem, heap, wresult, tool, sent, exit, prints, printed>>

----------------------------------------------------------------------------
(* npunlock_movi_worker_main *)

Exit(code) == exit' = code /\ wpc' = "exited"

(* A result without output, with or without the memory for a diagnostic. *)
Answer(st, ret) ==
  /\ \E d \in (IF st = "OUT_OF_MEMORY" THEN {0} ELSE {0, 1}) :
       wresult' = [status |-> st, ret |-> ret, what |-> <<>>, size |-> 0, diagnostic |-> d]
  /\ wpc' = "header"

WorkerRead ==
  /\ wpc = "read"
  /\ \/ wpc' = "parse" /\ UNCHANGED <<wresult, exit, seen>>
     \/ Answer("BAD_REQUEST", -1) /\ seen' = seen \cup {"oom"} /\ UNCHANGED exit
     \/ Exit(2) /\ UNCHANGED <<wresult, seen>>
  /\ UNCHANGED <<client, request, tool, sent, prints, printed>>

WellFormed(r) ==
  /\ r.version = options.worker
  /\ r.stage \in Stages
  /\ r.arguments \in 1 .. MaxArguments
  /\ Len(r.inputs) = (IF r.stage = 3 THEN 2 ELSE 1)
  /\ r.path # "long"

WorkerParse ==
  /\ wpc = "parse"
  /\ \/ WellFormed(request) /\ wpc' = "load" /\ UNCHANGED <<wresult, seen>>
     \/ ~WellFormed(request) /\ Answer("BAD_REQUEST", -1) /\ UNCHANGED seen
     \/ WellFormed(request) /\ Answer("BAD_REQUEST", -1) /\ seen' = seen \cup {"oom"}
  /\ UNCHANGED <<client, request, tool, sent, exit, prints, printed>>

(* run_tool up to the call: the library and its entry points. *)
WorkerLoad ==
  /\ wpc = "load"
  /\ \/ request.path = "good" /\ wpc' = "call" /\ UNCHANGED <<wresult, seen>>
     \/ request.path # "good" /\ Answer("BAD_REQUEST", -1) /\ UNCHANGED seen
     \/ /\ request.path = "good"
        /\ \E st \in {"LOAD_FAILED", "SYMBOL_MISSING"} : Answer(st, -1)
        /\ UNCHANGED seen
     \/ /\ request.path = "good"
        /\ \E st \in {"BAD_REQUEST", "OUT_OF_MEMORY"} : Answer(st, -1)
        /\ seen' = seen \cup {"oom"}
  /\ UNCHANGED <<client, request, tool, sent, exit, prints, printed>>

(* The library works on the inputs, may print, and may crash the process.  *)
(* The linker has no diagnostic.                                           *)
ToolContent(r) == IF r.stage = 3
                    THEN r.inputs[1].what \o <<"link">> \o r.inputs[2].what
                    ELSE Append(r.inputs[1].what, StageName[r.stage])

WorkerCall ==
  /\ wpc = "call"
  /\ prints' \in BOOLEAN
  /\ \/ \E ret \in {0, 1}, n \in OutputSizes, d \in (IF request.stage = 3 THEN {0} ELSE {0, 1}) :
          /\ tool' = [live |-> TRUE, ret |-> ret, size |-> n, diagnostic |-> d,
                      what |-> IF n = 0 THEN <<>> ELSE ToolContent(request)]
          /\ seen' = IF ret = 0 /\ n = 0 THEN seen \cup {"empty"} ELSE seen
          /\ wpc' = "copy" /\ UNCHANGED exit
     \/ Exit(5) /\ UNCHANGED <<tool, seen>>
  /\ UNCHANGED <<client, request, wresult, sent, printed>>

(* copy_result of both results, then freeResults. *)
WorkerCopy ==
  /\ wpc = "copy"
  /\ \/ /\ tool.size <= MaxResult
        /\ wresult' = [status |-> "OK", ret |-> tool.ret, what |-> tool.what, size |-> tool.size,
                       diagnostic |-> tool.diagnostic]
        /\ wpc' = "header"
        /\ UNCHANGED seen
     \/ /\ tool.size > MaxResult
        /\ Answer("BAD_RESULT", tool.ret)
        /\ UNCHANGED seen
     \/ /\ tool.size + tool.diagnostic > 0
        /\ Answer("BAD_RESULT", tool.ret)
        /\ seen' = seen \cup {"oom"}
  /\ tool' = NoTool
  /\ UNCHANGED <<client, request, sent, exit, prints, printed>>

(* send_response: three writes, of which the last one ends the worker. *)
Piece == CASE wpc = "header" -> Header
           [] wpc = "output" -> wresult.size
           [] wpc = "diagnostic" -> wresult.diagnostic

WorkerSend ==
  /\ wpc \in {"header", "output", "diagnostic"}
  /\ \/ /\ sent' = sent + Piece
        /\ CASE wpc = "header" -> wpc' = "output" /\ UNCHANGED exit
             [] wpc = "output" -> wpc' = "diagnostic" /\ UNCHANGED exit
             [] wpc = "diagnostic" -> Exit(0)
     \/ /\ Piece > 0
        /\ Exit(3) /\ UNCHANGED sent
  /\ UNCHANGED <<client, request, wresult, tool, prints, seen, printed>>

Worker == WorkerRead \/ WorkerParse \/ WorkerLoad \/ WorkerCall \/ WorkerCopy \/ WorkerSend

----------------------------------------------------------------------------
(* The supervisor and what follows a stage *)

Response == [version |-> options.worker, status |-> wresult.status, ret |-> wresult.ret,
             what |-> wresult.what, size |-> wresult.size, diagnostic |-> wresult.diagnostic]

(* The statuses with which the supervisor gives up on a running worker. *)
GiveUp_never == {}
GiveUp       == {"TIMEOUT", "OVERFLOW", "IO_ERROR", "OUT_OF_MEMORY", "INTERNAL_ERROR"}

(* npunlock_worker_process_run returns when the worker has exited, or      *)
(* gives up and kills it: then it may have missed what was printed last.   *)
SupervisorReturns ==
  /\ pc = "wait"
  /\ \/ /\ wpc = "exited"
        /\ status' = IF exit = 0 THEN "OK" ELSE "DRIVER_FAILED"
     \/ status' \in GiveUp
  /\ \E captured \in (IF wpc = "exited" THEN {prints} ELSE {prints, FALSE}) :
       /\ Store([s \in (IF sent > 0 THEN {<<"response", 0>>} ELSE {})
                       \cup (IF captured THEN {"out", "err"} \X {0} ELSE {}) |->
                   IF s[1] = "response" THEN Block(s, Response, sent)
                   ELSE Block(<<s[1], stage>>, <<stage>>, 1)], {})
       /\ printed' = IF captured THEN Append(printed, stage) ELSE printed
  /\ seen' = IF status' # "OK" \/ wresult.status # "OK" \/ wresult.ret # 0
               THEN seen \cup {"failed"} ELSE seen
  /\ pc' = "ran"
  /\ wpc' = "none" /\ request' = Null /\ wresult' = NoResult /\ tool' = NoTool
  /\ sent' = 0 /\ exit' = Null /\ prints' = FALSE
  /\ UNCHANGED <<options, stage, item>>

(* parse_response *)
Malformed(response) ==
  \/ response.size < Header
  \/ response.what.version # Version
  \/ response.what.size > MaxResult
  \/ response.what.diagnostic > MaxResult
  \/ Header + response.what.size + response.what.diagnostic # response.size

Verdict_ignoresReturn(r) ==
  IF r.status = "LOAD_FAILED" THEN "NOT_FOUND" ELSE IF r.status # "OK" THEN "TOOL_FAILED" ELSE "OK"

Verdict(r) == IF r.status = "LOAD_FAILED" THEN "NOT_FOUND"
              ELSE IF r.status # "OK" \/ r.ret # 0 THEN "TOOL_FAILED" ELSE "OK"

(* The buffers that parse_response copies out of a response. *)
Copies(r) ==
  LET SizeOf(s) == IF s[1] = "output" THEN r.size ELSE r.diagnostic
  IN  [s \in {t \in {"output", "message"} \X {stage} : SizeOf(t) > 0} |->
         Block(s, IF s[1] = "output" THEN r.what ELSE "message", SizeOf(s))]

(* The rest of npunlock_run_movi_stage: the logs move to the result of the *)
(* stage, the response is read when the supervisor succeeded, the request  *)
(* and the response are released.  A copy that lacks memory leaves none.   *)
StageReturns ==
  LET response == mem[<<"response", 0>>]
      Leave(put) == Move([s \in {"stdout", "stderr"} \X {stage} |->
                            IF s[1] = "stdout" THEN <<"out", 0>> ELSE <<"err", 0>>],
                         put, {"request", "response"} \X {0})
  IN
  /\ pc = "ran"
  /\ \/ /\ status # "OK"
        /\ Leave(NoNew) /\ UNCHANGED <<status, seen>>
     \/ /\ status = "OK" /\ Malformed(response)
        /\ Leave(NoNew) /\ status' = "TOOL_FAILED" /\ UNCHANGED seen
     \/ /\ status = "OK" /\ ~Malformed(response)
        /\ Leave(Copies(response.what)) /\ status' = Verdict(response.what) /\ UNCHANGED seen
     \/ /\ status = "OK" /\ ~Malformed(response)
        /\ response.what.size + response.what.diagnostic > 0
        /\ Leave(NoNew) /\ status' = "OUT_OF_MEMORY" /\ seen' = seen \cup {"oom"}
  /\ pc' = "stdout"
  /\ UNCHANGED <<options, stage, item, worker, printed>>

(* append_log: a new block with the old and the added text replaces the    *)
(* old one.                                                                *)
LogOf == IF pc = "stdout" THEN "log" ELSE "errlog"

Combined_replaced == mem[<<pc, stage>>].what

Combined == Content(<<LogOf, 0>>).what \o mem[<<pc, stage>>].what

(* collect_worker_logs appends both logs before the status of the stage    *)
(* is looked at.                                                           *)
CollectLog ==
  /\ pc \in {"stdout", "stderr"}
  /\ \/ /\ IF mem[<<pc, stage>>] = Null
             THEN UNCHANGED <<mem, heap>>
             ELSE Store([s \in {<<LogOf, 0>>} |-> Block(<<LogOf, stage>>, Combined, Len(Combined))],
                        {<<LogOf, 0>>})
        /\ pc' = IF pc = "stdout" THEN "stderr" ELSE "check"
        /\ UNCHANGED <<status, seen>>
     \/ /\ mem[<<pc, stage>>] # Null
        /\ \/ Allocate(<<"diagnostic", 0>>, "OUT_OF_MEMORY", 1)
           \/ UNCHANGED <<mem, heap>>
        /\ status' = "OUT_OF_MEMORY" /\ seen' = seen \cup {"oom"}
        /\ pc' = "done"
  /\ UNCHANGED <<options, stage, item, worker, printed>>

(* The status of the stage: stage_failure, the next stage, or the ELF. *)
CheckStage ==
  /\ pc = "check"
  /\ \/ /\ status # "OK"
        /\ SetDiagnostic(status)
        /\ pc' = "done" /\ UNCHANGED stage
     \/ /\ status = "OK"
        /\ IF stage < 3 THEN stage' = stage + 1 /\ pc' = "build" ELSE pc' = "elf" /\ UNCHANGED stage
        /\ UNCHANGED <<status, mem, heap, seen>>
  /\ UNCHANGED <<options, item, worker, printed>>

HandOver_kept == [mem EXCEPT ![<<"elf", 0>>] = mem[<<"output", 3>>]]

(* The linked output is handed to the caller. *)
HandOver == [mem EXCEPT ![<<"elf", 0>>] = mem[<<"output", 3>>], ![<<"output", 3>>] = Null]

(* npunlock_parse_shave_elf accepts what the linker returned or does not;  *)
(* it never accepts an empty output.                                       *)
ParseElf ==
  /\ pc = "elf"
  /\ \/ /\ mem[<<"output", 3>>] # Null
        /\ mem' = HandOver
        /\ UNCHANGED <<status, heap, seen>>
     \/ \E st \in {"MALFORMED_INPUT", "UNSUPPORTED"} : SetDiagnostic(st)
  /\ pc' = "done"
  /\ UNCHANGED <<options, stage, item, worker, printed>>

Released_withoutDefinitions == WorkSlots \ ({"definition"} \X (1 .. MaxDefinitions))
Released == WorkSlots

(* The label done. *)
Done ==
  /\ pc = "done"
  /\ Store(NoNew, Released)
  /\ pc' = "returned"
  /\ UNCHANGED <<options, stage, item, status, worker, seen, printed>>

(* The caller's shavecc_result_release. *)
Release ==
  /\ pc = "returned"
  /\ Store(NoNew, ResultSlots)
  /\ pc' = "idle" /\ options' = Null /\ stage' = 1 /\ item' = 1 /\ status' = "OK"
  /\ seen' = {} /\ printed' = <<>>
  /\ UNCHANGED worker

Client == \/ AllocationFails \/ Expand \/ MakePath \/ AllocateArguments \/ AllocateDefinition
          \/ BuildRequest \/ StartWorker \/ SupervisorReturns \/ StageReturns \/ CollectLog
          \/ CheckStage \/ ParseElf \/ Done

Next == Call \/ Client \/ Worker \/ Release

(* The code of the library does not stop, and the supervisor has a         *)
(* deadline; nothing is assumed of the worker.                             *)
Spec == Init /\ [][Next]_vars /\ WF_vars(Client)

----------------------------------------------------------------------------
(* Properties *)

TypeOK ==
  /\ pc \in {"idle", "expand", "paths", "arguments", "definitions", "build", "start", "wait",
             "ran", "stdout", "stderr", "check", "elf", "done", "returned"}
  /\ options \in Options \cup {Null}
  /\ stage \in Stages
  /\ item \in 1 .. 4 \/ item \in 1 .. MaxDefinitions
  /\ status \in Statuses
  /\ DOMAIN mem = Slots
  /\ wpc \in {"none", "read", "parse", "load", "call", "copy", "header", "output", "diagnostic",
              "exited"}
  /\ sent \in 0 .. Header + MaxResult + 1
  /\ exit \in {Null, 0, 2, 3, 5}

(* When shavecc_compile has returned, only the result owns memory, and an  *)
(* executable is there exactly when the call succeeded.                    *)
ResultOwnsTheRest ==
  pc = "returned" => /\ Live \subseteq ResultSlots
                     /\ mem[<<"elf", 0>>] # Null <=> status = "OK"

(* Every allocation of a call has one owner at every moment, and none but  *)
(* the result when the call has returned.                                  *)
NothingLeaked == TypeOK /\ MemoryExact /\ ResultOwnsTheRest

(* A successful call returns the source of this call compiled, assembled   *)
(* and linked with the script of this call, provided that the tools did    *)
(* not succeed with nothing, which no check of the code refuses.           *)
OkIsThisSource ==
  pc = "returned" /\ status = "OK" /\ "empty" \notin seen =>
    mem[<<"elf", 0>>].what =
      (IF options.include THEN <<"header", "source">> ELSE <<"source">>)
        \o <<"compile", "assemble", "link", "script">>

(* What the stages printed is returned in their order, also what the       *)
(* stage printed that failed, unless memory ran out.                       *)
LogsOfEveryStage ==
  pc = "returned" /\ "oom" \notin seen =>
    /\ Content(<<"log", 0>>).what = printed
    /\ Content(<<"errlog", 0>>).what = printed

(* No failure of a worker or of its tool is lost on the way through the    *)
(* exit code, the response, the stage and the call.  The diagnostic names  *)
(* the status that is returned, and is missing only after a success or for *)
(* lack of memory.                                                         *)
FailureReported ==
  pc = "returned" =>
    /\ "failed" \in seen => status # "OK"
    /\ IF mem[<<"diagnostic", 0>>] = Null THEN status = "OK" \/ "oom" \in seen
       ELSE status # "OK" /\ mem[<<"diagnostic", 0>>].what = status

(* What the stages printed and how they ended both reach the caller.       *)
ReportsTheStage == LogsOfEveryStage /\ FailureReported

(* A worker of the same version refuses no request of this client, apart   *)
(* from the paths that only the worker checks and the lack of memory.      *)
RequestAccepted ==
  wpc \in {"header", "output", "diagnostic"} /\ wresult.status = "BAD_REQUEST" =>
    \/ "oom" \in seen
    \/ options.worker # Version
    \/ options.path # "good"

(* The requests of the client and the checks of the worker fit together:   *)
(* a good request is carried out, and its result is that of this source.   *)
RequestCarriedOut == OkIsThisSource /\ RequestAccepted

(* Every call returns, whatever the worker does. *)
CallReturns == (pc # "idle") ~> (pc = "returned")
============================================================================
