------------------------- MODULE ShaveCompileProofs -------------------------
(***************************************************************************)
(* shavecc_compile keeps one owner for every allocation, returns the       *)
(* executable of its own source, asks for nothing that its worker refuses, *)
(* and reports what the stages printed and how they ended: for any sizes,  *)
(* limits and numbers of definitions, wherever an allocation, a worker or  *)
(* a tool fails.                                                           *)
(***************************************************************************)
EXTENDS ShaveCompile, BuffersProofs, SequenceTheorems, TLAPS

----------------------------------------------------------------------------
(* The inductive invariant: types *)

Places  == {"idle", "expand", "paths", "arguments", "definitions", "build", "start", "wait",
            "ran", "stdout", "stderr", "check", "elf", "done", "returned"}
Prepare == {"expand", "paths", "arguments", "definitions"}
Ended   == {"done", "returned"}

ClientType ==
  /\ pc \in Places /\ status \in Statuses /\ stage \in Stages
  /\ IF pc = "idle" THEN options = Null ELSE options \in Options
  /\ item \in Nat \ {0}
  /\ pc = "paths" => item <= 4
  /\ pc = "definitions" => item <= options.definitions
  /\ pc \notin {"paths", "definitions", "done", "returned"} => item = 1
  /\ item <= 4 \/ item <= MaxDefinitions
  /\ pc \in Prepare \cup {"idle"} => stage = 1
  /\ pc = "elf" => stage = 3
  /\ pc \in Prepare \cup {"idle", "build", "start", "wait", "elf"} => status = "OK"

(* The result of a worker and of its tool. *)
Results == [status : WorkerStatuses, ret : {-1, 0, 1}, what : Texts, size : Nat,
            diagnostic : {0, 1}]

WorkerPlaces == {"none", "read", "parse", "load", "call", "copy", "header", "output", "diagnostic",
                 "exited"}
Sending == {"header", "output", "diagnostic"}
Whole   == Header + wresult.size + wresult.diagnostic

WorkerType ==
  /\ wpc \in WorkerPlaces
  /\ pc # "wait" => wpc = "none"
  /\ wresult \in Results /\ wresult.size <= MaxResult
  /\ prints \in BOOLEAN
  /\ exit \in {Null, 0, 2, 3, 5}
  /\ wpc \notin {"output", "diagnostic", "exited"} => sent = 0
  /\ wpc = "output" => sent = Header
  /\ wpc = "diagnostic" => sent = Header + wresult.size
  /\ wpc = "exited" => sent \in 0 .. Whole /\ (exit = 0 => sent = Whole)

----------------------------------------------------------------------------
(* The inductive invariant: memory *)

(* The name under which the block of a variable was allocated. *)
NameAt(s) == CASE s[1] = "stdout" -> "out"
               [] s[1] = "stderr" -> "err"
               [] s[1] = "elf" -> "output"
               [] OTHER -> s[1]

(* Its number: that of the stage for what a stage left, none elsewhere. *)
NumberAt(s) == CASE s[1] \in {"out", "err"} -> stage
                 [] s[1] = "elf" -> 3
                 [] OTHER -> s[2]

Origin(s) == <<NameAt(s), NumberAt(s)>>

OwnName(s) == IF s[1] \in {"log", "errlog"} THEN mem[s].id \in {s[1]} \X Stages
              ELSE mem[s].id = Origin(s)

StageSlots == {"output", "message", "stdout", "stderr"}

(* When a variable may point to a block. *)
MayLive(s) ==
  /\ pc \notin {"idle", "expand"}
  /\ s[1] = "path" /\ pc = "paths" => s[2] < item
  /\ s[1] \in {"arguments", "definition"} => pc \notin {"paths", "arguments"}
  /\ s[1] = "definition" /\ pc = "definitions" => s[2] < item
  /\ s[1] \in StageSlots \cup {"log", "errlog"} => pc \notin Prepare
  /\ s[1] = "request" => pc \in {"start", "wait", "ran"}
  /\ s[1] \in {"response", "out", "err"} => pc = "ran"
  /\ s[1] \in StageSlots => s[2] < stage \/ (s[2] = stage /\ pc \notin {"build", "start", "wait", "ran"})
  /\ s[1] = "diagnostic" => pc \in Ended /\ status # "OK"
  /\ s[1] = "elf" => pc \in Ended /\ status = "OK"
  /\ pc = "returned" => s \in ResultSlots

MemInv == /\ DOMAIN mem = Slots
          /\ MemoryExact
          /\ \A s \in Live : OwnName(s) /\ MayLive(s)

----------------------------------------------------------------------------
(* The inductive invariant: contents *)

(* What the tools make of the source, stage by stage. *)
TheSource == IF options.include THEN <<"header", "source">> ELSE <<"source">>
Made(k) == CASE k = 0 -> TheSource
             [] k = 1 -> Append(TheSource, "compile")
             [] k = 2 -> Append(Append(TheSource, "compile"), "assemble")
             [] k = 3 -> Append(Append(TheSource, "compile"), "assemble") \o <<"link">> \o <<"script">>

Holds(s, k) == mem[s] # Null /\ mem[s].what = Made(k) /\ mem[s].size \in Nat

Whatever == "empty" \in seen

RequestGood(r) ==
  /\ r \in Requests /\ r.stage = stage /\ r.path = options.path
  /\ r.arguments \in 1 .. MaxArguments
  /\ Len(r.inputs) = (IF stage = 3 THEN 2 ELSE 1)
  /\ Whatever \/ r.inputs[1].what = Made(stage - 1)
  /\ stage = 3 => r.inputs[2].what = <<"script">>

(* A success with output is the work of this stage. *)
Genuine(r) == r.status = "OK" /\ r.ret = 0 => Whatever \/ (r.size > 0 /\ r.what = Made(stage))

(* A refusal has an excuse. *)
Excused(r) == r.status = "BAD_REQUEST" =>
                "oom" \in seen \/ options.worker # Version \/ options.path # "good"

WorkerInv ==
  /\ wpc \notin {"none", "exited"} => RequestGood(request)
  /\ wpc \in {"call", "copy"} => options.path = "good"
  /\ wpc = "copy" =>
       /\ tool.ret \in {0, 1} /\ tool.what \in Texts /\ tool.size \in Nat /\ tool.diagnostic \in {0, 1}
       /\ tool.ret = 0 => Whatever \/ (tool.size > 0 /\ tool.what = Made(stage))
  /\ wpc \in Sending => Genuine(wresult) /\ Excused(wresult)
  /\ wpc = "exited" /\ exit = 0 => Genuine(wresult)

RequestInv == pc = "start" => mem[<<"request", 0>>] # Null /\ RequestGood(mem[<<"request", 0>>].what)

PreparedInv ==
  /\ pc \notin {"idle", "expand"} \cup Ended /\ options.include =>
       mem[<<"expanded", 0>>] # Null /\ mem[<<"expanded", 0>>].what = <<"header", "source">>
         /\ mem[<<"expanded", 0>>].size \in Nat
  /\ pc \notin Prepare \cup {"idle"} \cup Ended \/ pc = "definitions" =>
       mem[<<"arguments", 0>>] # Null
         /\ mem[<<"arguments", 0>>].size = BaseArguments + options.definitions

(* The response of a worker that ended well. *)
ResponseInv ==
  pc = "ran" /\ status = "OK" =>
    /\ mem[<<"response", 0>>] # Null /\ mem[<<"response", 0>>].what \in Responses
    /\ Genuine(mem[<<"response", 0>>].what)
    /\ "failed" \in seen =>
         mem[<<"response", 0>>].what.status # "OK" \/ mem[<<"response", 0>>].what.ret # 0

OutputInv ==
  /\ \A k \in {1, 2} : stage = k + 1 /\ pc \in {"build", "start", "wait", "ran"} =>
       Whatever \/ Holds(<<"output", k>>, k)
  /\ pc \in {"stdout", "stderr", "check", "elf"} /\ status = "OK" =>
       Whatever \/ Holds(<<"output", stage>>, stage)
  /\ \A k \in {1, 2} : \* content of an output, whatever the tool did
       mem[<<"output", k>>] # Null => mem[<<"output", k>>].what \in Texts /\ mem[<<"output", k>>].size \in Nat
  /\ pc \in Ended /\ status = "OK" => mem[<<"elf", 0>>] # Null /\ (Whatever \/ mem[<<"elf", 0>>].what = Made(3))

(* What was printed is in the logs, or in a buffer that is appended next. *)
Printed(s) == mem[s] # Null => mem[s].what = <<stage>>

LogInv ==
  /\ printed \in Logs
  /\ \A s \in {"log", "errlog"} : Content(<<s, 0>>).what \in Logs
  /\ pc = "ran" => Printed(<<"out", 0>>) /\ Printed(<<"err", 0>>)
  /\ pc = "stdout" => Printed(<<"stdout", stage>>) /\ Printed(<<"stderr", stage>>)
  /\ pc = "stderr" => Printed(<<"stderr", stage>>)
  /\ "oom" \notin seen =>
       /\ pc \notin {"ran", "stdout"} => Content(<<"log", 0>>).what = printed
       /\ pc \notin {"ran", "stdout", "stderr"} => Content(<<"errlog", 0>>).what = printed
       /\ pc = "ran" => /\ Content(<<"log", 0>>).what \o Content(<<"out", 0>>).what = printed
                        /\ Content(<<"errlog", 0>>).what \o Content(<<"err", 0>>).what = printed
       /\ pc = "stdout" => Content(<<"log", 0>>).what \o Content(<<"stdout", stage>>).what = printed
       /\ pc \in {"stdout", "stderr"} =>
            Content(<<"errlog", 0>>).what \o Content(<<"stderr", stage>>).what = printed

(* No failure before the worker; afterwards the status tells of it. *)
FailureInv ==
  /\ pc = "idle" => seen = {} /\ printed = <<>>
  /\ pc \in Prepare \cup {"build", "start", "wait"} => "failed" \notin seen
  /\ pc # "ran" /\ status = "OK" => "failed" \notin seen
  /\ pc \in Ended =>
       IF mem[<<"diagnostic", 0>>] = Null THEN status = "OK" \/ "oom" \in seen
       ELSE status # "OK" /\ mem[<<"diagnostic", 0>>].what = status

IInv == /\ ClientType /\ WorkerType /\ MemInv
        /\ WorkerInv /\ RequestInv /\ PreparedInv /\ ResponseInv /\ OutputInv
        /\ LogInv /\ FailureInv

----------------------------------------------------------------------------
(* Variables and blocks *)

LEMMA OptionsFacts ==
  ASSUME options \in Options
  PROVE  /\ options.source \in Nat \ {0} /\ options.script \in Nat
         /\ options.definitions \in 0 .. MaxDefinitions /\ options.worker \in Nat
         /\ options.check \in {"OK", "INVALID_ARGUMENT", "UNSUPPORTED"}
         /\ options.include \in BOOLEAN /\ options.path \in {"good", "long", "not_UTF-8"}
<1>1. /\ SourceSizes \subseteq Nat \ {0} /\ DefinitionCounts \subseteq 0 .. MaxDefinitions
      /\ ScriptSizes \cup OutputSizes \cup WorkerVersions \subseteq Nat
  BY ShaveAssumption
<1>2. /\ options.source \in SourceSizes /\ options.script \in ScriptSizes
      /\ options.definitions \in DefinitionCounts /\ options.worker \in WorkerVersions
      /\ options.check \in {"OK", "INVALID_ARGUMENT", "UNSUPPORTED"}
      /\ options.include \in BOOLEAN /\ options.path \in {"good", "long", "not_UTF-8"}
  BY DEF Options
<1> QED BY <1>1, <1>2

LEMMA SlotFacts ==
  ASSUME NEW s \in Slots
  PROVE  /\ s = <<s[1], s[2]>> /\ s[2] \in Nat
         /\ s[1] \in {"elf", "log", "errlog", "diagnostic", "expanded", "arguments", "request",
                      "response", "out", "err", "path", "definition"} \cup StageSlots
         /\ s[1] \in {"elf", "log", "errlog", "diagnostic", "expanded", "arguments", "request",
                      "response", "out", "err"} => s[2] = 0
         /\ s[1] \in StageSlots => s[2] \in Stages
         /\ s \in ResultSlots <=> s[1] \in {"elf", "log", "errlog", "diagnostic"}
         /\ s \in WorkSlots <=> s[1] \notin {"elf", "log", "errlog", "diagnostic"}
<1>1. MaxDefinitions \in Nat
  BY ShaveAssumption
<1>2. CASE s \in ResultSlots
  BY <1>2 DEF ResultSlots, WorkSlots, StageSlots
<1>3. CASE s \in WorkSlots
  BY <1>1, <1>3 DEF ResultSlots, WorkSlots, StageSlots, Stages
<1> QED BY <1>2, <1>3 DEF Slots

LEMMA SlotNames ==
  /\ \A n \in {"elf", "log", "errlog", "diagnostic", "expanded", "arguments", "request",
               "response", "out", "err"} : <<n, 0>> \in Slots
  /\ \A n \in StageSlots : \A k \in Stages : <<n, k>> \in Slots
  /\ \A k \in 1 .. 4 : <<"path", k>> \in Slots
  /\ \A k \in 1 .. MaxDefinitions : <<"definition", k>> \in Slots
BY DEF Slots, ResultSlots, WorkSlots, StageSlots, Stages

(* The contents of blocks. *)
Whats == Statuses \cup {"path", "arguments", "definition", "message"}
           \cup Texts \cup Logs \cup Requests \cup Responses

LEMMA BlockFacts ==
  ASSUME NEW n \in Names, NEW k \in Nat, NEW what \in Whats, NEW size \in Nat
  PROVE  /\ Block(<<n, k>>, what, size) # Null /\ Block(<<n, k>>, what, size).id = <<n, k>>
         /\ Block(<<n, k>>, what, size).what = what /\ Block(<<n, k>>, what, size).size = size
<1>1. Block(<<n, k>>, what, size) \in Blocks
  BY DEF Block, Blocks, Whats
<1> QED BY <1>1, NullAssumption DEF Block

(* The memory between the steps. *)
Owned == /\ DOMAIN mem = Slots /\ MemoryExact
         /\ \A s \in Live : OwnName(s)

Plain == {"expanded", "path", "arguments", "definition", "request", "diagnostic"}

(* A variable that keeps what it allocates gets its first block. *)
LEMMA AllocateOwned ==
  ASSUME Owned, stage' = stage, NEW slot \in Slots, slot[1] \in Plain, slot \notin Live,
         NEW what \in Whats, NEW size \in Nat, Allocate(slot, what, size)
  PROVE  /\ Owned' /\ Live' = Live \cup {slot}
         /\ \A s \in Slots \ {slot} : mem'[s] = mem[s]
         /\ mem'[slot] # Null /\ mem'[slot].what = what /\ mem'[slot].size = size
<1>1. slot = <<slot[1], slot[2]>> /\ slot[2] \in Nat /\ slot[1] \in Names
  BY SlotFacts DEF Plain, Names
<1>2. /\ Block(slot, what, size) # Null /\ Block(slot, what, size).id = slot
      /\ Block(slot, what, size).what = what /\ Block(slot, what, size).size = size
  BY <1>1, BlockFacts
<1>3. \A t \in Live : t \in Slots /\ OwnName(t)
  BY DEF Owned, Live
<1>4. \A t \in Live : mem[t].id # slot
  <2> SUFFICES ASSUME NEW t \in Live, mem[t].id = slot PROVE FALSE
    OBVIOUS
  <2>1. t \in Slots /\ OwnName(t) /\ t = <<t[1], t[2]>>
    BY <1>3, SlotFacts
  <2>2. CASE t[1] \in {"log", "errlog"}
    <3>1. slot \in {t[1]} \X Stages
      BY <2>1, <2>2 DEF OwnName
    <3>2. slot[1] = t[1]
      BY <3>1
    <3> QED BY <2>2, <3>2 DEF Plain
  <2>3. CASE t[1] \notin {"log", "errlog"}
    <3>1. slot = <<NameAt(t), NumberAt(t)>>
      BY <2>1, <2>3 DEF OwnName, Origin
    <3>2. slot[1] = NameAt(t) /\ slot[2] = NumberAt(t)
      BY <3>1
    <3>3. t[1] \in Plain
      BY <3>2 DEF NameAt, Plain
    <3>4. NameAt(t) = t[1] /\ NumberAt(t) = t[2]
      BY <3>3 DEF NameAt, NumberAt, Plain
    <3> QED BY <1>1, <2>1, <3>2, <3>4
  <2> QED BY <2>2, <2>3
<1>5. slot \in DOMAIN mem /\ MemoryExact /\ mem[slot] = Null
  BY DEF Owned, Live
<1>6. /\ DOMAIN mem' = DOMAIN mem
      /\ mem'[slot] = Block(slot, what, size)
      /\ \A s \in DOMAIN mem \ {slot} : mem'[s] = mem[s]
      /\ Live' = Live \cup {slot}
      /\ MemoryExact'
  BY <1>2, <1>4, <1>5, AllocateExact
<1>7. \A s \in Live : s # slot /\ mem'[s] = mem[s]
  BY <1>3, <1>5, <1>6 DEF Owned
<1>8. \A s \in Live : OwnName(s)'
  BY <1>3, <1>7 DEF OwnName, Origin, NumberAt
<1>9. OwnName(slot)'
  BY <1>1, <1>2, <1>6 DEF OwnName, Origin, NameAt, NumberAt, Plain
<1> QED BY <1>2, <1>6, <1>8, <1>9 DEF Owned

LEMMA SameOwned ==
  ASSUME Owned, stage' = stage, UNCHANGED <<mem, heap>>
  PROVE  Owned' /\ Live' = Live
<1>1. Live' = Live /\ MemoryExact'
  BY DEF Owned, Live, MemoryExact, Ids
<1>2. \A s \in Live : OwnName(s)'
  BY DEF Owned, OwnName, Origin, NumberAt
<1> QED BY <1>1, <1>2 DEF Owned

Diagnostic == <<"diagnostic", 0>>

(* Every failure ends with a diagnostic or without the memory for it. *)
Fails(st) ==
  \/ /\ Allocate(Diagnostic, st, 1) /\ status' = st
     /\ seen' \in {seen, seen \cup {"oom"}}
  \/ status' = "OUT_OF_MEMORY" /\ seen' = seen \cup {"oom"} /\ UNCHANGED <<mem, heap>>

LEMMA FailsOwned ==
  ASSUME Owned, stage' = stage, Diagnostic \notin Live, NEW st \in Statuses \ {"OK"}, Fails(st)
  PROVE  /\ Owned' /\ Live' \subseteq Live \cup {Diagnostic}
         /\ \A s \in Slots \ {Diagnostic} : mem'[s] = mem[s]
         /\ status' \in Statuses \ {"OK"}
         /\ IF mem'[Diagnostic] = Null THEN "oom" \in seen' ELSE mem'[Diagnostic].what = status'
         /\ seen' \in {seen, seen \cup {"oom"}}
<1>1. Diagnostic \in Slots /\ Diagnostic[1] \in Plain /\ st \in Whats /\ 1 \in Nat
  BY SlotNames DEF Diagnostic, Plain, Whats
<1>2. CASE Allocate(Diagnostic, st, 1) /\ status' = st /\ seen' \in {seen, seen \cup {"oom"}}
  <2>1. /\ Owned' /\ Live' = Live \cup {Diagnostic}
        /\ \A s \in Slots \ {Diagnostic} : mem'[s] = mem[s]
        /\ mem'[Diagnostic] # Null /\ mem'[Diagnostic].what = st
    BY <1>1, <1>2, AllocateOwned
  <2> QED BY <1>2, <2>1
<1>3. CASE status' = "OUT_OF_MEMORY" /\ seen' = seen \cup {"oom"} /\ UNCHANGED <<mem, heap>>
  <2>1. Owned' /\ Live' = Live
    BY <1>3, SameOwned
  <2>2. mem'[Diagnostic] = Null
    BY <1>1, <1>3 DEF Live, Owned
  <2> QED BY <1>3, <2>1, <2>2 DEF Statuses
<1> QED BY <1>2, <1>3 DEF Fails

(* A step of the client, while there is no worker. *)
LEMMA NoWorkerYet ==
  ASSUME WorkerType, pc # "wait", pc' # "wait", UNCHANGED worker
  PROVE  WorkerType' /\ WorkerInv' /\ wpc' = "none"
<1>1. wpc = "none" /\ wpc' = "none"
  BY DEF WorkerType, worker
<1>2. WorkerType'
  BY DEF WorkerType, worker, Whole
<1> QED BY <1>1, <1>2 DEF WorkerInv, Sending

(* A call that fails between two stages or before them is over. *)
LEMMA EndsBadly ==
  ASSUME IInv, pc \in Prepare \cup {"stdout", "stderr", "check", "elf"}, pc' = "done",
         UNCHANGED <<options, stage, item, worker, printed>>,
         NEW st \in Statuses \ {"OK"}, Fails(st), "oom" \in seen' \/ pc \in {"check", "elf"}
  PROVE  IInv'
<1>1. /\ ClientType /\ WorkerType /\ MemInv /\ LogInv /\ FailureInv /\ OutputInv /\ Owned
      /\ Diagnostic \notin Live
  BY DEF IInv, MemInv, Owned, MayLive, Diagnostic, Ended, Prepare
<1>2. /\ Owned' /\ Live' \subseteq Live \cup {Diagnostic}
      /\ \A s \in Slots \ {Diagnostic} : mem'[s] = mem[s]
      /\ status' \in Statuses \ {"OK"}
      /\ IF mem'[Diagnostic] = Null THEN "oom" \in seen' ELSE mem'[Diagnostic].what = status'
      /\ seen' \in {seen, seen \cup {"oom"}}
  BY <1>1, FailsOwned
<1>3. WorkerType' /\ WorkerInv'
  BY <1>1, NoWorkerYet DEF Prepare
<1>4. ClientType'
  BY <1>1, <1>2 DEF ClientType, Places, Prepare
<1>5. \A s \in Live : MayLive(s) /\ s \in Slots
  BY <1>1 DEF MemInv, Live
<1>6. \A s \in Live : MayLive(s)'
  <2> SUFFICES ASSUME NEW s \in Live PROVE MayLive(s)'
    OBVIOUS
  <2>1. s[1] \notin {"request", "response", "out", "err", "diagnostic", "elf"}
    BY <1>5 DEF MayLive, Prepare, Ended
  <2>2. s[1] \in StageSlots => s[2] < stage \/ s[2] = stage
    BY <1>5 DEF MayLive
  <2> QED BY <2>1, <2>2 DEF MayLive, Prepare, Ended
<1>7. MayLive(Diagnostic)'
  BY <1>2 DEF MayLive, Diagnostic, StageSlots, Ended
<1>8. MemInv'
  BY <1>2, <1>6, <1>7 DEF MemInv, Owned
<1>9. \A n \in {"log", "errlog"} : Content(<<n, 0>>)' = Content(<<n, 0>>)
  BY <1>2, SlotNames DEF Content, Diagnostic
<1>10. \A k \in {1, 2} : mem'[<<"output", k>>] = mem[<<"output", k>>]
  BY <1>2, SlotNames DEF Diagnostic, StageSlots, Stages
<1>11. LogInv'
  BY <1>1, <1>2, <1>9 DEF LogInv
<1>12. FailureInv'
  BY <1>1, <1>2 DEF FailureInv, Ended, Prepare, Diagnostic
<1>13. OutputInv'
  BY <1>1, <1>2, <1>10 DEF OutputInv, Ended
<1>14. RequestInv' /\ PreparedInv' /\ ResponseInv'
  BY DEF RequestInv, PreparedInv, ResponseInv, Ended, Prepare
<1> QED BY <1>3, <1>4, <1>8, <1>11, <1>12, <1>13, <1>14 DEF IInv

----------------------------------------------------------------------------
(* The steps up to the first stage *)

LEMMA InitIInv == Init => IInv
<1> SUFFICES ASSUME Init PROVE IInv
  OBVIOUS
<1>1. /\ pc = "idle" /\ options = Null /\ stage = 1 /\ item = 1 /\ status = "OK"
      /\ mem = [s \in Slots |-> Null] /\ heap = {} /\ seen = {} /\ printed = <<>>
      /\ wpc = "none" /\ wresult = NoResult /\ sent = 0 /\ exit = Null /\ prints = FALSE
  BY DEF Init, NoWorker
<1>2. Live = {} /\ DOMAIN mem = Slots
  BY <1>1 DEF Live
<1>3. MemInv
  BY <1>1, <1>2 DEF MemInv, MemoryExact, Ids
<1>4. <<>> \in Texts /\ <<>> \in Logs
  BY EmptySeq DEF Texts, Logs
<1>5. MaxResult \in Nat
  BY ShaveAssumption
<1>6. WorkerType
  <2>1. NoResult \in Results /\ NoResult.size = 0
    BY <1>4 DEF Results, NoResult, WorkerStatuses
  <2>2. 0 <= MaxResult
    BY <1>5
  <2>3. wpc = "none" /\ wresult \in Results /\ wresult.size <= MaxResult /\ sent = 0
        /\ exit = Null /\ prints \in BOOLEAN
    BY <1>1, <2>1, <2>2
  <2> QED BY <2>3 DEF WorkerType, WorkerPlaces
<1>7. \A s \in Slots : mem[s] = Null
  BY <1>1
<1>8. LogInv
  BY <1>1, <1>4, <1>7, SlotNames DEF LogInv, Content
<1>9. ClientType /\ FailureInv
  BY <1>1 DEF ClientType, Places, Statuses, Stages, Prepare, FailureInv, Ended
<1>10. OutputInv
  BY <1>1, <1>7, SlotNames DEF OutputInv, Ended, StageSlots, Stages
<1> QED BY <1>1, <1>3, <1>6, <1>8, <1>9, <1>10
        DEF IInv, WorkerInv, Sending, RequestInv, PreparedInv, ResponseInv

LEMMA CallIInv == IInv /\ Call => IInv'
<1> SUFFICES ASSUME IInv, Call PROVE IInv'
  OBVIOUS
<1>1. PICK o \in Options :
        /\ pc = "idle" /\ options' = o /\ stage' = 1 /\ item' = 1
        /\ IF o.check = "OK"
             THEN pc' = "expand" /\ status' = "OK" /\ UNCHANGED <<mem, heap, seen>>
             ELSE pc' = "returned" /\ SetDiagnostic(o.check)
        /\ UNCHANGED <<worker, printed>>
  BY DEF Call
<1>2. /\ ClientType /\ WorkerType /\ MemInv /\ LogInv /\ FailureInv /\ OutputInv /\ Owned
      /\ Live = {} /\ seen = {} /\ stage = 1 /\ printed = <<>>
  BY <1>1 DEF IInv, MemInv, Owned, MayLive, FailureInv, ClientType, Prepare
<1>3. WorkerType' /\ WorkerInv'
  BY <1>1, <1>2, NoWorkerYet
<1>4. RequestInv' /\ PreparedInv' /\ ResponseInv'
  BY <1>1 DEF RequestInv, PreparedInv, ResponseInv, Prepare, Ended
<1>5. CASE o.check = "OK"
  <2>1. Owned' /\ Live' = {}
    BY <1>1, <1>2, <1>5, SameOwned
  <2>2. ClientType' /\ MemInv' /\ FailureInv'
    BY <1>1, <1>2, <1>5, <2>1
       DEF ClientType, Places, Statuses, Prepare, Stages, MemInv, Owned, FailureInv, Ended
  <2>3. LogInv' /\ OutputInv'
    BY <1>1, <1>2, <1>5 DEF LogInv, Content, OutputInv, Ended
  <2> QED BY <1>3, <1>4, <2>2, <2>3 DEF IInv
<1>6. CASE o.check # "OK"
  <2>1. pc' = "returned" /\ Fails(o.check) /\ o.check \in Statuses \ {"OK"}
    BY <1>1, <1>6 DEF SetDiagnostic, Fails, Diagnostic, Options, Statuses
  <2>2. /\ Owned' /\ Live' \subseteq Live \cup {Diagnostic}
        /\ \A s \in Slots \ {Diagnostic} : mem'[s] = mem[s]
        /\ status' \in Statuses \ {"OK"}
        /\ IF mem'[Diagnostic] = Null THEN "oom" \in seen' ELSE mem'[Diagnostic].what = status'
        /\ seen' \in {seen, seen \cup {"oom"}}
    BY <1>1, <1>2, <2>1, FailsOwned
  <2>3. MayLive(Diagnostic)'
    BY <2>1, <2>2, SlotNames, SlotFacts DEF MayLive, Diagnostic, StageSlots, Ended
  <2>4. MemInv' /\ ClientType'
    BY <1>1, <1>2, <2>1, <2>2, <2>3
       DEF MemInv, Owned, ClientType, Places, Prepare, Stages
  <2>5. \A n \in {"log", "errlog"} : Content(<<n, 0>>)' = Content(<<n, 0>>)
    BY <2>2, SlotNames DEF Content, Diagnostic
  <2>6. \A k \in {1, 2} : mem'[<<"output", k>>] = mem[<<"output", k>>]
    BY <2>2, SlotNames DEF Diagnostic, StageSlots, Stages
  <2>7. LogInv' /\ FailureInv' /\ OutputInv'
    BY <1>1, <1>2, <2>1, <2>2, <2>5, <2>6
       DEF LogInv, FailureInv, OutputInv, Ended, Prepare, Diagnostic
  <2> QED BY <1>3, <1>4, <2>4, <2>7 DEF IInv
<1> QED BY <1>5, <1>6

LEMMA AllocationFailsIInv == IInv /\ AllocationFails => IInv'
<1> SUFFICES ASSUME IInv, AllocationFails PROVE IInv'
  OBVIOUS
<1>1. Fails("OUT_OF_MEMORY") /\ "OUT_OF_MEMORY" \in Statuses \ {"OK"}
  BY DEF AllocationFails, Fails, Diagnostic, Statuses
<1> QED BY <1>1, EndsBadly DEF AllocationFails, Prepare

(* What a step before the first stage leaves alone. *)
LEMMA PrepareStep ==
  ASSUME IInv, pc \in Prepare, pc' \in Prepare \cup {"build"},
         UNCHANGED <<options, stage, status, worker, seen, printed>>,
         \A s \in Slots : s[1] \notin Plain => mem'[s] = mem[s]
  PROVE  /\ WorkerType' /\ WorkerInv' /\ LogInv' /\ FailureInv' /\ OutputInv' /\ ResponseInv'
         /\ RequestInv' /\ stage = 1 /\ Owned /\ status = "OK"
<1>1. ClientType /\ WorkerType /\ MemInv /\ LogInv /\ FailureInv /\ OutputInv /\ Owned /\ stage = 1
  BY DEF IInv, MemInv, Owned, ClientType
<1>2. WorkerType' /\ WorkerInv'
  BY <1>1, NoWorkerYet DEF Prepare
<1>3. /\ \A n \in {"log", "errlog"} : mem'[<<n, 0>>] = mem[<<n, 0>>]
      /\ \A k \in {1, 2} : mem'[<<"output", k>>] = mem[<<"output", k>>]
  BY SlotNames DEF Plain, StageSlots, Stages
<1>4. LogInv' /\ FailureInv' /\ OutputInv'
  <2>1. \A n \in {"log", "errlog"} : Content(<<n, 0>>)' = Content(<<n, 0>>)
    BY <1>3 DEF Content
  <2>2. LogInv'
    BY <1>1, <2>1 DEF LogInv, Prepare
  <2> QED BY <1>1, <1>3, <2>2 DEF FailureInv, OutputInv, Prepare, Ended
<1>5. pc' # "ran" /\ pc' # "start"
  BY DEF Prepare
<1>6. ResponseInv' /\ RequestInv'
  BY <1>5 DEF ResponseInv, RequestInv
<1>7. status = "OK"
  BY <1>1 DEF ClientType
<1> QED BY <1>1, <1>2, <1>4, <1>6, <1>7

LEMMA ExpandIInv == IInv /\ Expand => IInv'
<1> SUFFICES ASSUME IInv, Expand PROVE IInv'
  OBVIOUS
<1> DEFINE slot == <<"expanded", 0>>
<1>1. /\ pc = "expand" /\ pc' = "paths"
      /\ UNCHANGED <<options, stage, item, status, worker, seen, printed>>
      /\ ClientType /\ MemInv /\ Owned /\ PreparedInv
  BY DEF Expand, IInv, MemInv, Owned
<1>2. Live = {} /\ options \in Options /\ item = 1 /\ slot \in Slots /\ slot[1] \in Plain
  BY <1>1, SlotNames DEF MemInv, MayLive, ClientType, Plain
<1>3. /\ Owned' /\ Live' \subseteq {slot} /\ \A s \in Slots \ {slot} : mem'[s] = mem[s]
      /\ options.include => /\ mem'[slot] # Null /\ mem'[slot].size \in Nat
                            /\ mem'[slot].what = <<"header", "source">>
  <2>1. CASE options.include
    <3>1. Allocate(slot, <<"header", "source">>, options.source + 1)
      BY <2>1 DEF Expand
    <3>2. options.source + 1 \in Nat
      <4> QED BY <1>2, OptionsFacts
    <3>3. <<"header", "source">> \in Whats
      <4>1. <<"header", "source">> \in Texts
        BY DEF Texts, Words
      <4> QED BY <4>1 DEF Whats
    <3> QED BY <1>1, <1>2, <3>1, <3>2, <3>3, AllocateOwned
  <2>2. CASE ~options.include
    BY <1>1, <1>2, <2>2, SameOwned DEF Expand
  <2> QED BY <2>1, <2>2
<1>4. \A s \in Slots : s[1] \notin Plain => mem'[s] = mem[s]
  BY <1>2, <1>3
<1>5. MayLive(slot)'
  BY <1>1 DEF MayLive, StageSlots
<1>6. MemInv' /\ ClientType' /\ PreparedInv'
  BY <1>1, <1>2, <1>3, <1>5
     DEF MemInv, Owned, ClientType, Places, Prepare, PreparedInv, Ended
<1> QED BY <1>1, <1>4, <1>6, PrepareStep DEF IInv, Prepare

LEMMA MakePathIInv == IInv /\ MakePath => IInv'
<1> SUFFICES ASSUME IInv, MakePath PROVE IInv'
  OBVIOUS
<1> PICK slot : slot = <<"path", item>>
  OBVIOUS
<1>1. /\ pc = "paths" /\ UNCHANGED <<options, stage, worker, printed>>
      /\ ClientType /\ MemInv /\ Owned /\ PreparedInv /\ item \in 1 .. 4 /\ options \in Options
  BY DEF MakePath, IInv, MemInv, Owned, ClientType
<1>2. CASE /\ Allocate(slot, "path", 1)
           /\ IF PathsLeft THEN item' = item + 1 /\ pc' = "paths" ELSE item' = 1 /\ pc' = "arguments"
           /\ UNCHANGED <<status, seen>>
  <2>1. slot \in Slots /\ slot[1] \in Plain /\ "path" \in Whats /\ 1 \in Nat
    BY <1>1, SlotNames DEF Plain, Whats
  <2>2. \A s \in Live : MayLive(s) /\ s \in Slots
    BY <1>1 DEF MemInv, Live
  <2>3. slot \notin Live
    BY <1>1, <2>2 DEF MayLive
  <2>4. /\ Owned' /\ Live' = Live \cup {slot} /\ \A s \in Slots \ {slot} : mem'[s] = mem[s]
    BY <1>1, <1>2, <2>1, <2>3, AllocateOwned
  <2>5. \A s \in Slots : s[1] \notin Plain => mem'[s] = mem[s]
    BY <2>1, <2>4
  <2>6. \/ pc' = "paths" /\ item < 4 /\ item' = item + 1
        \/ pc' = "arguments" /\ item' = 1
    BY <1>2 DEF PathsLeft
  <2>7. \A s \in Live : MayLive(s)'
    <3> SUFFICES ASSUME NEW s \in Live PROVE MayLive(s)'
      OBVIOUS
    <3>1. /\ s[1] \notin StageSlots \cup {"log", "errlog", "arguments", "definition", "request",
                                          "response", "out", "err", "diagnostic", "elf"}
          /\ s[1] = "path" => s[2] < item
      BY <1>1, <2>2 DEF MayLive, Prepare, Ended
    <3>2. s[2] \in Nat
      BY <2>2, SlotFacts
    <3> QED BY <1>1, <2>6, <3>1, <3>2 DEF MayLive
  <2>8. MayLive(slot)'
    BY <1>1, <2>6 DEF MayLive, StageSlots
  <2>9. MemInv'
    BY <2>4, <2>7, <2>8 DEF MemInv, Owned
  <2>10. ClientType'
    <3>1. item' \in Nat \ {0} /\ item' <= 4 /\ pc' \in {"paths", "arguments"}
          /\ (pc' = "arguments" => item' = 1)
      BY <1>1, <2>6
    <3> QED BY <1>1, <1>2, <3>1 DEF ClientType, Places, Prepare
  <2>11. PreparedInv'
    <3>1. mem'[<<"expanded", 0>>] = mem[<<"expanded", 0>>]
      BY <2>4, SlotNames
    <3> QED BY <1>1, <2>6, <3>1 DEF PreparedInv, Ended, Prepare
  <2> QED BY <1>1, <1>2, <2>5, <2>6, <2>9, <2>10, <2>11, PrepareStep DEF IInv, Prepare
<1>3. CASE /\ \/ Allocate(Diagnostic, "OUT_OF_MEMORY", 1)
              \/ UNCHANGED <<mem, heap>>
           /\ status' = "OUT_OF_MEMORY" /\ seen' = seen \cup {"oom"}
           /\ pc' = "done" /\ UNCHANGED item
  <2>1. Fails("OUT_OF_MEMORY") /\ "OUT_OF_MEMORY" \in Statuses \ {"OK"}
    BY <1>3 DEF Fails, Statuses
  <2> QED BY <1>1, <1>3, <2>1, EndsBadly DEF Prepare
<1> QED BY <1>2, <1>3 DEF MakePath, Diagnostic

LEMMA AllocateArgumentsIInv == IInv /\ AllocateArguments => IInv'
<1> SUFFICES ASSUME IInv, AllocateArguments PROVE IInv'
  OBVIOUS
<1> DEFINE slot == <<"arguments", 0>>
           count == BaseArguments + options.definitions
<1>1. /\ pc = "arguments" /\ pc' = IF options.definitions = 0 THEN "build" ELSE "definitions"
      /\ UNCHANGED <<options, stage, item, status, worker, seen, printed>>
      /\ Allocate(slot, "arguments", count)
      /\ ClientType /\ MemInv /\ Owned /\ PreparedInv /\ item = 1 /\ options \in Options
  BY DEF AllocateArguments, IInv, MemInv, Owned, ClientType
<1>2. options.definitions \in Nat /\ count \in Nat
  <2>1. options.definitions \in Nat /\ BaseArguments \in Nat
    BY <1>1, OptionsFacts, ShaveAssumption
  <2> QED BY <2>1
<1> HIDE DEF count
<1>3. slot \in Slots /\ slot[1] \in Plain /\ "arguments" \in Whats
  BY SlotNames DEF Plain, Whats
<1>4. \A s \in Live : MayLive(s) /\ s \in Slots
  BY <1>1 DEF MemInv, Live
<1>5. slot \notin Live
  BY <1>1, <1>4 DEF MayLive
<1>6. /\ Owned' /\ Live' = Live \cup {slot} /\ \A s \in Slots \ {slot} : mem'[s] = mem[s]
      /\ mem'[slot] # Null /\ mem'[slot].size = count
  BY <1>1, <1>2, <1>3, <1>5, AllocateOwned
<1>7. \A s \in Slots : s[1] \notin Plain => mem'[s] = mem[s]
  BY <1>3, <1>6
<1>8. pc' \in {"build", "definitions"}
  BY <1>1
<1>9. \A s \in Live : MayLive(s)'
  <2> SUFFICES ASSUME NEW s \in Live PROVE MayLive(s)'
    OBVIOUS
  <2>1. s[1] \notin StageSlots \cup {"log", "errlog", "arguments", "definition", "request",
                                     "response", "out", "err", "diagnostic", "elf"}
    BY <1>1, <1>4 DEF MayLive, Prepare, Ended
  <2> QED BY <1>8, <2>1 DEF MayLive
<1>10. MayLive(slot)'
  BY <1>8 DEF MayLive, StageSlots
<1>11. MemInv'
  BY <1>6, <1>9, <1>10 DEF MemInv, Owned
<1>12. ClientType'
  BY <1>1, <1>2, <1>8 DEF ClientType, Places, Prepare
<1>13. PreparedInv'
  BY <1>1, <1>6, <1>8, SlotNames DEF PreparedInv, Ended, Prepare, count
<1> QED BY <1>1, <1>7, <1>8, <1>11, <1>12, <1>13, PrepareStep DEF IInv, Prepare

LEMMA AllocateDefinitionIInv == IInv /\ AllocateDefinition => IInv'
<1> SUFFICES ASSUME IInv, AllocateDefinition PROVE IInv'
  OBVIOUS
<1> PICK slot : slot = <<"definition", item>>
  OBVIOUS
<1>1. /\ pc = "definitions" /\ UNCHANGED <<options, stage, status, worker, seen, printed>>
      /\ Allocate(slot, "definition", 1)
      /\ \/ item < options.definitions /\ item' = item + 1 /\ pc' = "definitions"
         \/ item' = 1 /\ pc' = "build"
      /\ ClientType /\ MemInv /\ Owned /\ PreparedInv /\ options \in Options
      /\ item \in Nat \ {0} /\ item <= options.definitions
  BY DEF AllocateDefinition, IInv, MemInv, Owned, ClientType
<1>2. options.definitions \in 0 .. MaxDefinitions /\ MaxDefinitions \in Nat
  BY <1>1, OptionsFacts, ShaveAssumption
<1>3. item \in 1 .. MaxDefinitions
  BY <1>1, <1>2
<1>4. slot \in Slots /\ slot[1] \in Plain /\ "definition" \in Whats /\ 1 \in Nat
  BY <1>3, SlotNames DEF Plain, Whats
<1>5. \A s \in Live : MayLive(s) /\ s \in Slots
  BY <1>1 DEF MemInv, Live
<1>6. slot \notin Live
  BY <1>1, <1>5 DEF MayLive
<1>7. /\ Owned' /\ Live' = Live \cup {slot} /\ \A s \in Slots \ {slot} : mem'[s] = mem[s]
  BY <1>1, <1>4, <1>6, AllocateOwned
<1>8. \A s \in Slots : s[1] \notin Plain => mem'[s] = mem[s]
  BY <1>4, <1>7
<1>9. \A s \in Live : MayLive(s)'
  <2> SUFFICES ASSUME NEW s \in Live PROVE MayLive(s)'
    OBVIOUS
  <2>1. /\ s[1] \notin StageSlots \cup {"log", "errlog", "request", "response", "out", "err",
                                        "diagnostic", "elf"}
        /\ s[1] = "definition" => s[2] < item
    BY <1>1, <1>5 DEF MayLive, Prepare, Ended
  <2>2. s[2] \in Nat
    BY <1>5, SlotFacts
  <2> QED BY <1>1, <2>1, <2>2 DEF MayLive
<1>10. MayLive(slot)'
  BY <1>1 DEF MayLive, StageSlots
<1>11. MemInv'
  BY <1>7, <1>9, <1>10 DEF MemInv, Owned
<1>12. ClientType'
  <2>1. /\ item' \in Nat \ {0} /\ item' <= MaxDefinitions /\ pc' \in {"definitions", "build"}
        /\ (pc' = "build" => item' = 1) /\ (pc' = "definitions" => item' <= options.definitions)
    BY <1>1, <1>2, <1>3
  <2> QED BY <1>1, <2>1 DEF ClientType, Places, Prepare
<1>13. PreparedInv'
  <2>1. /\ mem'[<<"expanded", 0>>] = mem[<<"expanded", 0>>]
        /\ mem'[<<"arguments", 0>>] = mem[<<"arguments", 0>>]
    BY <1>7, SlotNames
  <2> QED BY <1>1, <2>1 DEF PreparedInv, Ended, Prepare
<1> QED BY <1>1, <1>8, <1>11, <1>12, <1>13, PrepareStep DEF IInv, Prepare

----------------------------------------------------------------------------
(* The request *)

LEMMA EmptyTexts == <<>> \in Texts /\ <<>> \in Logs
BY EmptySeq DEF Texts, Logs

LEMMA TextsOfWords ==
  ASSUME NEW t \in Texts, NEW w \in Words
  PROVE  Append(t, w) \in Texts /\ t \o <<w>> \in Texts /\ <<w>> \in Texts
<1>1. Texts = Seq(Words)
  BY DEF Texts
<1> QED BY <1>1, AppendProperties, ConcatProperties

LEMMA MadeTexts == ASSUME options \in Options, NEW k \in 0 .. 3 PROVE Made(k) \in Texts
<1> DEFINE S == TheSource
           C == Append(S, "compile")
           A == Append(C, "assemble")
           L == A \o <<"link">>
<1>1. S \in Texts
  <2>1. <<"source">> \in Texts /\ <<"header", "source">> \in Texts
    BY DEF Texts, Words
  <2> QED BY <2>1 DEF TheSource
<1>2. "compile" \in Words /\ "assemble" \in Words /\ "link" \in Words /\ "script" \in Words
  BY DEF Words
<1>3. Made(k) \in {S, C, A, L \o <<"script">>}
  BY DEF Made
<1> HIDE DEF S
<1>4. C \in Texts
  BY <1>1, <1>2, TextsOfWords
<1> HIDE DEF C
<1>5. A \in Texts
  BY <1>2, <1>4, TextsOfWords
<1> HIDE DEF A
<1>6. L \in Texts
  BY <1>2, <1>5, TextsOfWords
<1> HIDE DEF L
<1>7. L \o <<"script">> \in Texts
  BY <1>2, <1>6, TextsOfWords
<1> QED BY <1>1, <1>3, <1>4, <1>5, <1>7

LEMMA MadeSame == ASSUME UNCHANGED options PROVE \A k : Made(k)' = Made(k)
BY DEF Made, TheSource

(* The inputs of a stage are the work of the stage before. *)
LEMMA InputsFacts ==
  ASSUME IInv, pc = "build"
  PROVE  /\ Inputs \in Seq(Pieces) /\ Len(Inputs) = (IF stage = 3 THEN 2 ELSE 1)
         /\ Whatever \/ Inputs[1].what = Made(stage - 1)
         /\ stage = 3 => Inputs[2].what = <<"script">>
         /\ RequestSize(Inputs) \in Nat
<1>1. /\ stage \in {1, 2, 3} /\ options \in Options /\ PreparedInv /\ OutputInv
  BY DEF IInv, ClientType, Stages
<1> DEFINE Script == [what |-> <<"script">>, size |-> options.script]
           Out(k) == Content(<<"output", k>>)
<1>2. Script \in Pieces /\ Script.what = <<"script">>
  <2>1. <<"script">> \in Texts /\ options.script \in Nat
    BY <1>1, OptionsFacts DEF Texts, Words
  <2> QED BY <2>1 DEF Pieces
<1>3. Source \in Pieces /\ Source.what = Made(0)
  <2>1. CASE options.include
    <3>1. /\ mem[<<"expanded", 0>>] # Null /\ mem[<<"expanded", 0>>].what = <<"header", "source">>
          /\ mem[<<"expanded", 0>>].size \in Nat
      BY <1>1, <2>1 DEF PreparedInv, Prepare, Ended
    <3>2. <<"header", "source">> \in Texts
      BY DEF Texts, Words
    <3> QED BY <2>1, <3>1, <3>2 DEF Source, Content, Pieces, Made, TheSource
  <2>2. CASE ~options.include
    <3>1. <<"source">> \in Texts /\ options.source \in Nat
      BY <1>1, OptionsFacts DEF Texts, Words
    <3> QED BY <2>2, <3>1 DEF Source, Pieces, Made, TheSource
  <2> QED BY <2>1, <2>2
<1>4. ASSUME NEW k \in {1, 2}
      PROVE  Out(k) \in Pieces /\ (stage = k + 1 => Whatever \/ Out(k).what = Made(k))
  <2>1. mem[<<"output", k>>] # Null =>
          mem[<<"output", k>>].what \in Texts /\ mem[<<"output", k>>].size \in Nat
    BY <1>1 DEF OutputInv
  <2>2. Out(k) \in Pieces
    BY <2>1, EmptyTexts DEF Content, Pieces
  <2>3. stage = k + 1 => Whatever \/ Holds(<<"output", k>>, k)
    BY <1>1 DEF OutputInv
  <2> QED BY <2>2, <2>3 DEF Holds, Content
<1> HIDE DEF Script, Out
<1>5. \A p \in Pieces : p.size \in Nat
  BY DEF Pieces
<1>6. CASE stage = 1
  <2>1. Inputs = <<Source>>
    BY <1>6 DEF Inputs
  <2> QED BY <1>3, <1>5, <1>6, <2>1 DEF RequestSize, Header
<1>7. CASE stage = 2
  <2>1. Inputs = <<Out(1)>>
    BY <1>7 DEF Inputs, Out
  <2>2. Out(1) \in Pieces /\ (Whatever \/ Out(1).what = Made(1))
    BY <1>4, <1>7
  <2> QED BY <1>5, <1>7, <2>1, <2>2 DEF RequestSize, Header
<1>8. CASE stage = 3
  <2>1. Inputs = <<Out(2), Script>>
    BY <1>8 DEF Inputs, Out, Script
  <2>2. Out(2) \in Pieces /\ (Whatever \/ Out(2).what = Made(2))
    BY <1>4, <1>8
  <2> QED BY <1>2, <1>5, <1>8, <2>1, <2>2 DEF RequestSize, Header
<1> QED BY <1>1, <1>6, <1>7, <1>8

(* A stage whose worker does not even start. *)
LEMMA NotRun ==
  ASSUME IInv, pc \in {"build", "start"}, pc' = "ran",
         UNCHANGED <<options, stage, item, mem, heap, worker, printed>>,
         status' \in Statuses \ {"OK"},
         seen' \in {seen, seen \cup {"oom"}, seen \cup {"failed"}, seen \cup {"failed", "oom"}}
  PROVE  IInv'
<1>1. /\ ClientType /\ WorkerType /\ MemInv /\ PreparedInv /\ OutputInv /\ LogInv /\ Owned
  BY DEF IInv, MemInv, Owned
<1>2. WorkerType' /\ WorkerInv'
  BY <1>1, NoWorkerYet
<1>3. Owned' /\ Live' = Live
  BY <1>1, SameOwned
<1>4. MemInv'
  <2>1. \A s \in Live : MayLive(s)
    BY <1>1 DEF MemInv
  <2>2. \A s \in Live : MayLive(s)'
    BY <2>1 DEF MayLive, Prepare, Ended
  <2> QED BY <1>3, <2>2 DEF MemInv, Owned
<1>5. ClientType' /\ PreparedInv' /\ ResponseInv' /\ RequestInv' /\ FailureInv'
  <2>1. ClientType'
    BY <1>1 DEF ClientType, Places, Prepare
  <2>2. PreparedInv'
    BY <1>1 DEF PreparedInv, Prepare, Ended
  <2>3. FailureInv'
    BY DEF FailureInv, Prepare, Ended
  <2> QED BY <2>1, <2>2, <2>3 DEF ResponseInv, RequestInv
<1>6. OutputInv'
  <2>1. \A k : Made(k)' = Made(k)
    BY MadeSame
  <2>2. Whatever => Whatever'
    BY DEF Whatever
  <2>3. \A k \in {1, 2} : stage = k + 1 => Whatever \/ Holds(<<"output", k>>, k)
    BY <1>1 DEF OutputInv
  <2> QED BY <1>1, <2>1, <2>2, <2>3 DEF OutputInv, Holds, Ended
<1>7. mem[<<"out", 0>>] = Null /\ mem[<<"err", 0>>] = Null
  BY <1>1, SlotNames DEF MemInv, MayLive, Live
<1>8. Content(<<"out", 0>>).what = <<>> /\ Content(<<"err", 0>>).what = <<>>
  BY <1>7 DEF Content
<1> DEFINE log(n) == Content(<<n, 0>>).what
<1>9. \A n \in {"log", "errlog"} : log(n) \in Logs /\ log(n) \o <<>> = log(n)
  <2>1. \A n \in {"log", "errlog"} : log(n) \in Logs
    BY <1>1 DEF LogInv
  <2> QED BY <2>1, ConcatEmptySeq DEF Logs
<1>10. \A s : Content(s)' = Content(s)
  BY DEF Content
<1>11. LogInv'
  BY <1>1, <1>7, <1>8, <1>9, <1>10 DEF LogInv, Printed
<1> QED BY <1>2, <1>4, <1>5, <1>6, <1>11 DEF IInv

LEMMA BuildRequestIInv == IInv /\ BuildRequest => IInv'
<1> SUFFICES ASSUME IInv, BuildRequest PROVE IInv'
  OBVIOUS
<1> PICK slot : slot = <<"request", 0>>
  OBVIOUS
<1>4. PICK size : size = RequestSize(Inputs)
  OBVIOUS
<1>5. PICK r : r = [version |-> Version, stage |-> stage, inputs |-> Inputs,
                    arguments |-> ArgumentCount, path |-> options.path]
  OBVIOUS
<1>1. /\ pc = "build" /\ UNCHANGED <<options, stage, item, worker, printed>>
      /\ ClientType /\ WorkerType /\ MemInv /\ Owned /\ PreparedInv /\ OutputInv /\ LogInv /\ FailureInv
      /\ options \in Options /\ stage \in Stages /\ status = "OK"
  BY DEF BuildRequest, IInv, MemInv, Owned, ClientType
<1>2. CASE /\ status' \in {"INVALID_ARGUMENT", "OUT_OF_MEMORY"} /\ pc' = "ran"
           /\ UNCHANGED <<mem, heap>> /\ seen' \in {seen, seen \cup {"oom"}}
  BY <1>1, <1>2, NotRun DEF Statuses
<1>3. CASE Allocate(slot, r, size) /\ pc' = "start" /\ UNCHANGED <<status, seen>>
  <2>1. /\ Inputs \in Seq(Pieces) /\ Len(Inputs) = (IF stage = 3 THEN 2 ELSE 1)
        /\ Whatever \/ Inputs[1].what = Made(stage - 1)
        /\ stage = 3 => Inputs[2].what = <<"script">>
        /\ size \in Nat
    BY <1>1, <1>4, InputsFacts
  <2>2. ArgumentCount \in 1 .. MaxArguments /\ ArgumentCount \in Nat
    <3>1. mem[<<"arguments", 0>>].size = BaseArguments + options.definitions
      BY <1>1 DEF PreparedInv, Prepare, Ended
    <3>2. /\ options.definitions \in 0 .. MaxDefinitions /\ MaxDefinitions \in Nat
          /\ BaseArguments \in Nat \ {0} /\ MaxArguments \in Nat
          /\ BaseArguments + MaxDefinitions <= MaxArguments
      BY <1>1, OptionsFacts, ShaveAssumption
    <3>3. ArgumentCount \in {BaseArguments + options.definitions, BaseArguments}
      BY <3>1 DEF ArgumentCount
    <3> QED BY <3>2, <3>3
  <2>3. options.path \in {"good", "long", "not_UTF-8"}
    BY <1>1, OptionsFacts
  <2>4. r \in Requests
    BY <1>1, <1>5, <2>1, <2>2, <2>3 DEF Requests
  <2>5. RequestGood(r)
    <3>1. /\ r.stage = stage /\ r.path = options.path /\ r.arguments = ArgumentCount
          /\ r.inputs = Inputs
      BY <1>5
    <3> QED BY <2>1, <2>2, <2>4, <3>1 DEF RequestGood
  <2>6. slot \in Slots /\ slot[1] \in Plain /\ r \in Whats
    BY <2>4, SlotNames DEF Plain, Whats
  <2>7. \A s \in Live : MayLive(s) /\ s \in Slots
    BY <1>1 DEF MemInv, Live
  <2>8. slot \notin Live
    BY <1>1, <2>7 DEF MayLive
  <2>9. /\ Owned' /\ Live' = Live \cup {slot} /\ \A s \in Slots \ {slot} : mem'[s] = mem[s]
        /\ mem'[slot] # Null /\ mem'[slot].what = r
    BY <1>1, <1>3, <2>1, <2>6, <2>8, AllocateOwned
  <2>10. MemInv'
    <3>1. \A s \in Live : MayLive(s)'
      <4> SUFFICES ASSUME NEW s \in Live PROVE MayLive(s)'
        OBVIOUS
      <4>1. MayLive(s)
        BY <2>7
      <4> QED BY <1>1, <1>3, <4>1 DEF MayLive, Prepare, Ended
    <3>2. MayLive(slot)'
      BY <1>1, <1>3 DEF MayLive, StageSlots
    <3> QED BY <2>9, <3>1, <3>2 DEF MemInv, Owned
  <2>11. WorkerType' /\ WorkerInv'
    BY <1>1, <1>3, NoWorkerYet
  <2>12. ClientType'
    BY <1>1, <1>3 DEF ClientType, Places, Prepare
  <2>13. \A k : Made(k)' = Made(k)
    BY <1>1, MadeSame
  <2>14. RequestGood(r)'
    <3>1. stage' = stage /\ options' = options /\ seen' = seen
      BY <1>1, <1>3
    <3> QED BY <2>5, <2>13, <3>1 DEF RequestGood, Whatever
  <2>15. RequestInv'
    BY <2>9, <2>14 DEF RequestInv
  <2>16. /\ mem'[<<"expanded", 0>>] = mem[<<"expanded", 0>>]
         /\ mem'[<<"arguments", 0>>] = mem[<<"arguments", 0>>]
         /\ \A k \in {1, 2} : mem'[<<"output", k>>] = mem[<<"output", k>>]
         /\ \A n \in {"log", "errlog"} : mem'[<<n, 0>>] = mem[<<n, 0>>]
    BY <2>9, SlotNames DEF StageSlots, Stages
  <2>17. PreparedInv'
    BY <1>1, <1>3, <2>16 DEF PreparedInv, Prepare, Ended
  <2>18. OutputInv'
    BY <1>1, <1>3, <2>13, <2>16 DEF OutputInv, Holds, Ended, Whatever
  <2>19. LogInv'
    <3>1. \A n \in {"log", "errlog"} : Content(<<n, 0>>)' = Content(<<n, 0>>)
      BY <2>16 DEF Content
    <3> QED BY <1>1, <1>3, <3>1 DEF LogInv
  <2>20. FailureInv' /\ ResponseInv'
    BY <1>1, <1>3 DEF FailureInv, ResponseInv, Prepare, Ended
  <2> QED BY <2>10, <2>11, <2>12, <2>15, <2>17, <2>18, <2>19, <2>20 DEF IInv
<1> QED BY <1>2, <1>3, <1>4, <1>5 DEF BuildRequest

LEMMA StartWorkerIInv == IInv /\ StartWorker => IInv'
<1> SUFFICES ASSUME IInv, StartWorker PROVE IInv'
  OBVIOUS
<1>1. /\ pc = "start"
      /\ UNCHANGED <<options, stage, item, mem, heap, wresult, tool, sent, exit, prints, printed>>
      /\ ClientType /\ WorkerType /\ MemInv /\ Owned /\ PreparedInv /\ OutputInv /\ LogInv
      /\ FailureInv /\ RequestInv /\ status = "OK"
  BY DEF StartWorker, IInv, MemInv, Owned, ClientType
<1>2. CASE /\ status' \in {"NOT_FOUND", "INTERNAL_ERROR", "INVALID_ARGUMENT", "OUT_OF_MEMORY"}
           /\ seen' \in {seen \cup {"failed"}, seen \cup {"failed", "oom"}}
           /\ pc' = "ran" /\ UNCHANGED <<wpc, request>>
  BY <1>1, <1>2, NotRun DEF Statuses, worker
<1>3. CASE /\ wpc' = "read" /\ request' = mem[<<"request", 0>>].what
           /\ pc' = "wait" /\ UNCHANGED <<status, seen>>
  <2>1. Owned' /\ Live' = Live
    BY <1>1, SameOwned
  <2>2. MemInv'
    <3>1. \A s \in Live : MayLive(s)
      BY <1>1 DEF MemInv
    <3>2. \A s \in Live : MayLive(s)'
      BY <1>1, <1>3, <3>1 DEF MayLive, Prepare, Ended
    <3> QED BY <2>1, <3>2 DEF MemInv, Owned
  <2>3. \A k : Made(k)' = Made(k)
    BY <1>1, MadeSame
  <2>4. RequestGood(request')
    BY <1>1, <1>3 DEF RequestInv
  <2>5. (RequestGood(request))'
    <3>1. stage' = stage /\ options' = options /\ seen' = seen
      BY <1>1, <1>3
    <3> QED BY <2>3, <2>4, <3>1 DEF RequestGood, Whatever
  <2>6. WorkerInv'
    BY <1>3, <2>5 DEF WorkerInv, Sending
  <2>7. WorkerType'
    BY <1>1, <1>3 DEF WorkerType, WorkerPlaces, Whole
  <2>8. ClientType'
    BY <1>1, <1>3 DEF ClientType, Places, Prepare
  <2>9. PreparedInv'
    BY <1>1, <1>3 DEF PreparedInv, Prepare, Ended
  <2>10. OutputInv'
    BY <1>1, <1>3, <2>3 DEF OutputInv, Holds, Ended, Whatever
  <2>11. LogInv'
    <3>1. \A n \in {"log", "errlog"} : Content(<<n, 0>>)' = Content(<<n, 0>>)
      BY <1>1 DEF Content
    <3> QED BY <1>1, <1>3, <3>1 DEF LogInv
  <2>12. FailureInv' /\ ResponseInv' /\ RequestInv'
    BY <1>1, <1>3 DEF FailureInv, ResponseInv, RequestInv, Prepare, Ended
  <2> QED BY <2>2, <2>6, <2>7, <2>8, <2>9, <2>10, <2>11, <2>12 DEF IInv
<1> QED BY <1>2, <1>3 DEF StartWorker

----------------------------------------------------------------------------
(* The worker *)

(* The client waits meanwhile. *)
LEMMA ClientWaits ==
  ASSUME IInv, wpc # "none", UNCHANGED <<client, printed>>,
         seen' \in {seen, seen \cup {"oom"}, seen \cup {"empty"}}, WorkerType', WorkerInv'
  PROVE  IInv'
<1>1. /\ pc = "wait" /\ UNCHANGED <<pc, options, stage, item, status, mem, heap>>
      /\ ClientType /\ MemInv /\ Owned /\ PreparedInv /\ OutputInv /\ LogInv /\ FailureInv
  BY DEF IInv, MemInv, Owned, WorkerType, client
<1>2. Owned' /\ Live' = Live
  BY <1>1, SameOwned
<1>3. MemInv'
  <2>1. \A s \in Live : MayLive(s)
    BY <1>1 DEF MemInv
  <2>2. \A s \in Live : MayLive(s)'
    BY <1>1, <2>1 DEF MayLive
  <2> QED BY <1>2, <2>2 DEF MemInv, Owned
<1>4. ClientType'
  BY <1>1 DEF ClientType
<1>5. PreparedInv'
  BY <1>1 DEF PreparedInv
<1>6. OutputInv'
  <2>1. \A k : Made(k)' = Made(k)
    BY <1>1, MadeSame
  <2>2. Whatever => Whatever'
    BY DEF Whatever
  <2> QED BY <1>1, <2>1, <2>2 DEF OutputInv, Holds, Ended
<1>7. LogInv'
  <2>1. \A n \in {"log", "errlog"} : Content(<<n, 0>>)' = Content(<<n, 0>>)
    BY <1>1 DEF Content
  <2>2. "oom" \notin seen' => "oom" \notin seen
    OBVIOUS
  <2> QED BY <1>1, <2>1, <2>2 DEF LogInv
<1>8. FailureInv' /\ ResponseInv' /\ RequestInv'
  BY <1>1 DEF FailureInv, ResponseInv, RequestInv, Prepare, Ended
<1> QED BY <1>3, <1>4, <1>5, <1>6, <1>7, <1>8 DEF IInv

LEMMA RequestStays ==
  ASSUME UNCHANGED <<options, stage, request>>, Whatever => Whatever', RequestGood(request)
  PROVE  RequestGood(request)'
<1>1. \A k : Made(k)' = Made(k)
  BY MadeSame
<1> QED BY <1>1 DEF RequestGood

LEMMA Working ==
  ASSUME IInv, wpc \notin {"none", "exited"}
  PROVE  /\ pc = "wait" /\ WorkerType /\ RequestGood(request) /\ WorkerInv /\ options \in Options
         /\ stage \in {1, 2, 3}
BY DEF IInv, WorkerType, WorkerInv, ClientType, Stages

LEMMA Answers ==
  ASSUME WorkerType, wpc \in {"read", "parse", "load", "copy"}, pc = "wait",
         NEW st \in WorkerStatuses \ {"OK"}, NEW ret \in {-1, 0, 1}, Answer(st, ret),
         UNCHANGED <<pc, options, sent, exit, prints>>, RequestGood(request)',
         st = "BAD_REQUEST" => "oom" \in seen' \/ options.worker # Version \/ options.path # "good"
  PROVE  WorkerType' /\ WorkerInv'
<1>1. PICK d \in {0, 1} :
        wresult' = [status |-> st, ret |-> ret, what |-> <<>>, size |-> 0, diagnostic |-> d]
  BY DEF Answer
<1>2. wpc' = "header"
  BY DEF Answer
<1>3. 0 <= MaxResult
  BY ShaveAssumption
<1>4. wresult' \in Results /\ wresult'.size <= MaxResult /\ wresult'.status = st
  BY <1>1, <1>3, EmptyTexts DEF Results
<1>5. WorkerType'
  BY <1>2, <1>4 DEF WorkerType, WorkerPlaces
<1>6. Genuine(wresult)' /\ Excused(wresult)'
  BY <1>4 DEF Genuine, Excused
<1> QED BY <1>2, <1>5, <1>6 DEF WorkerInv

LEMMA WholeNat ==
  ASSUME WorkerType PROVE wresult.size \in Nat /\ wresult.diagnostic \in {0, 1} /\ Whole \in Nat
<1>1. wresult.size \in Nat /\ wresult.diagnostic \in {0, 1}
  BY DEF WorkerType, Results
<1> QED BY <1>1 DEF Whole, Header

LEMMA Exits ==
  ASSUME WorkerType, pc = "wait", NEW code \in {2, 3, 5}, Exit(code),
         UNCHANGED <<pc, wresult>>, prints' \in BOOLEAN, sent' \in 0 .. Whole
  PROVE  WorkerType' /\ WorkerInv'
<1>1. wpc' = "exited" /\ exit' \in {2, 3, 5}
  BY DEF Exit
<1>2. Whole' = Whole
  BY DEF Whole
<1>3. exit' # 0 /\ exit' \in {Null, 0, 2, 3, 5}
  BY <1>1
<1>4. WorkerType'
  BY <1>1, <1>2, <1>3 DEF WorkerType, WorkerPlaces
<1> QED BY <1>1, <1>3, <1>4 DEF WorkerInv, Sending

LEMMA WorkerReadIInv == IInv /\ WorkerRead => IInv'
<1> SUFFICES ASSUME IInv, WorkerRead PROVE IInv'
  OBVIOUS
<1>1. /\ wpc = "read" /\ UNCHANGED <<client, request, tool, sent, prints, printed>>
      /\ seen' \in {seen, seen \cup {"oom"}}
  BY DEF WorkerRead
<1>2. pc = "wait" /\ WorkerType /\ RequestGood(request) /\ WorkerInv
  BY <1>1, Working
<1>3. UNCHANGED <<pc, options, stage>> /\ (Whatever => Whatever')
  BY <1>1 DEF client, Whatever
<1>4. RequestGood(request)'
  BY <1>1, <1>2, <1>3, RequestStays
<1>5. WorkerType' /\ WorkerInv'
  <2>1. CASE wpc' = "parse" /\ UNCHANGED <<wresult, exit>>
    BY <1>1, <1>2, <1>3, <1>4, <2>1 DEF WorkerType, WorkerPlaces, WorkerInv, Sending
  <2>2. CASE Answer("BAD_REQUEST", -1) /\ seen' = seen \cup {"oom"} /\ UNCHANGED exit
    <3>1. "oom" \in seen' /\ "BAD_REQUEST" \in WorkerStatuses \ {"OK"} /\ -1 \in {-1, 0, 1}
      BY <2>2 DEF WorkerStatuses
    <3> QED BY <1>1, <1>2, <1>3, <1>4, <2>2, <3>1, Answers
  <2>3. CASE Exit(2) /\ UNCHANGED wresult
    <3>1. sent' \in 0 .. Whole
      BY <1>1, <1>2, WholeNat DEF WorkerType
    <3>2. prints' \in BOOLEAN
      BY <1>1, <1>2 DEF WorkerType
    <3> QED BY <1>2, <1>3, <2>3, <3>1, <3>2, Exits
  <2> QED BY <2>1, <2>2, <2>3 DEF WorkerRead
<1> QED BY <1>1, <1>5, ClientWaits

LEMMA WorkerParseIInv == IInv /\ WorkerParse => IInv'
<1> SUFFICES ASSUME IInv, WorkerParse PROVE IInv'
  OBVIOUS
<1>1. /\ wpc = "parse" /\ UNCHANGED <<client, request, tool, sent, exit, prints, printed>>
      /\ seen' \in {seen, seen \cup {"oom"}}
  BY DEF WorkerParse
<1>2. pc = "wait" /\ WorkerType /\ RequestGood(request) /\ WorkerInv
  BY <1>1, Working
<1>3. UNCHANGED <<pc, options, stage>> /\ (Whatever => Whatever')
  BY <1>1 DEF client, Whatever
<1>4. RequestGood(request)'
  BY <1>1, <1>2, <1>3, RequestStays
<1>5. ~WellFormed(request) => options.worker # Version \/ options.path # "good"
  <2>1. /\ request.version = Version /\ request.stage \in Stages /\ request.path = options.path
        /\ request.arguments \in 1 .. MaxArguments /\ request.stage = stage
        /\ Len(request.inputs) = (IF stage = 3 THEN 2 ELSE 1)
    BY <1>2 DEF RequestGood, Requests
  <2> QED BY <2>1 DEF WellFormed
<1>6. WorkerType' /\ WorkerInv'
  <2>1. CASE wpc' = "load" /\ UNCHANGED wresult
    BY <1>1, <1>2, <1>3, <1>4, <2>1 DEF WorkerType, WorkerPlaces, WorkerInv, Sending
  <2>2. CASE Answer("BAD_REQUEST", -1) /\ (~WellFormed(request) \/ seen' = seen \cup {"oom"})
    <3>1. "oom" \in seen' \/ options.worker # Version \/ options.path # "good"
      BY <1>5, <2>2
    <3>2. "BAD_REQUEST" \in WorkerStatuses \ {"OK"} /\ -1 \in {-1, 0, 1}
      BY DEF WorkerStatuses
    <3> QED BY <1>1, <1>2, <1>3, <1>4, <2>2, <3>1, <3>2, Answers
  <2> QED BY <2>1, <2>2 DEF WorkerParse
<1> QED BY <1>1, <1>6, ClientWaits

LEMMA WorkerLoadIInv == IInv /\ WorkerLoad => IInv'
<1> SUFFICES ASSUME IInv, WorkerLoad PROVE IInv'
  OBVIOUS
<1>1. /\ wpc = "load" /\ UNCHANGED <<client, request, tool, sent, exit, prints, printed>>
      /\ seen' \in {seen, seen \cup {"oom"}}
  BY DEF WorkerLoad
<1>2. pc = "wait" /\ WorkerType /\ RequestGood(request) /\ WorkerInv
  BY <1>1, Working
<1>3. UNCHANGED <<pc, options, stage>> /\ (Whatever => Whatever')
  BY <1>1 DEF client, Whatever
<1>4. RequestGood(request)' /\ request.path = options.path
  BY <1>1, <1>2, <1>3, RequestStays DEF RequestGood
<1>5. WorkerType' /\ WorkerInv'
  <2>1. CASE request.path = "good" /\ wpc' = "call" /\ UNCHANGED wresult
    BY <1>1, <1>2, <1>3, <1>4, <2>1 DEF WorkerType, WorkerPlaces, WorkerInv, Sending
  <2>2. ASSUME NEW st \in {"BAD_REQUEST", "OUT_OF_MEMORY", "LOAD_FAILED", "SYMBOL_MISSING"},
               Answer(st, -1),
               st = "BAD_REQUEST" => request.path # "good" \/ seen' = seen \cup {"oom"}
        PROVE  WorkerType' /\ WorkerInv'
    <3>1. st = "BAD_REQUEST" => "oom" \in seen' \/ options.worker # Version \/ options.path # "good"
      BY <1>4, <2>2
    <3>2. st \in WorkerStatuses \ {"OK"} /\ -1 \in {-1, 0, 1}
      BY DEF WorkerStatuses
    <3> QED BY <1>1, <1>2, <1>3, <1>4, <2>2, <3>1, <3>2, Answers
  <2>3. \/ request.path = "good" /\ wpc' = "call" /\ UNCHANGED wresult
        \/ \E st \in {"BAD_REQUEST", "OUT_OF_MEMORY", "LOAD_FAILED", "SYMBOL_MISSING"} :
             /\ Answer(st, -1)
             /\ st = "BAD_REQUEST" => request.path # "good" \/ seen' = seen \cup {"oom"}
    BY DEF WorkerLoad
  <2> QED BY <2>1, <2>2, <2>3
<1> QED BY <1>1, <1>5, ClientWaits

(* The tool works on what it was given. *)
LEMMA ToolFacts ==
  ASSUME RequestGood(request), stage \in {1, 2, 3}
  PROVE  /\ ToolContent(request) \in Texts
         /\ Whatever \/ ToolContent(request) = Made(stage)
<1> DEFINE one == request.inputs[1].what
           two == request.inputs[2].what
<1>1. /\ request \in Requests /\ request.stage = stage
      /\ Len(request.inputs) = (IF stage = 3 THEN 2 ELSE 1)
      /\ Whatever \/ one = Made(stage - 1)
      /\ stage = 3 => two = <<"script">>
  BY DEF RequestGood
<1>2. request.inputs \in Seq(Pieces)
  BY <1>1 DEF Requests
<1>3. one \in Texts
  <2>1. 1 \in 1 .. Len(request.inputs)
    BY <1>1
  <2>2. request.inputs[1] \in Pieces
    BY <1>2, <2>1, ElementOfSeq
  <2> QED BY <2>2 DEF Pieces
<1>4. ToolContent(request) = IF stage = 3 THEN one \o <<"link">> \o two
                             ELSE Append(one, StageName[stage])
  BY <1>1 DEF ToolContent
<1>5. "compile" \in Words /\ "assemble" \in Words /\ "link" \in Words /\ "script" \in Words
  BY DEF Words
<1> HIDE DEF one, two
<1>6. CASE stage = 1
  <2>1. ToolContent(request) = Append(one, "compile")
    BY <1>4, <1>6 DEF StageName
  <2>2. Append(Made(0), "compile") = Made(1)
    BY DEF Made
  <2>3. Whatever \/ one = Made(0)
    BY <1>1, <1>6
  <2>4. Append(one, "compile") \in Texts
    BY <1>3, <1>5, TextsOfWords
  <2> QED BY <1>6, <2>1, <2>2, <2>3, <2>4
<1>7. CASE stage = 2
  <2>1. ToolContent(request) = Append(one, "assemble")
    BY <1>4, <1>7 DEF StageName
  <2>2. Append(Made(1), "assemble") = Made(2)
    BY DEF Made
  <2>3. Whatever \/ one = Made(1)
    BY <1>1, <1>7
  <2>4. Append(one, "assemble") \in Texts
    BY <1>3, <1>5, TextsOfWords
  <2> QED BY <1>7, <2>1, <2>2, <2>3, <2>4
<1>8. CASE stage = 3
  <2>1. ToolContent(request) = (one \o <<"link">>) \o <<"script">>
    BY <1>1, <1>4, <1>8
  <2>2. (Made(2) \o <<"link">>) \o <<"script">> = Made(3)
    BY DEF Made
  <2>3. one \o <<"link">> \in Texts
    BY <1>3, <1>5, TextsOfWords
  <2>4. (one \o <<"link">>) \o <<"script">> \in Texts
    BY <1>5, <2>3, TextsOfWords
  <2> QED BY <1>1, <1>8, <2>1, <2>2, <2>4
<1> QED BY <1>6, <1>7, <1>8

LEMMA WorkerCallIInv == IInv /\ WorkerCall => IInv'
<1> SUFFICES ASSUME IInv, WorkerCall PROVE IInv'
  OBVIOUS
<1>1. /\ wpc = "call" /\ UNCHANGED <<client, request, wresult, sent, printed>>
      /\ prints' \in BOOLEAN
  BY DEF WorkerCall
<1>2. /\ pc = "wait" /\ WorkerType /\ RequestGood(request) /\ WorkerInv /\ stage \in {1, 2, 3}
      /\ options.path = "good" /\ sent = 0
  BY <1>1, Working DEF WorkerInv, WorkerType
<1>3. UNCHANGED <<pc, options, stage>>
  BY <1>1 DEF client
<1>4. CASE Exit(5) /\ UNCHANGED <<tool, seen>>
  <2>1. sent' \in 0 .. Whole
    BY <1>1, <1>2, WholeNat
  <2>2. WorkerType' /\ WorkerInv'
    BY <1>1, <1>2, <1>3, <1>4, <2>1, Exits
  <2> QED BY <1>1, <1>4, <2>2, ClientWaits
<1>5. ASSUME NEW ret \in {0, 1}, NEW n \in OutputSizes, NEW d \in {0, 1},
             tool' = [live |-> TRUE, ret |-> ret, size |-> n, diagnostic |-> d,
                      what |-> IF n = 0 THEN <<>> ELSE ToolContent(request)],
             seen' = IF ret = 0 /\ n = 0 THEN seen \cup {"empty"} ELSE seen,
             wpc' = "copy" /\ UNCHANGED exit
      PROVE  IInv'
  <2>1. n \in Nat
    BY ShaveAssumption
  <2>2. ToolContent(request) \in Texts /\ (Whatever \/ ToolContent(request) = Made(stage))
    BY <1>2, ToolFacts
  <2>3. (Whatever => Whatever') /\ seen' \in {seen, seen \cup {"empty"}}
    BY <1>5 DEF Whatever
  <2>4. /\ tool'.ret \in {0, 1} /\ tool'.what \in Texts /\ tool'.size \in Nat
        /\ tool'.diagnostic \in {0, 1}
    BY <1>5, <2>1, <2>2, EmptyTexts
  <2>5. tool'.ret = 0 => Whatever' \/ (tool'.size > 0 /\ tool'.what = Made(stage))
    BY <1>5, <2>1, <2>2, <2>3 DEF Whatever
  <2>6. Made(stage)' = Made(stage)
    BY <1>3 DEF Made, TheSource
  <2>7. RequestGood(request)'
    BY <1>1, <1>2, <1>3, <2>3, RequestStays
  <2>8. WorkerInv'
    BY <1>2, <1>3, <1>5, <2>4, <2>5, <2>6, <2>7 DEF WorkerInv, Sending
  <2>9. WorkerType'
    BY <1>1, <1>2, <1>3, <1>5 DEF WorkerType, WorkerPlaces
  <2> QED BY <1>1, <2>3, <2>8, <2>9, ClientWaits
<1>6. \/ Exit(5) /\ UNCHANGED <<tool, seen>>
      \/ \E ret \in {0, 1}, n \in OutputSizes, d \in {0, 1} :
           /\ tool' = [live |-> TRUE, ret |-> ret, size |-> n, diagnostic |-> d,
                       what |-> IF n = 0 THEN <<>> ELSE ToolContent(request)]
           /\ seen' = IF ret = 0 /\ n = 0 THEN seen \cup {"empty"} ELSE seen
           /\ wpc' = "copy" /\ UNCHANGED exit
  BY DEF WorkerCall
<1> QED BY <1>4, <1>5, <1>6

LEMMA WorkerCopyIInv == IInv /\ WorkerCopy => IInv'
<1> SUFFICES ASSUME IInv, WorkerCopy PROVE IInv'
  OBVIOUS
<1>1. /\ wpc = "copy" /\ UNCHANGED <<client, request, sent, exit, prints, printed>>
      /\ seen' \in {seen, seen \cup {"oom"}}
  BY DEF WorkerCopy
<1>2. /\ pc = "wait" /\ WorkerType /\ RequestGood(request) /\ WorkerInv /\ sent = 0
      /\ tool.ret \in {0, 1} /\ tool.what \in Texts /\ tool.size \in Nat /\ tool.diagnostic \in {0, 1}
      /\ tool.ret = 0 => Whatever \/ (tool.size > 0 /\ tool.what = Made(stage))
  BY <1>1, Working DEF WorkerInv, WorkerType
<1>3. UNCHANGED <<pc, options, stage>> /\ (Whatever => Whatever')
  BY <1>1 DEF client, Whatever
<1>4. RequestGood(request)'
  BY <1>1, <1>2, <1>3, RequestStays
<1>5. WorkerType' /\ WorkerInv'
  <2>1. CASE Answer("BAD_RESULT", tool.ret)
    <3>1. "BAD_RESULT" \in WorkerStatuses \ {"OK"} /\ "BAD_RESULT" # "BAD_REQUEST"
          /\ tool.ret \in {-1, 0, 1}
      BY <1>2 DEF WorkerStatuses
    <3> QED BY <1>1, <1>2, <1>3, <1>4, <2>1, <3>1, Answers
  <2>2. CASE /\ tool.size <= MaxResult /\ wpc' = "header"
             /\ wresult' = [status |-> "OK", ret |-> tool.ret, what |-> tool.what,
                            size |-> tool.size, diagnostic |-> tool.diagnostic]
    <3>1. /\ wresult'.status = "OK" /\ wresult'.ret = tool.ret /\ wresult'.what = tool.what
          /\ wresult'.size = tool.size
      BY <2>2
    <3>2. wresult' \in Results
      BY <1>2, <2>2 DEF Results, WorkerStatuses
    <3>3. WorkerType'
      BY <1>1, <1>2, <1>3, <2>2, <3>1, <3>2 DEF WorkerType, WorkerPlaces
    <3>4. Made(stage)' = Made(stage)
      BY <1>3 DEF Made, TheSource
    <3>5. Genuine(wresult)' /\ Excused(wresult)'
      BY <1>2, <1>3, <3>1, <3>4 DEF Genuine, Excused
    <3> QED BY <1>4, <2>2, <3>3, <3>5 DEF WorkerInv
  <2> QED BY <2>1, <2>2 DEF WorkerCopy
<1> QED BY <1>1, <1>5, ClientWaits

LEMMA WorkerSendIInv == IInv /\ WorkerSend => IInv'
<1> SUFFICES ASSUME IInv, WorkerSend PROVE IInv'
  OBVIOUS
<1>1. /\ wpc \in Sending /\ UNCHANGED <<client, request, wresult, tool, prints, seen, printed>>
  BY DEF WorkerSend, Sending
<1>2. /\ pc = "wait" /\ WorkerType /\ RequestGood(request) /\ WorkerInv
      /\ Genuine(wresult) /\ Excused(wresult)
  BY <1>1, Working DEF Sending, WorkerInv
<1>3. UNCHANGED <<pc, options, stage>> /\ (Whatever <=> Whatever')
  BY <1>1 DEF client, Whatever
<1>4. RequestGood(request)'
  BY <1>1, <1>2, <1>3, RequestStays
<1>5. Genuine(wresult)' /\ Excused(wresult)'
  <2>1. Made(stage)' = Made(stage)
    BY <1>3 DEF Made, TheSource
  <2> QED BY <1>1, <1>2, <1>3, <2>1 DEF Genuine, Excused
<1>6. /\ wresult.size \in Nat /\ wresult.diagnostic \in {0, 1} /\ Whole \in Nat /\ Whole' = Whole
      /\ Whole = Header + wresult.size + wresult.diagnostic /\ Header = 1
  BY <1>1, <1>2, WholeNat DEF Whole, Header
<1>7. /\ wpc = "header" => sent = 0
      /\ wpc = "output" => sent = Header
      /\ wpc = "diagnostic" => sent = Header + wresult.size
  BY <1>2 DEF WorkerType
<1>8. WorkerType' /\ WorkerInv'
  <2>1. CASE Exit(3) /\ UNCHANGED sent
    <3>1. sent' \in 0 .. Whole
      BY <1>1, <1>6, <1>7, <2>1 DEF Sending
    <3>2. prints' \in BOOLEAN
      BY <1>1, <1>2 DEF WorkerType
    <3> QED BY <1>1, <1>2, <1>3, <2>1, <3>1, <3>2, Exits
  <2>2. CASE wpc = "header" /\ sent' = sent + Piece /\ wpc' = "output" /\ UNCHANGED exit
    <3>1. sent' = Header
      BY <1>6, <1>7, <2>2 DEF Piece
    <3>2. WorkerType'
      BY <1>1, <1>2, <1>3, <2>2, <3>1 DEF WorkerType, WorkerPlaces
    <3> QED BY <1>4, <1>5, <2>2, <3>2 DEF WorkerInv
  <2>3. CASE wpc = "output" /\ sent' = sent + Piece /\ wpc' = "diagnostic" /\ UNCHANGED exit
    <3>1. sent' = Header + wresult.size
      BY <1>6, <1>7, <2>3 DEF Piece
    <3>2. WorkerType'
      BY <1>1, <1>2, <1>3, <2>3, <3>1 DEF WorkerType, WorkerPlaces
    <3> QED BY <1>4, <1>5, <2>3, <3>2 DEF WorkerInv
  <2>4. CASE wpc = "diagnostic" /\ sent' = sent + Piece /\ Exit(0)
    <3>1. sent' = Whole /\ sent' \in 0 .. Whole
      BY <1>6, <1>7, <2>4 DEF Piece
    <3>2. wpc' = "exited" /\ exit' = 0
      BY <2>4 DEF Exit
    <3>3. WorkerType'
      BY <1>1, <1>2, <1>3, <1>6, <3>1, <3>2 DEF WorkerType, WorkerPlaces
    <3> QED BY <1>5, <3>2, <3>3 DEF WorkerInv, Sending
  <2>5. \/ Exit(3) /\ UNCHANGED sent
        \/ wpc = "header" /\ sent' = sent + Piece /\ wpc' = "output" /\ UNCHANGED exit
        \/ wpc = "output" /\ sent' = sent + Piece /\ wpc' = "diagnostic" /\ UNCHANGED exit
        \/ wpc = "diagnostic" /\ sent' = sent + Piece /\ Exit(0)
    <3>1. CASE wpc = "header"
      BY <3>1 DEF WorkerSend
    <3>2. CASE wpc = "output"
      BY <3>2 DEF WorkerSend
    <3>3. CASE wpc = "diagnostic"
      BY <3>3 DEF WorkerSend
    <3> QED BY <1>1, <3>1, <3>2, <3>3 DEF Sending
  <2> QED BY <2>1, <2>2, <2>3, <2>4, <2>5
<1> QED BY <1>1, <1>8, ClientWaits DEF Sending

----------------------------------------------------------------------------
(* The end of a worker *)

LEMMA NoResultFacts == NoResult \in Results /\ NoResult.size = 0 /\ NoResult.size <= MaxResult
<1>1. MaxResult \in Nat
  BY ShaveAssumption
<1>2. NoResult.size = 0
  BY DEF NoResult
<1>3. NoResult \in Results
  BY EmptyTexts DEF Results, NoResult, WorkerStatuses
<1> QED BY <1>1, <1>2, <1>3

(* The blocks that the supervisor allocates. *)
Captures(put, captured) ==
  /\ DOMAIN put \subseteq {<<"response", 0>>, <<"out", 0>>, <<"err", 0>>}
  /\ sent > 0 => <<"response", 0>> \in DOMAIN put
  /\ \A n \in {"out", "err"} : <<n, 0>> \in DOMAIN put <=> captured
  /\ <<"response", 0>> \in DOMAIN put =>
       put[<<"response", 0>>] = Block(<<"response", 0>>, Response, sent)
  /\ \A n \in {"out", "err"} :
       <<n, 0>> \in DOMAIN put => put[<<n, 0>>] = Block(<<n, stage>>, <<stage>>, 1)

LEMMA SupervisorSteps ==
  ASSUME SupervisorReturns, prints \in BOOLEAN
  PROVE  \E put : \E captured \in BOOLEAN :
           /\ Store(put, {}) /\ Captures(put, captured)
           /\ printed' = IF captured THEN Append(printed, stage) ELSE printed
<1>1. PICK captured \in BOOLEAN :
        /\ Store([s \in (IF sent > 0 THEN {<<"response", 0>>} ELSE {})
                        \cup (IF captured THEN {"out", "err"} \X {0} ELSE {}) |->
                    IF s[1] = "response" THEN Block(s, Response, sent)
                    ELSE Block(<<s[1], stage>>, <<stage>>, 1)], {})
        /\ printed' = IF captured THEN Append(printed, stage) ELSE printed
  BY DEF SupervisorReturns
<1> DEFINE D == (IF sent > 0 THEN {<<"response", 0>>} ELSE {})
                  \cup (IF captured THEN {"out", "err"} \X {0} ELSE {})
           put == [s \in D |-> IF s[1] = "response" THEN Block(s, Response, sent)
                               ELSE Block(<<s[1], stage>>, <<stage>>, 1)]
<1>2. Store(put, {})
  BY <1>1
<1>3. DOMAIN put = D /\ \A s \in D : put[s] = IF s[1] = "response" THEN Block(s, Response, sent)
                                              ELSE Block(<<s[1], stage>>, <<stage>>, 1)
  OBVIOUS
<1> HIDE DEF put
<1>4. /\ D \subseteq {<<"response", 0>>, <<"out", 0>>, <<"err", 0>>}
      /\ sent > 0 => <<"response", 0>> \in D
      /\ \A n \in {"out", "err"} : (<<n, 0>> \in D) <=> captured
  <2>1. sent > 0 => <<"response", 0>> \in D
    OBVIOUS
  <2>2. CASE captured
    <3>1. D = (IF sent > 0 THEN {<<"response", 0>>} ELSE {}) \cup ({"out", "err"} \X {0})
      BY <2>2
    <3> QED BY <2>1, <2>2, <3>1
  <2>3. CASE ~captured
    <3>1. D = (IF sent > 0 THEN {<<"response", 0>>} ELSE {})
      BY <2>3
    <3> QED BY <2>1, <2>3, <3>1
  <2> QED BY <2>2, <2>3
<1> HIDE DEF D
<1>5. \A n \in {"out", "err"} : n # "response" /\ <<n, 0>>[1] = n
  OBVIOUS
<1>6. Captures(put, captured)
  BY <1>3, <1>4, <1>5 DEF Captures
<1> QED BY <1>1, <1>2, <1>6

(* Nothing of the memory of the client has the name of such a block yet. *)
LEMMA NewBlocks ==
  ASSUME IInv, pc = "wait", NEW put, NEW captured, Captures(put, captured)
  PROVE  /\ New(put, {})
         /\ \A s \in DOMAIN put : s \in Slots /\ s \notin Live
         /\ <<"response", 0>> \in DOMAIN put =>
              /\ put[<<"response", 0>>].what = Response /\ put[<<"response", 0>>].size = sent
              /\ put[<<"response", 0>>].id = <<"response", 0>>
         /\ \A n \in {"out", "err"} : <<n, 0>> \in DOMAIN put =>
              put[<<n, 0>>].what = <<stage>> /\ put[<<n, 0>>].id = <<n, stage>>
         /\ Response \in Responses /\ sent \in Nat
<1>1. ClientType /\ WorkerType /\ MemInv /\ options \in Options /\ stage \in {1, 2, 3}
  BY DEF IInv, ClientType, Stages
<1>2. sent \in Nat
  <2>1. wresult.size \in Nat /\ Whole \in Nat /\ Header + wresult.size \in Nat
    BY <1>1, WholeNat DEF Header
  <2>2. CASE wpc = "exited"
    BY <1>1, <2>1, <2>2 DEF WorkerType
  <2>3. CASE wpc # "exited"
    BY <1>1, <2>1, <2>3 DEF WorkerType, Header
  <2> QED BY <2>2, <2>3
<1>3. Response \in Responses
  <2>1. options.worker \in WorkerVersions
    BY <1>1 DEF Options
  <2>2. wresult \in Results
    BY <1>1 DEF WorkerType
  <2> QED BY <2>1, <2>2 DEF Response, Responses, Results
<1>4. <<stage>> \in Logs
  BY <1>1 DEF Logs, Stages
<1>5. Response \in Whats /\ <<stage>> \in Whats
  BY <1>3, <1>4 DEF Whats
<1>6. <<"response", 0>> \in DOMAIN put =>
        /\ put[<<"response", 0>>] # Null
        /\ put[<<"response", 0>>].what = Response /\ put[<<"response", 0>>].size = sent
        /\ put[<<"response", 0>>].id = <<"response", 0>>
  <2>1. "response" \in Names /\ 0 \in Nat
    BY DEF Names
  <2> QED BY <1>2, <1>5, <2>1, BlockFacts DEF Captures
<1>7. ASSUME NEW n \in {"out", "err"}, <<n, 0>> \in DOMAIN put
      PROVE  put[<<n, 0>>] # Null /\ put[<<n, 0>>].what = <<stage>> /\ put[<<n, 0>>].id = <<n, stage>>
  <2>1. n \in Names /\ stage \in Nat /\ 1 \in Nat
    BY <1>1 DEF Names
  <2>2. put[<<n, 0>>] = Block(<<n, stage>>, <<stage>>, 1)
    BY <1>7 DEF Captures
  <2> QED BY <1>5, <2>1, <2>2, BlockFacts
<1>8. \A s \in DOMAIN put : s \in {<<"response", 0>>, <<"out", 0>>, <<"err", 0>>}
  BY DEF Captures
<1>9. ASSUME NEW s \in DOMAIN put PROVE s \in Slots /\ s \notin Live
  <2>1. s \in Slots
    BY <1>8, SlotNames
  <2>2. ~MayLive(s)
    BY <1>8 DEF MayLive
  <2> QED BY <1>1, <2>1, <2>2 DEF MemInv
<1>10. ASSUME NEW s \in DOMAIN put, NEW t \in Live PROVE put[s].id # mem[t].id
  <2>1. t \in Slots /\ OwnName(t) /\ MayLive(t)
    BY <1>1 DEF MemInv, Live
  <2>2. put[s].id \in {<<"response", 0>>, <<"out", stage>>, <<"err", stage>>}
    BY <1>6, <1>7, <1>8
  <2>3. t[1] \notin {"response", "out", "err"} /\ (t[1] \in StageSlots => t[2] < stage)
    BY <2>1 DEF MayLive
  <2>4. t[1] \in StageSlots => t[2] \in Nat /\ t[2] # stage
    BY <1>1, <2>1, <2>3, SlotFacts
  <2>5. CASE t[1] \in {"log", "errlog"}
    <3>1. mem[t].id[1] = t[1]
      BY <2>1, <2>5 DEF OwnName
    <3> QED BY <2>2, <2>5, <3>1
  <2>6. CASE t[1] \notin {"log", "errlog"}
    <3>1. mem[t].id = <<NameAt(t), NumberAt(t)>>
      BY <2>1, <2>6 DEF OwnName, Origin
    <3>2. CASE t[1] \in {"stdout", "stderr"}
      <4>1. NumberAt(t) = t[2] /\ t[2] # stage /\ NameAt(t) # "response"
        BY <2>4, <3>2 DEF NumberAt, NameAt, StageSlots
      <4> QED BY <2>2, <3>1, <4>1
    <3>3. CASE t[1] \notin {"stdout", "stderr"}
      <4>1. NameAt(t) \notin {"response", "out", "err"}
        BY <2>3, <3>3 DEF NameAt
      <4> QED BY <2>2, <3>1, <4>1
    <3> QED BY <3>2, <3>3
  <2> QED BY <2>5, <2>6
<1>11. \A s, t \in DOMAIN put : put[s].id = put[t].id => s = t
  BY <1>6, <1>7, <1>8
<1>12. \A s \in DOMAIN put : put[s] # Null /\ s \in DOMAIN mem /\ mem[s] = Null
  <2>1. \A s \in DOMAIN put : put[s] # Null
    BY <1>6, <1>7, <1>8
  <2> QED BY <1>1, <1>9, <2>1 DEF MemInv, Live
<1>13. New(put, {})
  BY <1>10, <1>11, <1>12 DEF New
<1> QED BY <1>2, <1>3, <1>6, <1>7, <1>9, <1>13

LEMMA SupervisorReturnsIInv == IInv /\ SupervisorReturns => IInv'
<1> SUFFICES ASSUME IInv, SupervisorReturns PROVE IInv'
  OBVIOUS
<1>1. /\ pc = "wait" /\ pc' = "ran" /\ UNCHANGED <<options, stage, item>>
      /\ wpc' = "none" /\ wresult' = NoResult /\ sent' = 0 /\ exit' = Null /\ prints' = FALSE
      /\ \/ wpc = "exited" /\ status' = IF exit = 0 THEN "OK" ELSE "DRIVER_FAILED"
         \/ status' \in GiveUp
      /\ seen' = IF status' # "OK" \/ wresult.status # "OK" \/ wresult.ret # 0
                   THEN seen \cup {"failed"} ELSE seen
  BY DEF SupervisorReturns
<1>2. /\ ClientType /\ WorkerType /\ MemInv /\ Owned /\ PreparedInv /\ OutputInv /\ LogInv
      /\ FailureInv /\ WorkerInv /\ options \in Options /\ stage \in Stages /\ "failed" \notin seen
      /\ prints \in BOOLEAN
  BY <1>1 DEF IInv, MemInv, Owned, ClientType, FailureInv, WorkerType
<1>3. PICK put : \E captured \in BOOLEAN :
        /\ Store(put, {}) /\ Captures(put, captured)
        /\ printed' = IF captured THEN Append(printed, stage) ELSE printed
  BY <1>2, SupervisorSteps
<1>4. PICK captured \in BOOLEAN :
        /\ Store(put, {}) /\ Captures(put, captured)
        /\ printed' = IF captured THEN Append(printed, stage) ELSE printed
  BY <1>3
<1>5. /\ New(put, {})
      /\ \A s \in DOMAIN put : s \in Slots /\ s \notin Live
      /\ <<"response", 0>> \in DOMAIN put =>
           /\ put[<<"response", 0>>].what = Response /\ put[<<"response", 0>>].size = sent
           /\ put[<<"response", 0>>].id = <<"response", 0>>
      /\ \A n \in {"out", "err"} : <<n, 0>> \in DOMAIN put =>
           put[<<n, 0>>].what = <<stage>> /\ put[<<n, 0>>].id = <<n, stage>>
      /\ Response \in Responses /\ sent \in Nat
  BY <1>1, <1>4, NewBlocks
<1>6. /\ DOMAIN put \subseteq {<<"response", 0>>, <<"out", 0>>, <<"err", 0>>}
      /\ sent > 0 => <<"response", 0>> \in DOMAIN put
      /\ \A n \in {"out", "err"} : (<<n, 0>> \in DOMAIN put) <=> captured
  BY <1>4 DEF Captures
<1>7. /\ DOMAIN mem' = Slots
      /\ \A s \in DOMAIN put : mem'[s] = put[s]
      /\ \A s \in Slots \ DOMAIN put : mem'[s] = mem[s]
      /\ Live' = Live \cup DOMAIN put
      /\ MemoryExact'
  <2>1. MemoryExact /\ DOMAIN mem = Slots
    BY <1>2 DEF Owned
  <2> QED BY <1>4, <1>5, <2>1, StoreExact
<1>8. \A s \in DOMAIN put : put[s] # Null
  BY <1>5 DEF New
<1>9. MemInv'
  <2>1. \A s \in Live : OwnName(s) /\ MayLive(s) /\ s \in Slots /\ mem'[s] = mem[s]
    BY <1>2, <1>5, <1>7 DEF MemInv, Live
  <2>2. \A s \in Live : OwnName(s)'
    BY <1>1, <2>1 DEF OwnName, Origin, NumberAt
  <2>3. \A s \in Live : MayLive(s)'
    BY <1>1, <2>1 DEF MayLive, Prepare, Ended
  <2>4. ASSUME NEW s \in DOMAIN put PROVE OwnName(s)' /\ MayLive(s)'
    <3>1. mem'[s] = put[s]
      BY <1>7
    <3>2. CASE s = <<"response", 0>>
      BY <1>1, <1>5, <3>1, <3>2 DEF OwnName, Origin, NumberAt, NameAt, MayLive, StageSlots
    <3>3. ASSUME NEW n \in {"out", "err"}, s = <<n, 0>> PROVE OwnName(s)' /\ MayLive(s)'
      <4>1. mem'[s].id = <<n, stage>> /\ s[1] = n
        BY <1>5, <3>1, <3>3
      <4> QED BY <1>1, <4>1 DEF OwnName, Origin, NumberAt, NameAt, MayLive, StageSlots
    <3> QED BY <1>6, <3>2, <3>3
  <2> QED BY <1>7, <2>2, <2>3, <2>4 DEF MemInv
<1>10. ClientType'
  <2>1. status' \in Statuses
    BY <1>1 DEF Statuses, GiveUp
  <2> QED BY <1>1, <1>2, <2>1 DEF ClientType, Places, Prepare
<1>11. WorkerType' /\ WorkerInv'
  <2>1. WorkerType'
    BY <1>1, NoResultFacts DEF WorkerType, WorkerPlaces
  <2> QED BY <1>1, <2>1 DEF WorkerInv, Sending
<1>12. /\ mem'[<<"expanded", 0>>] = mem[<<"expanded", 0>>]
       /\ mem'[<<"arguments", 0>>] = mem[<<"arguments", 0>>]
       /\ \A k \in {1, 2} : mem'[<<"output", k>>] = mem[<<"output", k>>]
       /\ \A n \in {"log", "errlog"} : mem'[<<n, 0>>] = mem[<<n, 0>>]
  BY <1>6, <1>7, SlotNames DEF StageSlots, Stages
<1>13. PreparedInv'
  BY <1>1, <1>2, <1>12 DEF PreparedInv, Prepare, Ended
<1>14. \A k : Made(k)' = Made(k)
  BY <1>1, MadeSame
<1>15. (Whatever <=> Whatever') /\ ("oom" \in seen <=> "oom" \in seen')
  BY <1>1 DEF Whatever
<1>16. OutputInv'
  BY <1>1, <1>2, <1>12, <1>14, <1>15 DEF OutputInv, Holds, Ended
<1>17. LogInv'
  <2>1. \A n \in {"log", "errlog"} : Content(<<n, 0>>)' = Content(<<n, 0>>)
    BY <1>12 DEF Content
  <2>2. /\ printed \in Logs /\ <<stage>> \in Logs /\ stage \in Stages
        /\ \A n \in {"log", "errlog"} : Content(<<n, 0>>).what \in Logs
        /\ "oom" \notin seen => \A n \in {"log", "errlog"} : Content(<<n, 0>>).what = printed
    BY <1>1, <1>2 DEF LogInv, Logs, Stages
  <2>3. /\ printed' \in Logs
        /\ printed' = IF captured THEN printed \o <<stage>> ELSE printed \o <<>>
    <3>1. Logs = Seq(Stages)
      BY DEF Logs
    <3>2. Append(printed, stage) \in Logs /\ Append(printed, stage) = printed \o <<stage>>
      BY <2>2, <3>1, AppendProperties, AppendIsConcat
    <3>3. printed \o <<>> = printed
      BY <2>2, <3>1, ConcatEmptySeq
    <3> QED BY <1>4, <2>2, <3>2, <3>3
  <2>4. ASSUME NEW n \in {"out", "err"}
        PROVE  /\ Content(<<n, 0>>)'.what = IF captured THEN <<stage>> ELSE <<>>
               /\ Printed(<<n, 0>>)'
    <3>1. CASE captured
      <4>1. mem'[<<n, 0>>] # Null /\ mem'[<<n, 0>>].what = <<stage>>
        BY <1>5, <1>6, <1>7, <1>8, <3>1
      <4> QED BY <1>1, <3>1, <4>1 DEF Content, Printed
    <3>2. CASE ~captured
      <4>1. <<n, 0>> \in Slots /\ <<n, 0>> \notin DOMAIN put
        BY <1>6, <3>2, SlotNames
      <4>2. <<n, 0>> \notin Live
        BY <1>1, <1>2 DEF MemInv, MayLive
      <4>3. mem'[<<n, 0>>] = Null
        BY <1>2, <1>7, <4>1, <4>2 DEF MemInv, Live
      <4> QED BY <3>2, <4>3 DEF Content, Printed
    <3> QED BY <3>1, <3>2
  <2>5. "oom" \notin seen' =>
          /\ Content(<<"log", 0>>)'.what \o Content(<<"out", 0>>)'.what = printed'
          /\ Content(<<"errlog", 0>>)'.what \o Content(<<"err", 0>>)'.what = printed'
    BY <1>15, <2>1, <2>2, <2>3, <2>4
  <2> QED BY <1>1, <2>1, <2>2, <2>3, <2>4, <2>5 DEF LogInv
<1>18. FailureInv' /\ RequestInv'
  BY <1>1 DEF FailureInv, RequestInv, Prepare, Ended
<1>19. ResponseInv'
  <2> SUFFICES ASSUME status' = "OK" PROVE ResponseInv'
    BY DEF ResponseInv
  <2>1. wpc = "exited" /\ exit = 0
    BY <1>1 DEF GiveUp
  <2>2. sent = Whole /\ sent > 0 /\ Genuine(wresult)
    <3>1. sent = Whole /\ Genuine(wresult)
      BY <1>2, <2>1 DEF WorkerType, WorkerInv
    <3>2. Whole > 0
      BY <1>2, WholeNat DEF Whole, Header
    <3> QED BY <3>1, <3>2
  <2>3. mem'[<<"response", 0>>] # Null /\ mem'[<<"response", 0>>].what = Response
    BY <1>5, <1>6, <1>7, <1>8, <2>2
  <2>4. PICK answer : answer = Response
    OBVIOUS
  <2>5. /\ answer.status = wresult.status /\ answer.ret = wresult.ret
        /\ answer.size = wresult.size /\ answer.what = wresult.what
    BY <2>4 DEF Response
  <2>6. Genuine(answer)'
    BY <1>1, <1>14, <1>15, <2>2, <2>5 DEF Genuine
  <2>7. "failed" \in seen' => answer.status # "OK" \/ answer.ret # 0
    BY <1>1, <1>2, <2>5
  <2>8. answer \in Responses /\ mem'[<<"response", 0>>].what = answer
    BY <1>5, <2>3, <2>4
  <2>9. Genuine(mem[<<"response", 0>>].what)'
    BY <2>6, <2>8 DEF Genuine
  <2> QED BY <2>3, <2>7, <2>8, <2>9 DEF ResponseInv
<1> QED BY <1>9, <1>10, <1>11, <1>13, <1>16, <1>17, <1>18, <1>19 DEF IInv

----------------------------------------------------------------------------
(* What a stage leaves *)

(* The copies out of a response. *)
Copied(put) ==
  /\ DOMAIN put \subseteq {<<"output", stage>>, <<"message", stage>>}
  /\ \A s \in DOMAIN put : put[s] # Null /\ put[s].id = s
  /\ <<"output", stage>> \in DOMAIN put =>
       put[<<"output", stage>>].what \in Texts /\ put[<<"output", stage>>].size \in Nat

LEMMA NothingCopied == Copied(NoNew) /\ DOMAIN NoNew = {}
BY DEF Copied, NoNew

LEMMA CopiesFacts ==
  ASSUME NEW r \in Responses, stage \in Stages
  PROVE  /\ Copied(Copies(r))
         /\ r.size > 0 => /\ <<"output", stage>> \in DOMAIN Copies(r)
                          /\ Copies(r)[<<"output", stage>>].what = r.what
                          /\ Copies(r)[<<"output", stage>>].size = r.size
<1> PICK put : put = Copies(r)
  OBVIOUS
<1> DEFINE SizeOf(s) == IF s[1] = "output" THEN r.size ELSE r.diagnostic
           D == {t \in {"output", "message"} \X {stage} : SizeOf(t) > 0}
<1>1. /\ DOMAIN put = D
      /\ \A s \in D : put[s] = Block(s, IF s[1] = "output" THEN r.what ELSE "message", SizeOf(s))
  BY DEF Copies
<1>2. r.what \in Texts /\ r.size \in Nat /\ r.diagnostic \in {0, 1} /\ r.diagnostic \in Nat
  BY DEF Responses
<1>3. D \subseteq {<<"output", stage>>, <<"message", stage>>}
  OBVIOUS
<1>4. r.size > 0 => <<"output", stage>> \in D
  OBVIOUS
<1>5. "output" \in Names /\ "message" \in Names /\ stage \in Nat /\ r.what \in Whats /\ "message" \in Whats
  BY <1>2 DEF Names, Stages, Whats
<1>6. <<"output", stage>> \in D =>
        put[<<"output", stage>>] = Block(<<"output", stage>>, r.what, r.size)
  BY <1>1
<1>7. <<"message", stage>> \in D =>
        put[<<"message", stage>>] = Block(<<"message", stage>>, "message", r.diagnostic)
  BY <1>1
<1> HIDE DEF D
<1>8. <<"output", stage>> \in D =>
        /\ put[<<"output", stage>>] # Null /\ put[<<"output", stage>>].id = <<"output", stage>>
        /\ put[<<"output", stage>>].what = r.what /\ put[<<"output", stage>>].size = r.size
  <2>1. /\ Block(<<"output", stage>>, r.what, r.size) # Null
        /\ Block(<<"output", stage>>, r.what, r.size).id = <<"output", stage>>
        /\ Block(<<"output", stage>>, r.what, r.size).what = r.what
        /\ Block(<<"output", stage>>, r.what, r.size).size = r.size
    BY <1>2, <1>5, BlockFacts
  <2> QED BY <1>6, <2>1
<1>9. <<"message", stage>> \in D =>
        put[<<"message", stage>>] # Null /\ put[<<"message", stage>>].id = <<"message", stage>>
  <2>1. /\ Block(<<"message", stage>>, "message", r.diagnostic) # Null
        /\ Block(<<"message", stage>>, "message", r.diagnostic).id = <<"message", stage>>
    BY <1>2, <1>5, BlockFacts
  <2> QED BY <1>7, <2>1
<1>10. Copied(put)
  BY <1>1, <1>2, <1>3, <1>8, <1>9 DEF Copied
<1> QED BY <1>1, <1>4, <1>8, <1>10

Handed == [s \in {"stdout", "stderr"} \X {stage} |->
             IF s[1] = "stdout" THEN <<"out", 0>> ELSE <<"err", 0>>]
Over   == {"request", "response"} \X {0}

LEMMA HandedFacts ==
  /\ DOMAIN Handed = {<<"stdout", stage>>, <<"stderr", stage>>}
  /\ Handed[<<"stdout", stage>>] = <<"out", 0>> /\ Handed[<<"stderr", stage>>] = <<"err", 0>>
  /\ Sources(Handed) = {<<"out", 0>>, <<"err", 0>>}
  /\ Over = {<<"request", 0>>, <<"response", 0>>}
<1>1. DOMAIN Handed = {<<"stdout", stage>>, <<"stderr", stage>>}
  BY DEF Handed
<1>2. Handed[<<"stdout", stage>>] = <<"out", 0>> /\ Handed[<<"stderr", stage>>] = <<"err", 0>>
  BY DEF Handed
<1>3. Sources(Handed) = {<<"out", 0>>, <<"err", 0>>}
  BY <1>1, <1>2 DEF Sources
<1> QED BY <1>1, <1>2, <1>3 DEF Over

(* Where everything is after a stage. *)
LEMMA LeaveOwned ==
  ASSUME IInv, pc = "ran", pc' = "stdout", stage' = stage, NEW put, Copied(put),
         Move(Handed, put, Over)
  PROVE  /\ MemInv'
         /\ mem'[<<"stdout", stage>>] = mem[<<"out", 0>>]
         /\ mem'[<<"stderr", stage>>] = mem[<<"err", 0>>]
         /\ \A s \in DOMAIN put : mem'[s] = put[s]
         /\ \A n \in {"expanded", "arguments", "log", "errlog"} : mem'[<<n, 0>>] = mem[<<n, 0>>]
         /\ \A k \in {1, 2} : <<"output", k>> \notin DOMAIN put =>
              mem'[<<"output", k>>] = mem[<<"output", k>>]
<1>1. MemInv /\ MemoryExact /\ DOMAIN mem = Slots /\ stage \in Stages
  BY DEF IInv, MemInv, ClientType
<1>2. /\ DOMAIN put \subseteq {<<"output", stage>>, <<"message", stage>>}
      /\ \A s \in DOMAIN put : put[s] # Null /\ put[s].id = s
  BY DEF Copied
<1>3. /\ DOMAIN Handed = {<<"stdout", stage>>, <<"stderr", stage>>}
      /\ Handed[<<"stdout", stage>>] = <<"out", 0>> /\ Handed[<<"stderr", stage>>] = <<"err", 0>>
      /\ Sources(Handed) = {<<"out", 0>>, <<"err", 0>>}
      /\ Over = {<<"request", 0>>, <<"response", 0>>}
  BY HandedFacts
<1>4. \A t \in Live : t \in Slots /\ OwnName(t) /\ MayLive(t)
  BY <1>1 DEF MemInv, Live
<1>5. \A n \in StageSlots : <<n, stage>> \in Slots /\ <<n, stage>> \notin Live
  <2> SUFFICES ASSUME NEW n \in StageSlots PROVE <<n, stage>> \in Slots /\ ~MayLive(<<n, stage>>)
    BY <1>4
  <2>1. <<n, stage>> \in Slots
    BY <1>1, SlotNames
  <2>2. ~(stage < stage)
    BY <1>1 DEF Stages
  <2> QED BY <2>1, <2>2 DEF MayLive
<1>6. ASSUME NEW s \in DOMAIN put, NEW t \in Live PROVE put[s].id # mem[t].id
  <2>1. put[s].id \in {<<"output", stage>>, <<"message", stage>>}
    BY <1>2
  <2>2. t \in Slots /\ OwnName(t) /\ t[1] # "elf" /\ t # <<"output", stage>> /\ t # <<"message", stage>>
    BY <1>4, <1>5 DEF MayLive, Ended, StageSlots
  <2>3. t = <<t[1], t[2]>>
    BY <2>2, SlotFacts
  <2>4. CASE t[1] \in {"log", "errlog"}
    <3>1. mem[t].id[1] = t[1]
      BY <2>2, <2>4 DEF OwnName
    <3> QED BY <2>1, <2>4, <3>1
  <2>5. CASE t[1] \notin {"log", "errlog"}
    <3>1. mem[t].id = <<NameAt(t), NumberAt(t)>>
      BY <2>2, <2>5 DEF OwnName, Origin
    <3>2. CASE t[1] \in {"output", "message"}
      <4>1. NumberAt(t) = t[2] /\ NameAt(t) = t[1]
        BY <3>2 DEF NumberAt, NameAt
      <4> QED BY <2>1, <2>2, <2>3, <3>1, <4>1
    <3>3. CASE t[1] \notin {"output", "message"}
      <4>1. NameAt(t) \notin {"output", "message"}
        BY <2>2, <3>3 DEF NameAt
      <4> QED BY <2>1, <3>1, <4>1
    <3> QED BY <3>2, <3>3
  <2> QED BY <2>4, <2>5
<1>7. \A n \in StageSlots : <<n, stage>> \in DOMAIN mem /\ mem[<<n, stage>>] = Null
  BY <1>1, <1>5 DEF Live
<1>8. New(put, Over)
  <2>1. \A s \in DOMAIN put : s \in DOMAIN mem /\ mem[s] = Null
    BY <1>2, <1>7 DEF StageSlots
  <2>2. \A s, t \in DOMAIN put : put[s].id = put[t].id => s = t
    BY <1>2
  <2> QED BY <1>2, <1>6, <2>1, <2>2 DEF New
<1>9. Moved(Handed, put, Over)
  <2>1. <<"out", 0>> \in DOMAIN mem /\ <<"err", 0>> \in DOMAIN mem
    BY <1>1, SlotNames
  <2>2. \A s \in DOMAIN Handed : s \in DOMAIN mem /\ mem[s] = Null
    BY <1>3, <1>7 DEF StageSlots
  <2>3. \A s \in DOMAIN Handed : Handed[s] \in {<<"out", 0>>, <<"err", 0>>}
    BY <1>3
  <2>4. \A s \in DOMAIN Handed : s \notin DOMAIN put \cup Over
    BY <1>2, <1>3
  <2>5. <<"out", 0>> \notin DOMAIN put \cup Over \cup DOMAIN Handed
        /\ <<"err", 0>> \notin DOMAIN put \cup Over \cup DOMAIN Handed
    BY <1>2, <1>3
  <2>6. \A s, t \in DOMAIN Handed : Handed[s] = Handed[t] => s = t
    BY <1>3
  <2> QED BY <2>1, <2>2, <2>3, <2>4, <2>5, <2>6 DEF Moved
<1>10. /\ DOMAIN mem' = DOMAIN mem
       /\ \A s \in DOMAIN put : mem'[s] = put[s]
       /\ \A s \in DOMAIN Handed : mem'[s] = mem[Handed[s]]
       /\ \A s \in DOMAIN mem \ (DOMAIN put \cup Over \cup DOMAIN Handed \cup Sources(Handed)) :
            mem'[s] = mem[s]
       /\ Live' = (Live \ (Over \cup Sources(Handed))) \cup DOMAIN put
                     \cup {s \in DOMAIN Handed : mem[Handed[s]] # Null}
       /\ MemoryExact'
  BY <1>1, <1>8, <1>9, MoveExact
<1>11. /\ mem'[<<"stdout", stage>>] = mem[<<"out", 0>>]
       /\ mem'[<<"stderr", stage>>] = mem[<<"err", 0>>]
  BY <1>3, <1>10
<1>12. \A n \in {"expanded", "arguments", "log", "errlog"} : mem'[<<n, 0>>] = mem[<<n, 0>>]
  BY <1>1, <1>2, <1>3, <1>10, SlotNames
<1>13. \A k \in {1, 2} : <<"output", k>> \notin DOMAIN put =>
         mem'[<<"output", k>>] = mem[<<"output", k>>]
  BY <1>1, <1>3, <1>10, SlotNames DEF StageSlots, Stages
<1>14. \A s \in Live' : OwnName(s)' /\ MayLive(s)'
  <2>1. ASSUME NEW s \in Live \ (Over \cup Sources(Handed)) PROVE OwnName(s)' /\ MayLive(s)'
    <3>1. s \in Slots /\ OwnName(s) /\ MayLive(s) /\ s = <<s[1], s[2]>>
          /\ s \notin DOMAIN put \cup DOMAIN Handed
      BY <1>2, <1>3, <1>4, <1>5, SlotFacts DEF StageSlots
    <3>2. mem'[s] = mem[s]
      BY <1>1, <1>10, <3>1
    <3>3. s[1] \notin {"request", "response", "out", "err", "diagnostic", "elf"}
      <4>1. s[1] \in {"request", "response", "out", "err"} => s[2] = 0
        BY <3>1, SlotFacts
      <4>2. s[1] \notin {"diagnostic", "elf"}
        BY <3>1 DEF MayLive, Ended
      <4> QED BY <1>3, <3>1, <4>1, <4>2
    <3>4. OwnName(s)'
      BY <3>1, <3>2 DEF OwnName, Origin, NumberAt
    <3>5. MayLive(s)'
      BY <3>1, <3>3 DEF MayLive, Prepare, StageSlots
    <3> QED BY <3>4, <3>5
  <2>2. ASSUME NEW s \in DOMAIN put PROVE OwnName(s)' /\ MayLive(s)'
    <3>1. mem'[s].id = s /\ s \in {<<"output", stage>>, <<"message", stage>>}
      BY <1>2, <1>10
    <3>2. s[1] \in {"output", "message"} /\ s[2] = stage /\ s = <<s[1], s[2]>>
      BY <3>1
    <3>3. OwnName(s)'
      BY <3>1, <3>2 DEF OwnName, Origin, NumberAt, NameAt
    <3>4. MayLive(s)'
      BY <3>2 DEF MayLive, Prepare, StageSlots
    <3> QED BY <3>3, <3>4
  <2>3. ASSUME NEW s \in DOMAIN Handed, mem[Handed[s]] # Null PROVE OwnName(s)' /\ MayLive(s)'
    <3>1. s[1] \in {"stdout", "stderr"} /\ s[2] = stage
      BY <1>3
    <3>2. Handed[s] \in Live /\ Handed[s] = IF s[1] = "stdout" THEN <<"out", 0>> ELSE <<"err", 0>>
      BY <1>1, <1>3, <2>3, SlotNames DEF Live
    <3>3. mem[Handed[s]].id = <<IF s[1] = "stdout" THEN "out" ELSE "err", stage>>
      BY <1>4, <3>1, <3>2 DEF OwnName, Origin, NameAt, NumberAt
    <3>4. mem'[s].id = <<IF s[1] = "stdout" THEN "out" ELSE "err", stage>>
      BY <1>10, <3>3
    <3>5. OwnName(s)'
      BY <3>1, <3>4 DEF OwnName, Origin, NumberAt, NameAt
    <3>6. MayLive(s)'
      BY <3>1 DEF MayLive, Prepare, StageSlots
    <3> QED BY <3>5, <3>6
  <2> QED BY <1>10, <2>1, <2>2, <2>3
<1>15. MemInv'
  BY <1>1, <1>10, <1>14 DEF MemInv
<1> QED BY <1>10, <1>11, <1>12, <1>13, <1>15

LEMMA StageLeft ==
  ASSUME IInv, pc = "ran", pc' = "stdout", UNCHANGED <<options, stage, item, worker, printed>>,
         NEW put, Copied(put), Move(Handed, put, Over),
         status' \in Statuses, seen' \in {seen, seen \cup {"oom"}},
         status' = "OK" =>
           /\ "failed" \notin seen'
           /\ Whatever \/ (/\ <<"output", stage>> \in DOMAIN put
                           /\ put[<<"output", stage>>].what = Made(stage))
  PROVE  IInv'
<1>1. /\ ClientType /\ WorkerType /\ PreparedInv /\ OutputInv /\ LogInv /\ FailureInv /\ stage \in Stages
  BY DEF IInv, ClientType
<1>2. /\ MemInv'
      /\ mem'[<<"stdout", stage>>] = mem[<<"out", 0>>]
      /\ mem'[<<"stderr", stage>>] = mem[<<"err", 0>>]
      /\ \A s \in DOMAIN put : mem'[s] = put[s]
      /\ \A n \in {"expanded", "arguments", "log", "errlog"} : mem'[<<n, 0>>] = mem[<<n, 0>>]
      /\ \A k \in {1, 2} : <<"output", k>> \notin DOMAIN put =>
           mem'[<<"output", k>>] = mem[<<"output", k>>]
  BY LeaveOwned
<1>3. WorkerType' /\ WorkerInv'
  BY <1>1, NoWorkerYet
<1>4. ClientType'
  BY <1>1 DEF ClientType, Places, Prepare
<1>5. PreparedInv'
  BY <1>1, <1>2 DEF PreparedInv, Prepare, Ended
<1>6. Whatever => Whatever'
  BY DEF Whatever
<1>7. \A k : Made(k)' = Made(k)
  BY MadeSame
<1>8. OutputInv'
  <2>1. <<"output", stage>> \in DOMAIN put =>
          /\ mem'[<<"output", stage>>] = put[<<"output", stage>>]
          /\ put[<<"output", stage>>] # Null
          /\ put[<<"output", stage>>].what \in Texts /\ put[<<"output", stage>>].size \in Nat
    BY <1>2 DEF Copied
  <2>2. status' = "OK" => Whatever' \/ Holds(<<"output", stage>>, stage)'
    BY <1>6, <1>7, <2>1 DEF Holds
  <2>3. ASSUME NEW k \in {1, 2}, mem'[<<"output", k>>] # Null
        PROVE  mem'[<<"output", k>>].what \in Texts /\ mem'[<<"output", k>>].size \in Nat
    <3>1. CASE <<"output", k>> \in DOMAIN put
      <4>1. k = stage
        BY <3>1 DEF Copied
      <4> QED BY <2>1, <3>1, <4>1
    <3>2. CASE <<"output", k>> \notin DOMAIN put
      BY <1>1, <1>2, <2>3, <3>2 DEF OutputInv
    <3> QED BY <3>1, <3>2
  <2> QED BY <2>2, <2>3 DEF OutputInv, Ended
<1>9. LogInv'
  <2>1. \A n \in {"log", "errlog"} : Content(<<n, 0>>)' = Content(<<n, 0>>)
    BY <1>2 DEF Content
  <2>2. /\ Content(<<"stdout", stage>>)' = Content(<<"out", 0>>)
        /\ Content(<<"stderr", stage>>)' = Content(<<"err", 0>>)
    BY <1>2 DEF Content
  <2>3. /\ Printed(<<"out", 0>>) /\ Printed(<<"err", 0>>)
        /\ "oom" \notin seen =>
             /\ Content(<<"log", 0>>).what \o Content(<<"out", 0>>).what = printed
             /\ Content(<<"errlog", 0>>).what \o Content(<<"err", 0>>).what = printed
    BY <1>1 DEF LogInv
  <2>4. Printed(<<"stdout", stage>>)' /\ Printed(<<"stderr", stage>>)'
    BY <1>2, <2>3 DEF Printed
  <2>5. printed' = printed /\ printed \in Logs
        /\ \A n \in {"log", "errlog"} : Content(<<n, 0>>).what \in Logs
    BY <1>1 DEF LogInv
  <2>6. "oom" \notin seen' =>
          /\ Content(<<"log", 0>>)'.what \o Content(<<"stdout", stage>>)'.what = printed'
          /\ Content(<<"errlog", 0>>)'.what \o Content(<<"stderr", stage>>)'.what = printed'
    BY <2>1, <2>2, <2>3, <2>5
  <2> QED BY <2>1, <2>4, <2>5, <2>6 DEF LogInv
<1>10. FailureInv'
  BY <1>1 DEF FailureInv, Prepare, Ended
<1>11. RequestInv' /\ ResponseInv'
  BY DEF RequestInv, ResponseInv
<1> QED BY <1>2, <1>3, <1>4, <1>5, <1>8, <1>9, <1>10, <1>11 DEF IInv

LEMMA StageReturnsIInv == IInv /\ StageReturns => IInv'
<1> SUFFICES ASSUME IInv, StageReturns PROVE IInv'
  OBVIOUS
<1>1. /\ pc = "ran" /\ pc' = "stdout" /\ UNCHANGED <<options, stage, item, worker, printed>>
      /\ ClientType /\ ResponseInv /\ FailureInv /\ stage \in Stages /\ status \in Statuses
  BY DEF StageReturns, IInv, ClientType
<1>2. PICK r : r = mem[<<"response", 0>>].what
  OBVIOUS
<1>3. \/ /\ Move(Handed, NoNew, Over)
         /\ \/ status # "OK" /\ UNCHANGED <<status, seen>>
            \/ status' = "TOOL_FAILED" /\ UNCHANGED seen
            \/ status' = "OUT_OF_MEMORY" /\ seen' = seen \cup {"oom"}
      \/ /\ status = "OK" /\ Move(Handed, Copies(r), Over)
         /\ status' = Verdict(r) /\ UNCHANGED seen
  BY <1>2 DEF StageReturns, Handed, Over
<1>4. CASE /\ Move(Handed, NoNew, Over)
           /\ \/ status # "OK" /\ UNCHANGED <<status, seen>>
              \/ status' = "TOOL_FAILED" /\ UNCHANGED seen
              \/ status' = "OUT_OF_MEMORY" /\ seen' = seen \cup {"oom"}
  <2>1. status' \in Statuses \ {"OK"} /\ seen' \in {seen, seen \cup {"oom"}}
    BY <1>1, <1>4 DEF Statuses
  <2> QED BY <1>1, <1>4, <2>1, NothingCopied, StageLeft
<1>5. CASE /\ status = "OK" /\ Move(Handed, Copies(r), Over)
           /\ status' = Verdict(r) /\ UNCHANGED seen
  <2>1. /\ r \in Responses /\ Genuine(r)
        /\ "failed" \in seen => r.status # "OK" \/ r.ret # 0
    BY <1>1, <1>2, <1>5 DEF ResponseInv
  <2>2. PICK put : put = Copies(r)
    OBVIOUS
  <2>3. /\ Copied(put)
        /\ r.size > 0 => /\ <<"output", stage>> \in DOMAIN put
                         /\ put[<<"output", stage>>].what = r.what
    BY <1>1, <2>1, <2>2, CopiesFacts
  <2>4. status' \in Statuses /\ (status' = "OK" => r.status = "OK" /\ r.ret = 0)
    BY <1>5 DEF Verdict, Statuses
  <2>5. status' = "OK" =>
          /\ "failed" \notin seen'
          /\ Whatever \/ (/\ <<"output", stage>> \in DOMAIN put
                          /\ put[<<"output", stage>>].what = Made(stage))
    BY <1>5, <2>1, <2>3, <2>4 DEF Genuine
  <2>6. Move(Handed, put, Over)
    BY <1>5, <2>2
  <2> QED BY <1>1, <1>5, <2>3, <2>4, <2>5, <2>6, StageLeft
<1> QED BY <1>3, <1>4, <1>5

(* The new text of a log. *)
LEMMA CombinedFacts ==
  ASSUME LogInv, stage \in Stages, pc \in {"stdout", "stderr"}, mem[<<pc, stage>>] # Null
  PROVE  /\ Combined = Content(<<LogOf, 0>>).what \o <<stage>>
         /\ Combined \in Logs /\ Len(Combined) \in Nat /\ LogOf \in {"log", "errlog"}
<1>1. LogOf \in {"log", "errlog"} /\ mem[<<pc, stage>>].what = <<stage>>
  <2>1. LogOf \in {"log", "errlog"}
    BY DEF LogOf
  <2>2. CASE pc = "stdout"
    BY <2>1, <2>2 DEF LogInv, Printed
  <2>3. CASE pc = "stderr"
    BY <2>1, <2>3 DEF LogInv, Printed
  <2> QED BY <2>2, <2>3
<1>2. Content(<<LogOf, 0>>).what \in Logs /\ <<stage>> \in Logs
  <2>1. \A n \in {"log", "errlog"} : Content(<<n, 0>>).what \in Logs
    BY DEF LogInv
  <2>2. <<stage>> \in Logs
    BY DEF Logs
  <2> QED BY <1>1, <2>1, <2>2
<1>3. Combined = Content(<<LogOf, 0>>).what \o <<stage>>
  BY <1>1 DEF Combined
<1> HIDE DEF Combined
<1>4. Combined \in Seq(Stages)
  BY <1>2, <1>3, ConcatProperties DEF Logs
<1>5. Len(Combined) \in Nat
  BY <1>4, LenProperties
<1> QED BY <1>1, <1>3, <1>4, <1>5 DEF Logs

(* A log is replaced by a longer one. *)
LEMMA LogGrows ==
  ASSUME Owned, stage' = stage, stage \in Stages, NEW name \in {"log", "errlog"}, NEW text \in Logs,
         Store([s \in {<<name, 0>>} |-> Block(<<name, stage>>, text, Len(text))], {<<name, 0>>})
  PROVE  /\ Owned' /\ Live' = Live \cup {<<name, 0>>}
         /\ \A s \in Slots \ {<<name, 0>>} : mem'[s] = mem[s]
         /\ mem'[<<name, 0>>] # Null /\ mem'[<<name, 0>>].what = text
<1> DEFINE put == [s \in {<<name, 0>>} |-> Block(<<name, stage>>, text, Len(text))]
<1> PICK slot : slot = <<name, 0>>
  OBVIOUS
<1>1. DOMAIN put = {slot} /\ put[slot] = Block(<<name, stage>>, text, Len(text))
  OBVIOUS
<1>2. Store(put, {slot})
  OBVIOUS
<1> HIDE DEF put
<1>3. slot \in Slots /\ slot[1] = name
  BY SlotNames
<1>4. put[slot] # Null /\ put[slot].what = text /\ put[slot].id = <<name, stage>>
  <2>1. name \in Names /\ stage \in Nat /\ text \in Whats /\ Len(text) \in Nat
    BY LenProperties DEF Names, Stages, Whats, Logs
  <2> QED BY <1>1, <2>1, BlockFacts
<1>5. \A t \in Live : t \in Slots /\ OwnName(t)
  BY DEF Owned, Live
<1>6. ASSUME NEW t \in Live \ {slot} PROVE mem[t].id # <<name, stage>>
  <2>1. t \in Slots /\ OwnName(t) /\ t = <<t[1], t[2]>>
        /\ (t[1] \in {"log", "errlog"} => t[2] = 0)
    BY <1>5, SlotFacts
  <2>2. t[1] # name
    BY <2>1
  <2>3. CASE t[1] \in {"log", "errlog"}
    <3>1. mem[t].id[1] = t[1]
      BY <2>1, <2>3 DEF OwnName
    <3> QED BY <2>2, <3>1
  <2>4. CASE t[1] \notin {"log", "errlog"}
    <3>1. mem[t].id = <<NameAt(t), NumberAt(t)>>
      BY <2>1, <2>4 DEF OwnName, Origin
    <3>2. NameAt(t) \notin {"log", "errlog"}
      BY <2>4 DEF NameAt
    <3> QED BY <3>1, <3>2
  <2> QED BY <2>3, <2>4
<1>7. New(put, {slot})
  BY <1>1, <1>3, <1>4, <1>6 DEF New, Owned
<1>8. /\ DOMAIN mem' = DOMAIN mem
      /\ \A s \in DOMAIN put : mem'[s] = put[s]
      /\ \A s \in DOMAIN mem \ (DOMAIN put \cup {slot}) : mem'[s] = mem[s]
      /\ Live' = (Live \ {slot}) \cup DOMAIN put
      /\ MemoryExact'
  BY <1>2, <1>7, StoreExact DEF Owned
<1>9. Live' = Live \cup {slot}
  BY <1>1, <1>8
<1>10. \A s \in Slots \ {slot} : mem'[s] = mem[s]
  BY <1>1, <1>8 DEF Owned
<1>11. \A s \in Live \ {slot} : OwnName(s)'
  BY <1>5, <1>10 DEF OwnName, Origin, NumberAt
<1>12. OwnName(slot)'
  BY <1>1, <1>3, <1>4, <1>8 DEF OwnName
<1> QED BY <1>1, <1>4, <1>8, <1>9, <1>10, <1>11, <1>12 DEF Owned

LEMMA CollectLogIInv == IInv /\ CollectLog => IInv'
<1> SUFFICES ASSUME IInv, CollectLog PROVE IInv'
  OBVIOUS
<1>1. /\ pc \in {"stdout", "stderr"} /\ UNCHANGED <<options, stage, item, worker, printed>>
      /\ ClientType /\ WorkerType /\ MemInv /\ Owned /\ PreparedInv /\ OutputInv /\ LogInv
      /\ FailureInv /\ stage \in Stages
  BY DEF CollectLog, IInv, MemInv, Owned, ClientType
<1>2. CASE /\ \/ Allocate(Diagnostic, "OUT_OF_MEMORY", 1)
              \/ UNCHANGED <<mem, heap>>
           /\ status' = "OUT_OF_MEMORY" /\ seen' = seen \cup {"oom"}
           /\ pc' = "done"
  <2>1. Fails("OUT_OF_MEMORY") /\ "OUT_OF_MEMORY" \in Statuses \ {"OK"}
    BY <1>2 DEF Fails, Statuses
  <2> QED BY <1>1, <1>2, <2>1, EndsBadly
<1>3. CASE /\ IF mem[<<pc, stage>>] = Null
                THEN UNCHANGED <<mem, heap>>
                ELSE Store([s \in {<<LogOf, 0>>} |-> Block(<<LogOf, stage>>, Combined, Len(Combined))],
                           {<<LogOf, 0>>})
           /\ pc' = IF pc = "stdout" THEN "stderr" ELSE "check"
           /\ UNCHANGED <<status, seen>>
  <2> PICK name : name = LogOf
    OBVIOUS
  <2> PICK slot : slot = <<name, 0>>
    OBVIOUS
  <2> PICK added : added = <<pc, stage>>
    OBVIOUS
  <2>1. /\ name = (IF pc = "stdout" THEN "log" ELSE "errlog") /\ name \in {"log", "errlog"}
        /\ slot \in Slots /\ slot[1] = name
    BY SlotNames DEF LogOf
  <2>2. Content(slot).what \in Seq(Stages) /\ Content(slot).what \in Logs
    BY <1>1, <2>1 DEF LogInv, Logs
  <2>3. /\ Owned' /\ Live' \subseteq Live \cup {slot}
        /\ \A s \in Slots \ {slot} : mem'[s] = mem[s]
        /\ Content(slot)'.what = Content(slot).what \o Content(added).what
        /\ Content(slot)'.what \in Logs
    <3>1. CASE mem[added] = Null
      <4>1. Owned' /\ Live' = Live /\ mem' = mem
        BY <1>1, <1>3, <3>1, SameOwned
      <4>2. Content(added).what = <<>>
        BY <3>1 DEF Content
      <4>3. Content(slot).what \o <<>> = Content(slot).what
        BY <2>2, ConcatEmptySeq
      <4>4. Content(slot)' = Content(slot)
        BY <4>1 DEF Content
      <4> QED BY <2>2, <4>1, <4>2, <4>3, <4>4
    <3>2. CASE mem[added] # Null
      <4>1. /\ Combined = Content(slot).what \o <<stage>> /\ Combined \in Logs
            /\ Content(added).what = <<stage>>
        <5>1. /\ Combined = Content(slot).what \o <<stage>> /\ Combined \in Logs
              /\ Combined = Content(slot).what \o mem[added].what
          BY <1>1, <3>2, CombinedFacts DEF Combined
        <5>2. mem[added].what = <<stage>>
          <6>1. CASE pc = "stdout"
            BY <1>1, <3>2, <6>1 DEF LogInv, Printed
          <6>2. CASE pc = "stderr"
            BY <1>1, <3>2, <6>2 DEF LogInv, Printed
          <6> QED BY <1>1, <6>1, <6>2
        <5> QED BY <3>2, <5>1, <5>2 DEF Content
      <4>2. PICK text : text = Combined
        OBVIOUS
      <4>3. Store([s \in {<<name, 0>>} |-> Block(<<name, stage>>, text, Len(text))], {<<name, 0>>})
        BY <1>3, <3>2, <4>2
      <4>4. text \in Logs
        BY <4>1, <4>2
      <4>5. /\ Owned' /\ Live' = Live \cup {slot}
            /\ \A s \in Slots \ {slot} : mem'[s] = mem[s]
            /\ mem'[slot] # Null /\ mem'[slot].what = text
        BY <1>1, <2>1, <4>3, <4>4, LogGrows
      <4>6. Content(slot)'.what = text
        BY <4>5 DEF Content
      <4> QED BY <4>1, <4>2, <4>5, <4>6
    <3> QED BY <3>1, <3>2
  <2>4. pc' \in {"stderr", "check"} /\ (pc' = "stderr" <=> pc = "stdout")
    BY <1>1, <1>3
  <2>5. MemInv'
    <3>1. \A s \in Live : MayLive(s)
      BY <1>1 DEF MemInv
    <3>2. \A s \in Live : MayLive(s)'
      BY <1>1, <1>3, <2>4, <3>1 DEF MayLive, Prepare, Ended
    <3>3. MayLive(slot)'
      BY <2>1, <2>4 DEF MayLive, Prepare, StageSlots
    <3> QED BY <2>3, <3>2, <3>3 DEF MemInv, Owned
  <2>6. ClientType'
    BY <1>1, <1>3, <2>4 DEF ClientType, Places, Prepare
  <2>7. WorkerType' /\ WorkerInv'
    BY <1>1, <2>4, NoWorkerYet
  <2>8. /\ mem'[<<"expanded", 0>>] = mem[<<"expanded", 0>>]
        /\ mem'[<<"arguments", 0>>] = mem[<<"arguments", 0>>]
        /\ \A k \in Stages : \A n \in StageSlots : mem'[<<n, k>>] = mem[<<n, k>>]
        /\ \A n \in {"log", "errlog"} : n # name => mem'[<<n, 0>>] = mem[<<n, 0>>]
        /\ mem'[Diagnostic] = mem[Diagnostic]
    BY <2>1, <2>3, SlotNames DEF StageSlots, Diagnostic
  <2>9. PreparedInv'
    BY <1>1, <2>4, <2>8 DEF PreparedInv, Prepare, Ended
  <2>10. OutputInv'
    <3>1. \A k : Made(k)' = Made(k)
      BY <1>1, MadeSame
    <3>2. Whatever' <=> Whatever
      BY <1>3 DEF Whatever
    <3>3. \A k \in Stages : mem'[<<"output", k>>] = mem[<<"output", k>>]
      BY <2>8 DEF StageSlots
    <3>4. status' = "OK" => Whatever' \/ Holds(<<"output", stage>>, stage)'
      <4>1. status' = "OK" => Whatever \/ Holds(<<"output", stage>>, stage)
        BY <1>1, <1>3 DEF OutputInv
      <4> QED BY <1>1, <3>1, <3>2, <3>3, <4>1 DEF Holds
    <3>5. \A k \in {1, 2} : mem'[<<"output", k>>] # Null =>
            mem'[<<"output", k>>].what \in Texts /\ mem'[<<"output", k>>].size \in Nat
      BY <1>1, <3>3 DEF OutputInv, Stages
    <3> QED BY <2>4, <3>4, <3>5 DEF OutputInv, Ended
  <2>11. FailureInv' /\ RequestInv' /\ ResponseInv'
    BY <1>1, <1>3, <2>4 DEF FailureInv, RequestInv, ResponseInv, Prepare, Ended
  <2>12. LogInv'
    <3>1. \A n \in {"log", "errlog"} : n # name => Content(<<n, 0>>)' = Content(<<n, 0>>)
      BY <2>8 DEF Content
    <3>2. Content(<<"stderr", stage>>)' = Content(<<"stderr", stage>>)
      BY <1>1, <2>8 DEF Content, StageSlots
    <3>3. /\ printed' = printed /\ seen' = seen /\ printed \in Logs
          /\ \A n \in {"log", "errlog"} : Content(<<n, 0>>).what \in Logs
      BY <1>1, <1>3 DEF LogInv
    <3>4. \A n \in {"log", "errlog"} : Content(<<n, 0>>)'.what \in Logs
      BY <2>3, <3>1, <3>3
    <3>5. CASE pc = "stdout"
      <4>1. name = "log" /\ pc' = "stderr" /\ added = <<"stdout", stage>>
        BY <2>1, <2>4, <3>5
      <4>2. /\ Printed(<<"stderr", stage>>)
            /\ "oom" \notin seen =>
                 /\ Content(<<"log", 0>>).what \o Content(added).what = printed
                 /\ Content(<<"errlog", 0>>).what \o Content(<<"stderr", stage>>).what = printed
        BY <1>1, <3>5, <4>1 DEF LogInv
      <4>3. Printed(<<"stderr", stage>>)'
        BY <1>1, <2>8, <4>2 DEF Printed, StageSlots
      <4>4. Content(<<"errlog", 0>>)' = Content(<<"errlog", 0>>)
        BY <3>1, <4>1
      <4>5. "oom" \notin seen' =>
              /\ Content(<<"log", 0>>)'.what = printed'
              /\ Content(<<"errlog", 0>>)'.what \o Content(<<"stderr", stage>>)'.what = printed'
        BY <2>3, <3>2, <3>3, <4>1, <4>2, <4>4
      <4> QED BY <1>1, <3>3, <3>4, <4>1, <4>3, <4>5 DEF LogInv
    <3>6. CASE pc = "stderr"
      <4>1. name = "errlog" /\ pc' = "check" /\ added = <<"stderr", stage>>
        BY <1>3, <2>1, <3>6
      <4>2. "oom" \notin seen =>
              /\ Content(<<"log", 0>>).what = printed
              /\ Content(<<"errlog", 0>>).what \o Content(added).what = printed
        BY <1>1, <3>6, <4>1 DEF LogInv
      <4>3. Content(<<"log", 0>>)' = Content(<<"log", 0>>)
        BY <3>1, <4>1
      <4>4. "oom" \notin seen' =>
              /\ Content(<<"log", 0>>)'.what = printed'
              /\ Content(<<"errlog", 0>>)'.what = printed'
        BY <2>3, <3>3, <4>1, <4>2, <4>3
      <4> QED BY <3>3, <3>4, <4>1, <4>4 DEF LogInv
    <3> QED BY <1>1, <3>5, <3>6
  <2> QED BY <2>5, <2>6, <2>7, <2>9, <2>10, <2>11, <2>12 DEF IInv
<1> QED BY <1>2, <1>3 DEF CollectLog, Diagnostic

----------------------------------------------------------------------------
(* The end of a stage and of the call *)

LEMMA CheckStageIInv == IInv /\ CheckStage => IInv'
<1> SUFFICES ASSUME IInv, CheckStage PROVE IInv'
  OBVIOUS
<1>1. /\ pc = "check" /\ UNCHANGED <<options, item, worker, printed>>
      /\ ClientType /\ WorkerType /\ MemInv /\ Owned /\ PreparedInv /\ OutputInv /\ LogInv
      /\ FailureInv /\ stage \in {1, 2, 3} /\ status \in Statuses
  BY DEF CheckStage, IInv, MemInv, Owned, ClientType, Stages
<1>2. CASE status # "OK" /\ SetDiagnostic(status) /\ pc' = "done" /\ UNCHANGED stage
  <2>1. Fails(status) /\ status \in Statuses \ {"OK"}
    BY <1>1, <1>2 DEF SetDiagnostic, Fails, Diagnostic
  <2> QED BY <1>1, <1>2, <2>1, EndsBadly
<1>3. CASE /\ status = "OK"
           /\ IF stage < 3 THEN stage' = stage + 1 /\ pc' = "build" ELSE pc' = "elf" /\ UNCHANGED stage
           /\ UNCHANGED <<status, mem, heap, seen>>
  <2>1. \/ stage \in {1, 2} /\ stage' = stage + 1 /\ pc' = "build"
        \/ stage = 3 /\ stage' = 3 /\ pc' = "elf"
    BY <1>1, <1>3
  <2>2. Live' = Live /\ DOMAIN mem' = Slots /\ MemoryExact' /\ mem' = mem
    BY <1>1, <1>3 DEF Live, Owned, MemoryExact, Ids
  <2>3. MemInv'
    <3> SUFFICES ASSUME NEW s \in Live PROVE OwnName(s)' /\ MayLive(s)'
      BY <2>2 DEF MemInv
    <3>1. OwnName(s) /\ MayLive(s) /\ s \in Slots
      BY <1>1 DEF MemInv, Live
    <3>2. s[1] \notin {"request", "response", "out", "err", "diagnostic", "elf"}
      BY <1>1, <3>1 DEF MayLive, Ended
    <3>3. OwnName(s)'
      BY <2>2, <3>1, <3>2 DEF OwnName, Origin, NumberAt, NameAt
    <3>4. s[1] \in StageSlots => s[2] < stage \/ s[2] = stage
      BY <3>1 DEF MayLive
    <3>5. s[2] \in Nat
      BY <3>1, SlotFacts
    <3>6. s[1] \in StageSlots => s[2] < stage' \/ (s[2] = stage' /\ pc' = "elf")
      BY <1>1, <2>1, <3>4, <3>5
    <3>7. MayLive(s)'
      BY <2>1, <3>2, <3>6 DEF MayLive, Prepare
    <3> QED BY <3>3, <3>7
  <2>4. ClientType'
    <3>1. stage' \in Stages
      BY <2>1 DEF Stages
    <3> QED BY <1>1, <1>3, <2>1, <3>1 DEF ClientType, Places, Prepare
  <2>5. WorkerType' /\ WorkerInv'
    BY <1>1, <2>1, NoWorkerYet
  <2>6. PreparedInv'
    BY <1>1, <1>3, <2>1 DEF PreparedInv, Prepare, Ended
  <2>7. OutputInv'
    <3>1. \A k : Made(k)' = Made(k)
      BY <1>1, MadeSame
    <3>2. Whatever \/ Holds(<<"output", stage>>, stage)
      BY <1>1, <1>3 DEF OutputInv
    <3>3. ASSUME NEW k \in {1, 2, 3}, stage = k PROVE Whatever' \/ Holds(<<"output", k>>, k)'
      BY <1>3, <3>1, <3>2, <3>3 DEF Holds, Whatever
    <3>4. \A k \in {1, 2} : mem'[<<"output", k>>] # Null =>
            mem'[<<"output", k>>].what \in Texts /\ mem'[<<"output", k>>].size \in Nat
      BY <1>1, <2>2 DEF OutputInv
    <3>5. ASSUME NEW k \in {1, 2}, stage' = k + 1, pc' = "build"
          PROVE  Whatever' \/ Holds(<<"output", k>>, k)'
      <4>1. stage = k
        BY <2>1, <3>5
      <4> QED BY <3>3, <4>1
    <3>6. pc' = "elf" => Whatever' \/ Holds(<<"output", stage>>, stage)'
      <4> SUFFICES ASSUME pc' = "elf" PROVE Whatever' \/ Holds(<<"output", stage>>, stage)'
        OBVIOUS
      <4>1. stage = 3 /\ stage' = 3
        BY <2>1
      <4>2. Whatever' \/ Holds(<<"output", 3>>, 3)'
        BY <3>3, <4>1
      <4> QED BY <4>1, <4>2 DEF Holds
    <3> QED BY <2>1, <3>4, <3>5, <3>6 DEF OutputInv, Ended
  <2>8. FailureInv' /\ RequestInv' /\ ResponseInv'
    BY <1>1, <1>3, <2>1 DEF FailureInv, RequestInv, ResponseInv, Prepare, Ended
  <2>9. LogInv'
    <3>1. \A n \in {"log", "errlog"} : Content(<<n, 0>>)' = Content(<<n, 0>>)
      BY <1>3 DEF Content
    <3> QED BY <1>1, <1>3, <2>1, <3>1 DEF LogInv
  <2> QED BY <2>3, <2>4, <2>5, <2>6, <2>7, <2>8, <2>9 DEF IInv
<1> QED BY <1>2, <1>3 DEF CheckStage

(* The buffer of the linked output becomes that of the executable. *)
LEMMA HandOverOwned ==
  ASSUME IInv, pc = "elf", stage = 3, stage' = 3, pc' = "done", status = "OK", status' = "OK",
         mem[<<"output", 3>>] # Null, mem' = HandOver, UNCHANGED heap
  PROVE  /\ MemInv'
         /\ mem'[<<"elf", 0>>] = mem[<<"output", 3>>]
         /\ \A s \in Slots \ {<<"elf", 0>>, <<"output", 3>>} : mem'[s] = mem[s]
<1> PICK elf : elf = <<"elf", 0>>
  OBVIOUS
<1> PICK out : out = <<"output", 3>>
  OBVIOUS
<1> DEFINE from == [s \in {elf} |-> out]
<1>1. /\ MemInv /\ MemoryExact /\ DOMAIN mem = Slots /\ elf \in Slots /\ out \in Slots
      /\ elf \notin Live /\ out \in Live /\ elf # out /\ mem[elf] = Null
  <2>1. MemInv /\ elf \in Slots /\ out \in Slots /\ elf # out
    BY SlotNames DEF IInv, StageSlots, Stages
  <2>2. elf \notin Live
    BY <2>1 DEF MemInv, MayLive, Ended
  <2> QED BY <2>1, <2>2 DEF MemInv, Live
<1>2. DOMAIN from = {elf} /\ from[elf] = out
  OBVIOUS
<1> HIDE DEF from
<1>3. NoNew = [s \in {} |-> Null] /\ DOMAIN NoNew = {}
  BY DEF NoNew
<1>4. Move(from, NoNew, {})
  <2>1. heap' = (heap \ Ids({})) \cup {NoNew[s].id : s \in DOMAIN NoNew}
    BY <1>3 DEF Ids
  <2>2. mem' = [mem EXCEPT ![elf] = mem[out], ![out] = Null]
    BY DEF HandOver
  <2>3. mem' = [s \in DOMAIN mem |-> IF s = elf THEN mem[out] ELSE IF s = out THEN Null ELSE mem[s]]
    BY <1>1, <2>2
  <2>4. \A s : (\E t \in DOMAIN from : from[t] = s) <=> s = out
    BY <1>2
  <2>5. mem' = [s \in DOMAIN mem |->
                  IF s \in DOMAIN NoNew THEN NoNew[s]
                  ELSE IF s \in DOMAIN from THEN mem[from[s]]
                  ELSE IF \E t \in DOMAIN from : from[t] = s THEN Null
                  ELSE IF s \in {} THEN Null ELSE mem[s]]
    BY <1>2, <1>3, <2>3, <2>4
  <2> QED BY <2>1, <2>5 DEF Move
<1>5. New(NoNew, {})
  BY <1>3 DEF New
<1>6. Moved(from, NoNew, {})
  BY <1>1, <1>2, <1>3 DEF Moved
<1>7. Sources(from) = {out}
  BY <1>2 DEF Sources
<1>8. /\ DOMAIN mem' = DOMAIN mem
      /\ \A s \in DOMAIN from : mem'[s] = mem[from[s]]
      /\ \A s \in DOMAIN mem \ (DOMAIN NoNew \cup {} \cup DOMAIN from \cup Sources(from)) :
           mem'[s] = mem[s]
      /\ Live' = (Live \ ({} \cup Sources(from))) \cup DOMAIN NoNew
                    \cup {s \in DOMAIN from : mem[from[s]] # Null}
      /\ MemoryExact'
  BY <1>1, <1>4, <1>5, <1>6, MoveExact
<1>9. /\ mem'[elf] = mem[out] /\ \A s \in Slots \ {elf, out} : mem'[s] = mem[s]
      /\ Live' \subseteq (Live \ {out}) \cup {elf}
  BY <1>1, <1>2, <1>3, <1>7, <1>8
<1>10. ASSUME NEW s \in Live \ {out} PROVE OwnName(s)' /\ MayLive(s)'
  <2>1. OwnName(s) /\ MayLive(s) /\ s \in Slots /\ mem'[s] = mem[s]
    BY <1>1, <1>9 DEF MemInv, Live
  <2>2. OwnName(s)'
    BY <2>1 DEF OwnName, Origin, NumberAt
  <2>3. MayLive(s)'
    BY <2>1 DEF MayLive, Ended, Prepare
  <2> QED BY <2>2, <2>3
<1>11. OwnName(elf)' /\ MayLive(elf)'
  <2>1. mem[out].id = out
    BY <1>1 DEF MemInv, OwnName, Origin, NameAt, NumberAt
  <2>2. OwnName(elf)'
    BY <1>9, <2>1 DEF OwnName, Origin, NameAt, NumberAt
  <2> QED BY <2>2 DEF MayLive, StageSlots, Ended
<1>12. MemInv'
  BY <1>1, <1>8, <1>9, <1>10, <1>11 DEF MemInv
<1> QED BY <1>9, <1>12

LEMMA ParseElfIInv == IInv /\ ParseElf => IInv'
<1> SUFFICES ASSUME IInv, ParseElf PROVE IInv'
  OBVIOUS
<1>1. /\ pc = "elf" /\ pc' = "done" /\ UNCHANGED <<options, stage, item, worker, printed>>
      /\ ClientType /\ WorkerType /\ MemInv /\ PreparedInv /\ OutputInv /\ LogInv
      /\ FailureInv /\ stage = 3 /\ status = "OK"
  BY DEF ParseElf, IInv, ClientType
<1>2. ASSUME NEW st \in {"MALFORMED_INPUT", "UNSUPPORTED"}, SetDiagnostic(st) PROVE IInv'
  <2>1. Fails(st) /\ st \in Statuses \ {"OK"}
    BY <1>2 DEF SetDiagnostic, Fails, Diagnostic, Statuses
  <2> QED BY <1>1, <2>1, EndsBadly
<1>3. CASE mem[<<"output", 3>>] # Null /\ mem' = HandOver /\ UNCHANGED <<status, heap, seen>>
  <2>1. /\ MemInv'
        /\ mem'[<<"elf", 0>>] = mem[<<"output", 3>>]
        /\ \A s \in Slots \ {<<"elf", 0>>, <<"output", 3>>} : mem'[s] = mem[s]
    BY <1>1, <1>3, HandOverOwned
  <2>2. ClientType'
    BY <1>1, <1>3 DEF ClientType, Places, Prepare
  <2>3. WorkerType' /\ WorkerInv'
    BY <1>1, NoWorkerYet
  <2>4. /\ \A n \in {"log", "errlog"} : mem'[<<n, 0>>] = mem[<<n, 0>>]
        /\ \A k \in {1, 2} : mem'[<<"output", k>>] = mem[<<"output", k>>]
        /\ mem'[Diagnostic] = mem[Diagnostic]
    BY <2>1, SlotNames DEF Diagnostic, StageSlots, Stages
  <2>5. OutputInv'
    <3>1. Whatever \/ Holds(<<"output", 3>>, 3)
      BY <1>1 DEF OutputInv
    <3>2. Made(3)' = Made(3) /\ (Whatever' <=> Whatever)
      BY <1>1, <1>3, MadeSame DEF Whatever
    <3>3. mem'[<<"elf", 0>>] # Null /\ (Whatever' \/ mem'[<<"elf", 0>>].what = Made(3)')
      BY <1>3, <2>1, <3>1, <3>2 DEF Holds
    <3>4. \A k \in {1, 2} : mem'[<<"output", k>>] # Null =>
            mem'[<<"output", k>>].what \in Texts /\ mem'[<<"output", k>>].size \in Nat
      BY <1>1, <2>4 DEF OutputInv
    <3> QED BY <1>1, <3>3, <3>4 DEF OutputInv
  <2>6. mem'[Diagnostic] = Null
    <3>1. Diagnostic \in Slots /\ ~MayLive(Diagnostic)
      BY <1>1, SlotNames DEF MayLive, Diagnostic, Ended
    <3> QED BY <1>1, <2>4, <3>1 DEF MemInv, Live
  <2>7. FailureInv' /\ RequestInv' /\ ResponseInv' /\ PreparedInv'
    BY <1>1, <1>3, <2>6
       DEF FailureInv, RequestInv, ResponseInv, PreparedInv, Prepare, Ended, Diagnostic
  <2>8. LogInv'
    <3>1. \A n \in {"log", "errlog"} : Content(<<n, 0>>)' = Content(<<n, 0>>)
      BY <2>4 DEF Content
    <3> QED BY <1>1, <1>3, <3>1 DEF LogInv
  <2> QED BY <2>1, <2>2, <2>3, <2>5, <2>7, <2>8 DEF IInv
<1> QED BY <1>2, <1>3 DEF ParseElf

(* A step that only releases. *)
LEMMA Releases ==
  ASSUME Owned, stage \in Stages, NEW drop, Store(NoNew, drop)
  PROVE  /\ DOMAIN mem' = Slots /\ MemoryExact' /\ Live' = Live \ drop
         /\ \A s \in Slots \ drop : mem'[s] = mem[s]
         /\ \A s \in Slots \cap drop : mem'[s] = Null
<1>1. DOMAIN NoNew = {}
  BY DEF NoNew
<1>2. New(NoNew, drop)
  BY <1>1 DEF New
<1> QED BY <1>1, <1>2, StoreExact DEF Owned

LEMMA DoneIInv == IInv /\ Done => IInv'
<1> SUFFICES ASSUME IInv, Done PROVE IInv'
  OBVIOUS
<1>1. /\ pc = "done" /\ pc' = "returned" /\ Store(NoNew, WorkSlots)
      /\ UNCHANGED <<options, stage, item, status, worker, seen, printed>>
      /\ ClientType /\ WorkerType /\ MemInv /\ Owned /\ OutputInv /\ LogInv
      /\ FailureInv /\ stage \in Stages
  BY DEF Done, Released, IInv, MemInv, Owned, ClientType
<1>2. /\ DOMAIN mem' = Slots /\ MemoryExact' /\ Live' = Live \ WorkSlots
      /\ \A s \in Slots \ WorkSlots : mem'[s] = mem[s]
      /\ \A s \in Slots \cap WorkSlots : mem'[s] = Null
  BY <1>1, Releases
<1>3. \A n \in {"elf", "log", "errlog", "diagnostic"} : mem'[<<n, 0>>] = mem[<<n, 0>>]
  <2> SUFFICES ASSUME NEW n \in {"elf", "log", "errlog", "diagnostic"}
               PROVE  <<n, 0>> \in Slots \ WorkSlots
    BY <1>2
  <2>1. <<n, 0>> \in Slots
    BY SlotNames
  <2>2. <<n, 0>>[1] = n
    OBVIOUS
  <2> QED BY <2>1, <2>2, SlotFacts
<1>4. MemInv'
  <2> SUFFICES ASSUME NEW s \in Live \ WorkSlots PROVE OwnName(s)' /\ MayLive(s)'
    BY <1>2 DEF MemInv
  <2>1. OwnName(s) /\ MayLive(s) /\ s \in Slots /\ mem'[s] = mem[s] /\ s \in ResultSlots
    BY <1>1, <1>2 DEF MemInv, Live, Slots
  <2>2. OwnName(s)'
    BY <1>1, <2>1 DEF OwnName, Origin, NumberAt
  <2>3. MayLive(s)'
    BY <1>1, <2>1 DEF MayLive, Ended, Prepare
  <2> QED BY <2>2, <2>3
<1>5. ClientType'
  BY <1>1 DEF ClientType, Places, Prepare
<1>6. WorkerType' /\ WorkerInv'
  BY <1>1, NoWorkerYet
<1>7. OutputInv'
  <2>1. Made(3)' = Made(3) /\ (Whatever' <=> Whatever)
    BY <1>1, MadeSame DEF Whatever
  <2>2. \A k \in {1, 2} : mem'[<<"output", k>>] = Null
    <3> SUFFICES ASSUME NEW k \in {1, 2} PROVE <<"output", k>> \in Slots \cap WorkSlots
      BY <1>2
    <3> QED BY DEF Slots, WorkSlots, Stages
  <2> QED BY <1>1, <1>3, <2>1, <2>2 DEF OutputInv, Ended
<1>8. FailureInv' /\ RequestInv' /\ ResponseInv' /\ PreparedInv'
  BY <1>1, <1>3 DEF FailureInv, RequestInv, ResponseInv, PreparedInv, Prepare, Ended
<1>9. LogInv'
  <2>1. \A n \in {"log", "errlog"} : Content(<<n, 0>>)' = Content(<<n, 0>>)
    BY <1>3 DEF Content
  <2> QED BY <1>1, <2>1 DEF LogInv
<1> QED BY <1>4, <1>5, <1>6, <1>7, <1>8, <1>9 DEF IInv

LEMMA ReleaseIInv == IInv /\ Release => IInv'
<1> SUFFICES ASSUME IInv, Release PROVE IInv'
  OBVIOUS
<1>1. /\ pc = "returned" /\ pc' = "idle" /\ Store(NoNew, ResultSlots)
      /\ options' = Null /\ stage' = 1 /\ item' = 1 /\ status' = "OK"
      /\ seen' = {} /\ printed' = <<>> /\ UNCHANGED worker
      /\ ClientType /\ WorkerType /\ MemInv /\ Owned /\ stage \in Stages
  BY DEF Release, IInv, MemInv, Owned, ClientType
<1>2. /\ DOMAIN mem' = Slots /\ MemoryExact' /\ Live' = Live \ ResultSlots
  BY <1>1, Releases
<1>3. \A s \in Live : s \in ResultSlots
  BY <1>1 DEF MemInv, MayLive
<1>4. Live' = {} /\ \A s \in Slots : mem'[s] = Null
  BY <1>2, <1>3 DEF Live
<1>5. MemInv'
  BY <1>2, <1>4 DEF MemInv
<1>6. ClientType'
  BY <1>1 DEF ClientType, Places, Prepare, Statuses, Stages
<1>7. WorkerType' /\ WorkerInv'
  BY <1>1, NoWorkerYet
<1>8. OutputInv'
  BY <1>1, <1>4, SlotNames DEF OutputInv, Ended, StageSlots, Stages
<1>9. FailureInv' /\ RequestInv' /\ ResponseInv' /\ PreparedInv'
  BY <1>1 DEF FailureInv, RequestInv, ResponseInv, PreparedInv, Prepare, Ended
<1>10. LogInv'
  <2>1. \A n \in {"log", "errlog"} : Content(<<n, 0>>)'.what = <<>>
    BY <1>4, SlotNames DEF Content
  <2> QED BY <1>1, <2>1, EmptyTexts DEF LogInv
<1> QED BY <1>5, <1>6, <1>7, <1>8, <1>9, <1>10 DEF IInv

LEMMA StuttersIInv == IInv /\ UNCHANGED vars => IInv'
<1> SUFFICES ASSUME IInv, UNCHANGED vars PROVE IInv'
  OBVIOUS
<1>1. /\ UNCHANGED <<pc, options, stage, item, status, mem, heap>>
      /\ UNCHANGED <<wpc, request, wresult, tool, sent, exit, prints, seen, printed>>
  BY DEF vars, client, worker
<1>2. \A k : Made(k)' = Made(k)
  BY <1>1, MadeSame
<1>3. (Whatever' <=> Whatever) /\ Live' = Live /\ Whole' = Whole
  BY <1>1 DEF Whatever, Live, Whole
<1>4. ClientType'
  BY <1>1 DEF IInv, ClientType
<1>5. WorkerType'
  BY <1>1, <1>3 DEF IInv, WorkerType
<1>6. MemInv'
  <2>1. MemInv /\ Owned /\ stage' = stage /\ UNCHANGED <<mem, heap>>
    BY <1>1 DEF IInv, MemInv, Owned
  <2>2. Owned'
    BY <2>1, SameOwned
  <2>3. \A s \in Live : MayLive(s)'
    BY <1>1, <2>1 DEF MemInv, MayLive
  <2> QED BY <1>3, <2>2, <2>3 DEF MemInv, Owned
<1>7. WorkerInv'
  BY <1>1, <1>2, <1>3 DEF IInv, WorkerInv, RequestGood, Genuine, Excused
<1>8. RequestInv' /\ ResponseInv'
  BY <1>1, <1>2, <1>3 DEF IInv, RequestInv, RequestGood, ResponseInv, Genuine
<1>9. PreparedInv'
  BY <1>1 DEF IInv, PreparedInv
<1>10. OutputInv'
  BY <1>1, <1>2, <1>3 DEF IInv, OutputInv, Holds
<1>11. LogInv'
  BY <1>1 DEF IInv, LogInv, Printed, Content
<1>12. FailureInv'
  BY <1>1 DEF IInv, FailureInv
<1> QED BY <1>4, <1>5, <1>6, <1>7, <1>8, <1>9, <1>10, <1>11, <1>12 DEF IInv

----------------------------------------------------------------------------
(* The theorems *)

LEMMA Inductive == Spec => []IInv
<1>1. IInv /\ [Next]_vars => IInv'
  <2> SUFFICES ASSUME IInv, [Next]_vars PROVE IInv'
    OBVIOUS
  <2>1. CASE Call
    BY <2>1, CallIInv
  <2>2. CASE Client
    BY <2>2, AllocationFailsIInv, ExpandIInv, MakePathIInv, AllocateArgumentsIInv,
       AllocateDefinitionIInv, BuildRequestIInv, StartWorkerIInv, SupervisorReturnsIInv,
       StageReturnsIInv, CollectLogIInv, CheckStageIInv, ParseElfIInv, DoneIInv DEF Client
  <2>3. CASE Worker
    BY <2>3, WorkerReadIInv, WorkerParseIInv, WorkerLoadIInv, WorkerCallIInv, WorkerCopyIInv,
       WorkerSendIInv DEF Worker
  <2>4. CASE Release
    BY <2>4, ReleaseIInv
  <2>5. CASE UNCHANGED vars
    BY <2>5, StuttersIInv
  <2> QED BY <2>1, <2>2, <2>3, <2>4, <2>5 DEF Next
<1> QED BY <1>1, InitIInv, PTL DEF Spec

LEMMA NothingLeakedFacts == IInv => NothingLeaked
<1> SUFFICES ASSUME IInv PROVE NothingLeaked
  OBVIOUS
<1>1. ClientType /\ WorkerType /\ MemInv /\ OutputInv
  BY DEF IInv
<1>2. TypeOK
  <2>1. /\ wresult.size \in Nat /\ wresult.diagnostic \in {0, 1} /\ wresult.size <= MaxResult
        /\ MaxResult \in Nat
    BY <1>1, WholeNat, ShaveAssumption DEF WorkerType
  <2>2. /\ wpc \notin {"output", "diagnostic", "exited"} => sent = 0
        /\ wpc = "output" => sent = Header
        /\ wpc = "diagnostic" => sent = Header + wresult.size
        /\ wpc = "exited" => sent \in 0 .. Whole
    BY <1>1 DEF WorkerType
  <2>3. sent \in 0 .. Header + MaxResult + 1
    BY <2>1, <2>2 DEF Header, Whole
  <2>4. item \in 1 .. 4 \/ item \in 1 .. MaxDefinitions
    BY <1>1, ShaveAssumption DEF ClientType
  <2>5. options \in Options \cup {Null}
    BY <1>1 DEF ClientType
  <2>6. /\ pc \in Places /\ status \in Statuses /\ stage \in Stages /\ DOMAIN mem = Slots
        /\ wpc \in WorkerPlaces /\ exit \in {Null, 0, 2, 3, 5}
    BY <1>1 DEF ClientType, WorkerType, MemInv
  <2> QED BY <2>3, <2>4, <2>5, <2>6 DEF TypeOK, Places, WorkerPlaces
<1>3. ResultOwnsTheRest
  <2> SUFFICES ASSUME pc = "returned"
               PROVE  Live \subseteq ResultSlots /\ (mem[<<"elf", 0>>] # Null <=> status = "OK")
    BY DEF ResultOwnsTheRest
  <2>1. \A s \in Live : MayLive(s)
    BY <1>1 DEF MemInv
  <2>2. Live \subseteq ResultSlots
    BY <2>1 DEF MayLive
  <2>3. mem[<<"elf", 0>>] # Null => status = "OK"
    <3>1. <<"elf", 0>> \in Slots
      BY SlotNames
    <3> QED BY <1>1, <2>1, <3>1 DEF MemInv, Live, MayLive
  <2>4. status = "OK" => mem[<<"elf", 0>>] # Null
    BY <1>1 DEF OutputInv, Ended
  <2> QED BY <2>2, <2>3, <2>4
<1> QED BY <1>1, <1>2, <1>3 DEF NothingLeaked, MemInv

(* Every allocation of a call has one owner at every moment, and only the  *)
(* result owns memory when shavecc_compile has returned: it releases its   *)
(* paths, definitions, requests, responses and stages on every way to the  *)
(* label done.                                                             *)
THEOREM LeakCorrect == Spec => []NothingLeaked
BY Inductive, NothingLeakedFacts, PTL

(* One more word. *)
LEMMA Longer ==
  ASSUME NEW s \in Texts, NEW t \in Texts, NEW w \in Words,
         Len(t) = Len(s) + 1, t[Len(s) + 1] = w, \A i \in 1 .. Len(s) : t[i] = s[i]
  PROVE  s \o <<w>> = t
<1> DEFINE a == Append(s, w)
<1>1. s \in Seq(Words) /\ t \in Seq(Words) /\ Len(s) \in Nat
  BY LenProperties DEF Texts
<1>2. a = s \o <<w>>
  BY <1>1, AppendIsConcat
<1>3. /\ a \in Seq(Words) /\ Len(a) = Len(s) + 1 /\ a[Len(s) + 1] = w
      /\ \A i \in 1 .. Len(s) : a[i] = s[i]
  BY <1>1, AppendProperties
<1> HIDE DEF a
<1>4. \A i \in 1 .. Len(a) : a[i] = t[i]
  BY <1>1, <1>3
<1>5. a = t
  BY <1>1, <1>3, <1>4, SeqEqual
<1> QED BY <1>2, <1>5

LEMMA FourWords ==
  ASSUME NEW x \in Words, NEW y \in Words, NEW z \in Words, NEW w \in Words
  PROVE  ((<<x>> \o <<y>>) \o <<z>>) \o <<w>> = <<x, y, z, w>>
<1>1. <<x>> \in Texts /\ <<x, y>> \in Texts /\ <<x, y, z>> \in Texts /\ <<x, y, z, w>> \in Texts
  BY DEF Texts
<1> DEFINE one   == <<x>>
           two   == <<x, y>>
           three == <<x, y, z>>
           four  == <<x, y, z, w>>
<1>2. /\ one \in Texts /\ Len(one) = 1 /\ one[1] = x
      /\ two \in Texts /\ Len(two) = 2 /\ two[1] = x /\ two[2] = y
      /\ three \in Texts /\ Len(three) = 3 /\ three[1] = x /\ three[2] = y /\ three[3] = z
      /\ four \in Texts /\ Len(four) = 4
      /\ four[1] = x /\ four[2] = y /\ four[3] = z /\ four[4] = w
  BY <1>1
<1> HIDE DEF one, two, three, four
<1>3. one \o <<y>> = two
  <2>1. /\ Len(two) = Len(one) + 1 /\ two[Len(one) + 1] = y
        /\ \A i \in 1 .. Len(one) : two[i] = one[i]
    BY <1>2
  <2> QED BY <1>2, <2>1, Longer
<1>4. two \o <<z>> = three
  <2>1. /\ Len(three) = Len(two) + 1 /\ three[Len(two) + 1] = z
        /\ \A i \in 1 .. Len(two) : three[i] = two[i]
    BY <1>2
  <2> QED BY <1>2, <2>1, Longer
<1>5. three \o <<w>> = four
  <2>1. /\ Len(four) = Len(three) + 1 /\ four[Len(three) + 1] = w
        /\ \A i \in 1 .. Len(three) : four[i] = three[i]
    BY <1>2
  <2> QED BY <1>2, <2>1, Longer
<1> QED BY <1>3, <1>4, <1>5, Zenon DEF one, two, three, four

Associates(s, t, u) == (s \o t) \o u = s \o (t \o u)

LEMMA Associate ==
  ASSUME NEW s \in Texts, NEW t \in Texts, NEW u \in Texts PROVE Associates(s, t, u)
<1>1. s \in Seq(Words) /\ t \in Seq(Words) /\ u \in Seq(Words)
  BY DEF Texts
<1> QED BY <1>1, ConcatAssociative DEF Associates

AllAssociate(s, a, b, c, d) == (((s \o a) \o b) \o c) \o d = s \o (((a \o b) \o c) \o d)

LEMMA FiveTexts ==
  ASSUME NEW s \in Texts, NEW a \in Texts, NEW b \in Texts, NEW c \in Texts, NEW d \in Texts
  PROVE  AllAssociate(s, a, b, c, d)
<1>1. Texts = Seq(Words)
  BY DEF Texts
<1>2. a \o b \in Texts /\ (a \o b) \o c \in Texts
  BY <1>1, ConcatProperties
<1>4. Associates(s, a, b) /\ Associates(s, a \o b, c) /\ Associates(s, (a \o b) \o c, d)
  BY <1>2, Associate
<1>5. (s \o a) \o b = s \o (a \o b)
  BY <1>4, Zenon DEF Associates
<1>6. (s \o (a \o b)) \o c = s \o ((a \o b) \o c)
  BY <1>4, Zenon DEF Associates
<1>7. (s \o ((a \o b) \o c)) \o d = s \o (((a \o b) \o c) \o d)
  BY <1>4, Zenon DEF Associates
<1> QED BY <1>5, <1>6, <1>7, Zenon DEF AllAssociate

(* The four steps that the source goes through. *)
LEMMA MadeFinal ==
  ASSUME options \in Options
  PROVE  Made(3) = TheSource \o <<"compile", "assemble", "link", "script">>
<1> DEFINE S == TheSource
           C == Append(S, "compile")
<1>1. S \in Texts
  <2>1. Made(0) = S
    BY DEF Made
  <2> QED BY <2>1, MadeTexts
<1>2. "compile" \in Words /\ "assemble" \in Words /\ "link" \in Words /\ "script" \in Words
  BY DEF Words
<1>3. Made(3) = (Append(C, "assemble") \o <<"link">>) \o <<"script">>
  BY DEF Made
<1> HIDE DEF S
<1>4. C = S \o <<"compile">> /\ C \in Texts
  BY <1>1, <1>2, AppendIsConcat, TextsOfWords DEF Texts
<1> HIDE DEF C
<1>5. Append(C, "assemble") = C \o <<"assemble">>
  BY <1>2, <1>4, AppendIsConcat DEF Texts
<1>6. Made(3) = (((S \o <<"compile">>) \o <<"assemble">>) \o <<"link">>) \o <<"script">>
  BY <1>3, <1>4, <1>5, Zenon
<1>7. \A w \in Words : <<w>> \in Texts
  BY DEF Texts
<1>8. /\ <<"compile">> \in Texts /\ <<"assemble">> \in Texts
      /\ <<"link">> \in Texts /\ <<"script">> \in Texts
  BY <1>2, <1>7
<1> DEFINE a == <<"compile">>
           b == <<"assemble">>
           c == <<"link">>
           d == <<"script">>
<1>9. Made(3) = S \o (((a \o b) \o c) \o d)
  <2>1. Made(3) = (((S \o a) \o b) \o c) \o d
    BY <1>6
  <2>2. a \in Texts /\ b \in Texts /\ c \in Texts /\ d \in Texts
    BY <1>8
  <2> HIDE DEF a, b, c, d
  <2>3. AllAssociate(S, a, b, c, d)
    BY <1>1, <2>2, FiveTexts
  <2> QED BY <2>1, <2>3, Zenon DEF AllAssociate
<1>10. ((<<"compile">> \o <<"assemble">>) \o <<"link">>) \o <<"script">>
          = <<"compile", "assemble", "link", "script">>
  BY <1>2, FourWords, Zenon
<1> QED BY <1>9, <1>10, Zenon DEF S, a, b, c, d

LEMMA CarriedOutFacts == IInv => RequestCarriedOut
<1> SUFFICES ASSUME IInv PROVE RequestCarriedOut
  OBVIOUS
<1>1. ClientType /\ OutputInv /\ WorkerInv
  BY DEF IInv
<1>2. OkIsThisSource
  <2> SUFFICES ASSUME pc = "returned", status = "OK", "empty" \notin seen
               PROVE  mem[<<"elf", 0>>].what
                        = TheSource \o <<"compile", "assemble", "link", "script">>
    BY DEF OkIsThisSource, TheSource
  <2>1. mem[<<"elf", 0>>].what = Made(3)
    BY <1>1 DEF OutputInv, Ended, Whatever
  <2>2. options \in Options
    BY <1>1 DEF ClientType
  <2> QED BY <2>1, <2>2, MadeFinal
<1>3. RequestAccepted
  BY <1>1 DEF RequestAccepted, WorkerInv, Sending, Excused
<1> QED BY <1>2, <1>3 DEF RequestCarriedOut

(* What build_request sends, movi_worker.c accepts, and a call that        *)
(* succeeds returns this source compiled, assembled and linked with this   *)
(* script, when no tool succeeded with nothing.                            *)
THEOREM CarriedOutCorrect == Spec => []RequestCarriedOut
BY Inductive, CarriedOutFacts, PTL

LEMMA ReportsFacts == IInv => ReportsTheStage
<1> SUFFICES ASSUME IInv PROVE ReportsTheStage
  OBVIOUS
<1>1. LogInv /\ FailureInv
  BY DEF IInv
<1>2. LogsOfEveryStage
  BY <1>1 DEF LogsOfEveryStage, LogInv
<1>3. FailureReported
  BY <1>1 DEF FailureReported, FailureInv, Ended
<1> QED BY <1>2, <1>3 DEF ReportsTheStage

(* collect_worker_logs and stage_failure lose nothing: what every stage    *)
(* printed is in the logs in its order, and no failure of a worker or of   *)
(* its tool ends in success or in a diagnostic of another status.          *)
THEOREM ReportsCorrect == Spec => []ReportsTheStage
BY Inductive, ReportsFacts, PTL
============================================================================
