-------------------------- MODULE IrCompileProofs --------------------------
(***************************************************************************)
(* What compile_ir leaves in the driver and in its response, for every     *)
(* platform, request and behaviour of the driver.                          *)
(***************************************************************************)
EXTENDS IrCompile, BuffersProofs, TLAPS

(* The places of the worker before it has a context, with a context alone, *)
(* and with the compiled graph.                                            *)
Early    == {"none", "read", "parse", "load", "drivers", "driver", "device", "properties",
             "extension", "ddi", "contract", "mode", "context"}
Bare     == {"entry_points", "create", "reload"}
Compiled == {"native2", "native_size", "native_data", "magic", "destroy"}
Answer   == {"header", "output", "message"}
Places   == Early \cup Bare \cup Compiled \cup Answer
              \cup {"cleanup_graph", "cleanup_context", "exited"}

Contexts == IF context THEN {"context"} ELSE {}
Graphs   == IF graph = Null THEN {} ELSE {graph}

(* The objects in the driver at each place.  At the label done they are    *)
(* those of the handles that are set and, when destroying the compiled     *)
(* graph failed, that graph: then its failure is the status.               *)
EarlyInv    == wpc \in Early => /\ ~context /\ graph = Null /\ objects = {} /\ stuck = {}
                                /\ first = Null
BareInv     == wpc \in Bare => /\ context /\ graph = Null /\ objects = {"context"}
                               /\ stuck = {} /\ first = Null
CompiledInv == wpc \in Compiled => /\ context /\ graph = "compiled" /\ stuck = {}
                                   /\ objects = {"context", "compiled"} /\ first = Null
GraphInv    == wpc = "cleanup_graph" =>
                 /\ objects = Contexts \cup Graphs \cup stuck
                 /\ graph \in {Null, "compiled", "reloaded"} /\ graph \notin stuck
                 /\ graph # Null => context
                 /\ stuck \subseteq {"compiled"} /\ (stuck # {} => context)
                 /\ first = wresult.status
                 /\ first = "OK" => stuck = {} /\ wresult.code = "SUCCESS"
ContextInv  == wpc = "cleanup_context" =>
                 /\ objects = Contexts \cup stuck /\ "context" \notin stuck
                 /\ stuck # {} => context
                 /\ first \in WorkerStatuses
                 /\ wresult.status = "OK" => first = "OK" /\ stuck = {} /\ wresult.code = "SUCCESS"
                 /\ wresult.status # "OK" =>
                      \/ first = wresult.status
                      \/ first = "OK" /\ wresult.status = "DRIVER_FAILED" /\ stuck # {}
AnswerInv   == wpc \in Answer =>
                 /\ objects \subseteq stuck
                 /\ wresult.status = "OK" => stuck = {} /\ wresult.code = "SUCCESS"
                 /\ wresult.status # "OK" => wresult.size = 0
                 /\ first = Null \/ FirstErrorKept
ExitedInv   == wpc = "exited" /\ "context" \notin objects => objects \subseteq stuck

(* Nothing is exported before there is a graph. *)
NoBlobYet == wpc \in {"none", "read", "parse"} => wresult.size = 0

IInv == /\ wresult \in WorkerResults /\ di \in Int /\ vi \in Int /\ wpc \in Places
        /\ EarlyInv /\ BareInv /\ CompiledInv /\ GraphInv /\ ContextInv /\ AnswerInv /\ ExitedInv
        /\ NoBlobYet

(* There is a worker only while the supervisor waits for it. *)
ClientInv == pc # "wait" => wpc = "none"

LEMMA FailureFacts ==
  ASSUME NEW st \in WorkerStatuses, NEW r \in WorkerResults, NEW s \in Failure(st, r)
  PROVE  /\ s \in WorkerResults /\ s.status = st /\ s.size = r.size
         /\ s.driver = r.driver /\ s.device = r.device
<1>1. ASSUME NEW q \in WorkerResults, NEW t \in Explained(q)
      PROVE  /\ t \in WorkerResults /\ t.status = q.status /\ t.size = q.size
             /\ t.driver = q.driver /\ t.device = q.device
  BY <1>1 DEF Explained, WorkerResults
<1>2. CASE st = "OUT_OF_MEMORY"
  BY <1>2 DEF Failure, WorkerResults
<1>3. CASE st = "DRIVER_FAILED"
  <2>1. PICK c \in {"SUCCESS", "ERROR"} : s \in Explained([r EXCEPT !.status = st, !.code = c])
    BY <1>3 DEF Failure
  <2>2. [r EXCEPT !.status = st, !.code = c] \in WorkerResults
    BY DEF WorkerResults
  <2> QED BY <1>1, <2>1, <2>2 DEF WorkerResults
<1>4. CASE st \notin {"OUT_OF_MEMORY", "DRIVER_FAILED"}
  <2>1. s \in Explained([r EXCEPT !.status = st])
    BY <1>4 DEF Failure
  <2>2. [r EXCEPT !.status = st] \in WorkerResults
    BY DEF WorkerResults
  <2> QED BY <1>1, <2>1, <2>2 DEF WorkerResults
<1> QED BY <1>2, <1>3, <1>4

(* Null is none of the values that it is compared with. *)
LEMMA NullFacts == Null \notin WorkerStatuses /\ Null # "compiled" /\ Null # "reloaded"
BY NullAssumption

LEMMA InitIInv == Init => IInv
BY NullFacts DEF Init, NoWorker, NoResult, IInv, WorkerResults, WorkerStatuses, EarlyInv, BareInv,
   CompiledInv, GraphInv, ContextInv, AnswerInv, ExitedInv, NoBlobYet, Early, Bare, Compiled, Answer, Places

(* The invariant is about the worker: steps of the client leave it alone. *)
LEMMA UnchangedIInv == IInv /\ UNCHANGED worker => IInv'
<1> SUFFICES ASSUME IInv, UNCHANGED worker PROVE IInv'
  OBVIOUS
<1>1. /\ wpc' = wpc /\ wresult' = wresult /\ context' = context /\ graph' = graph
      /\ objects' = objects /\ stuck' = stuck /\ first' = first /\ di' = di /\ vi' = vi
  BY DEF worker, driver, select
<1>2. EarlyInv' /\ BareInv' /\ CompiledInv'
  BY <1>1 DEF IInv, EarlyInv, BareInv, CompiledInv
<1>3. GraphInv' /\ ContextInv'
  BY <1>1 DEF IInv, GraphInv, ContextInv, Contexts, Graphs
<1>4. AnswerInv' /\ ExitedInv' /\ NoBlobYet'
  BY <1>1 DEF IInv, AnswerInv, ExitedInv, NoBlobYet, FirstErrorKept, Sending
<1> QED BY <1>1, <1>2, <1>3, <1>4 DEF IInv

(* goto done with a failure, from a place where the label's invariant      *)
(* holds of the driver.                                                    *)
LEMMA GiveUpIInv ==
  ASSUME IInv, NEW st \in WorkerStatuses \ {"OK"}, GiveUp(st),
         di' \in Int, vi' \in Int,
         objects' = Contexts' \cup Graphs' \cup stuck',
         graph' \in {Null, "compiled", "reloaded"}, graph' \notin stuck',
         graph' # Null => context',
         stuck' \subseteq {"compiled"}, stuck' # {} => context'
  PROVE  IInv'
<1>1. wresult' \in WorkerResults /\ wresult'.status = st
  BY FailureFacts DEF GiveUp, IInv
<1> QED
  BY <1>1 DEF GiveUp, IInv, EarlyInv, BareInv, CompiledInv, GraphInv, ContextInv, AnswerInv,
     ExitedInv, NoBlobYet, Early, Bare, Compiled, Answer, Places

(* A step of compile_ir inside a group of places with the same objects. *)
LEMMA MoveIInv ==
  ASSUME IInv, wpc \in Early \cup Bare \cup Compiled,
         UNCHANGED <<driver, first>>, wresult' \in WorkerResults, di' \in Int, vi' \in Int,
         wpc \in Early => wpc' \in Early, wpc \in Bare => wpc' \in Bare,
         wpc \in Compiled => wpc' \in Compiled,
         wpc' \in {"none", "read", "parse"} => wresult'.size = 0
  PROVE  IInv'
BY DEF IInv, driver, EarlyInv, BareInv, CompiledInv, GraphInv, ContextInv, AnswerInv,
   ExitedInv, NoBlobYet, Early, Bare, Compiled, Answer, Places

(* The same places, left by goto done. *)
LEMMA FailIInv ==
  ASSUME IInv, wpc \in Early \cup Bare \cup Compiled, UNCHANGED driver,
         NEW st \in WorkerStatuses \ {"OK"}, GiveUp(st), di' \in Int, vi' \in Int
  PROVE  IInv'
<1>1. /\ context' = context /\ graph' = graph /\ objects' = objects /\ stuck' = stuck
  BY DEF driver
<1>2. CASE wpc \in Early
  <2>1. ~context /\ graph = Null /\ objects = {} /\ stuck = {}
    BY <1>2 DEF IInv, EarlyInv
  <2> QED BY <1>1, <2>1, GiveUpIInv DEF Contexts, Graphs
<1>3. CASE wpc \in Bare
  <2>1. context /\ graph = Null /\ objects = {"context"} /\ stuck = {}
    BY <1>3 DEF IInv, BareInv
  <2> QED BY <1>1, <2>1, GiveUpIInv DEF Contexts, Graphs
<1>4. CASE wpc \in Compiled
  <2>1. context /\ graph = "compiled" /\ objects = {"context", "compiled"} /\ stuck = {}
    BY <1>4 DEF IInv, CompiledInv
  <2> QED BY <1>1, <2>1, GiveUpIInv, NullFacts DEF Contexts, Graphs
<1> QED BY <1>2, <1>3, <1>4

LEMMA AskIInv ==
  ASSUME IInv, NEW at, NEW next, NEW failures, Ask(at, next, failures),
         at \in Early \cup Bare, next # "none", next # "read", next # "parse",
         at \in Early => next \in Early, at \in Bare => next \in Bare,
         failures \subseteq WorkerStatuses \ {"OK"}
  PROVE  IInv'
<1>1. /\ wpc = at /\ di' \in Int /\ vi' \in Int /\ UNCHANGED driver
  BY DEF Ask, select, IInv
<1>2. CASE wpc' = next /\ UNCHANGED <<wresult, first>>
  <2>1. wresult' \in WorkerResults
    BY <1>2 DEF IInv
  <2>2. wpc \notin Compiled
    BY <1>1 DEF Early, Bare, Compiled
  <2> QED BY <1>1, <1>2, <2>1, <2>2, MoveIInv
<1>3. CASE \E st \in failures : GiveUp(st)
  BY <1>1, <1>3, FailIInv
<1> QED BY <1>2, <1>3 DEF Ask

----------------------------------------------------------------------------
(* One lemma per step of the worker *)

LEMMA RequestIInv == IInv /\ (ReadRequest \/ ParseRequest) => IInv'
<1> SUFFICES ASSUME IInv, ReadRequest \/ ParseRequest PROVE IInv'
  OBVIOUS
<1>1. /\ wpc \in {"read", "parse"} /\ UNCHANGED <<driver, first>>
      /\ di' \in Int /\ vi' \in Int
  BY DEF ReadRequest, ParseRequest, select, IInv
<1>2. wresult.size = 0 /\ ~context /\ graph = Null /\ objects = {} /\ stuck = {} /\ first = Null
  BY <1>1 DEF IInv, NoBlobYet, EarlyInv, Early
<1>3. CASE wpc' = "header" /\ wresult' \in Failure("BAD_REQUEST", wresult)
  <2>1. wresult' \in WorkerResults /\ wresult'.status = "BAD_REQUEST" /\ wresult'.size = 0
    BY <1>2, <1>3, FailureFacts DEF IInv, WorkerStatuses
  <2> QED
    BY <1>1, <1>2, <1>3, <2>1 DEF IInv, driver, EarlyInv, BareInv, CompiledInv, GraphInv,
       ContextInv, AnswerInv, ExitedInv, NoBlobYet, Early, Bare, Compiled, Answer, Places
<1>4. CASE wpc' = "parse" /\ UNCHANGED wresult
  <2>1. wresult' \in WorkerResults
    BY <1>4 DEF IInv
  <2> QED BY <1>1, <1>2, <1>4, <2>1, MoveIInv DEF Early, Bare, Compiled
<1>5. CASE wpc' = "load" /\ wresult' = [wresult EXCEPT !.status = "DRIVER_FAILED"]
  <2>1. wresult' \in WorkerResults
    BY <1>5 DEF IInv, WorkerResults, WorkerStatuses
  <2> QED BY <1>1, <1>5, <2>1, MoveIInv DEF Early, Bare, Compiled
<1> QED BY <1>3, <1>4, <1>5 DEF ReadRequest, ParseRequest

LEMMA AsksIInv ==
  IInv /\ (LoadLoader \/ DriverProperties \/ FindGraphVersion \/ GetGraphDdi
          \/ QueryGraphContract \/ EntryPoints) => IInv'
<1>1. IInv /\ LoadLoader => IInv'
  BY AskIInv DEF LoadLoader, Early, Bare, WorkerStatuses
<1>2. IInv /\ DriverProperties => IInv'
  BY AskIInv DEF DriverProperties, Early, Bare, WorkerStatuses
<1>3. IInv /\ FindGraphVersion => IInv'
  BY AskIInv DEF FindGraphVersion, Early, Bare, WorkerStatuses
<1>4. IInv /\ GetGraphDdi => IInv'
  BY AskIInv DEF GetGraphDdi, Early, Bare, WorkerStatuses
<1>5. IInv /\ QueryGraphContract => IInv'
  BY AskIInv DEF QueryGraphContract, Early, Bare, WorkerStatuses
<1>6. IInv /\ EntryPoints => IInv'
  BY AskIInv DEF EntryPoints, Early, Bare, WorkerStatuses
<1> QED BY <1>1, <1>2, <1>3, <1>4, <1>5, <1>6

LEMMA SelectIInv == IInv /\ (InitDrivers \/ SelectDriver \/ SelectDevice) => IInv'
<1> SUFFICES ASSUME IInv, InitDrivers \/ SelectDriver \/ SelectDevice PROVE IInv'
  OBVIOUS
<1>1. wpc \in {"drivers", "driver", "device"} /\ UNCHANGED driver
  BY DEF InitDrivers, SelectDriver, SelectDevice
<1>2. di' \in Int /\ vi' \in Int
  <2>1. di' \in {di, di + 1, 0} /\ vi' \in {vi, vi + 1, 0}
    <3>1. CASE InitDrivers
      BY <3>1 DEF InitDrivers
    <3>2. CASE SelectDriver
      BY <3>2 DEF SelectDriver, select
    <3>3. CASE SelectDevice
      BY <3>3 DEF SelectDevice, select
    <3> QED BY <3>1, <3>2, <3>3
  <2> QED BY <2>1 DEF IInv
<1>3. \/ \E st \in WorkerStatuses \ {"OK"} : GiveUp(st)
      \/ /\ wpc' \in {"driver", "device", "properties"} /\ UNCHANGED first
         /\ \/ UNCHANGED wresult
            \/ wresult' = [wresult EXCEPT !.driver = di, !.device = vi]
  <2>1. CASE InitDrivers
    BY <2>1 DEF InitDrivers, WorkerStatuses
  <2>2. CASE SelectDriver
    BY <2>2 DEF SelectDriver, WorkerStatuses
  <2>3. CASE SelectDevice
    BY <2>3 DEF SelectDevice
  <2> QED BY <2>1, <2>2, <2>3
<1>4. CASE \E st \in WorkerStatuses \ {"OK"} : GiveUp(st)
  BY <1>1, <1>2, <1>4, FailIInv DEF Early
<1>5. CASE /\ wpc' \in {"driver", "device", "properties"} /\ UNCHANGED first
           /\ \/ UNCHANGED wresult
              \/ wresult' = [wresult EXCEPT !.driver = di, !.device = vi]
  <2>1. wresult' \in WorkerResults
    BY <1>5 DEF IInv, WorkerResults
  <2> QED BY <1>1, <1>2, <1>5, <2>1, MoveIInv DEF Early, Bare, Compiled
<1> QED BY <1>3, <1>4, <1>5

(* goto done after a success. *)
LEMMA SucceedIInv ==
  ASSUME IInv, Succeed, di' \in Int, vi' \in Int,
         objects' = Contexts' \cup Graphs', graph' \in {Null, "compiled", "reloaded"},
         graph' # Null => context', stuck' = {}
  PROVE  IInv'
<1>1. wresult' \in WorkerResults /\ wresult'.status = "OK" /\ wresult'.code = "SUCCESS"
  BY DEF Succeed, IInv, WorkerResults, WorkerStatuses
<1> QED
  BY <1>1 DEF Succeed, IInv, EarlyInv, BareInv, CompiledInv, GraphInv, ContextInv, AnswerInv,
     ExitedInv, NoBlobYet, Early, Bare, Compiled, Answer, Places

LEMMA PackageIInv == IInv /\ Package => IInv'
<1> SUFFICES ASSUME IInv, Package PROVE IInv'
  OBVIOUS
<1>1. wpc = "mode" /\ UNCHANGED driver /\ di' \in Int /\ vi' \in Int
  BY DEF Package, select, IInv
<1>2. CASE Succeed
  <2>1. ~context' /\ graph' = Null /\ objects' = {} /\ stuck' = {}
    BY <1>1 DEF IInv, EarlyInv, Early, driver
  <2> QED BY <1>1, <1>2, <2>1, SucceedIInv DEF Contexts, Graphs
<1>3. CASE wpc' = "context" /\ UNCHANGED <<wresult, first>>
  <2>1. wresult' \in WorkerResults
    BY <1>3 DEF IInv
  <2> QED BY <1>1, <1>3, <2>1, MoveIInv DEF Early, Bare, Compiled
<1>4. CASE GiveUp("OUT_OF_MEMORY")
  BY <1>1, <1>4, FailIInv DEF Early, WorkerStatuses
<1> QED BY <1>2, <1>3, <1>4 DEF Package

LEMMA CreateContextIInv == IInv /\ CreateContext => IInv'
<1> SUFFICES ASSUME IInv, CreateContext PROVE IInv'
  OBVIOUS
<1>1. wpc = "context" /\ UNCHANGED <<graph, stuck>> /\ di' \in Int /\ vi' \in Int
  BY DEF CreateContext, select, IInv
<1>2. CASE GiveUp("DRIVER_FAILED") /\ UNCHANGED <<context, objects>>
  BY <1>1, <1>2, FailIInv DEF Early, WorkerStatuses, driver
<1>3. CASE /\ context' = TRUE /\ objects' = objects \cup {"context"}
           /\ wpc' = "entry_points" /\ UNCHANGED <<wresult, first>>
  <2>1. graph = Null /\ objects = {} /\ stuck = {} /\ first = Null /\ wresult \in WorkerResults
    BY <1>1 DEF IInv, EarlyInv, Early
  <2> QED
    BY <1>1, <1>3, <2>1 DEF IInv, EarlyInv, BareInv, CompiledInv, GraphInv, ContextInv, AnswerInv,
       ExitedInv, NoBlobYet, Early, Bare, Compiled, Answer, Places
<1> QED BY <1>2, <1>3 DEF CreateContext

LEMMA CompileIInv == IInv /\ Compile => IInv'
<1> SUFFICES ASSUME IInv, Compile PROVE IInv'
  OBVIOUS
<1>1. wpc = "create" /\ UNCHANGED <<context, stuck>> /\ di' \in Int /\ vi' \in Int
  BY DEF Compile, CreateGraph, select, IInv
<1>2. /\ context /\ graph = Null /\ objects = {"context"} /\ stuck = {} /\ first = Null
      /\ wresult \in WorkerResults
  BY <1>1 DEF IInv, BareInv, Bare
<1>3. CASE GiveUp("DRIVER_FAILED") /\ UNCHANGED <<graph, objects>>
  BY <1>1, <1>3, FailIInv DEF Bare, WorkerStatuses, driver
<1>4. CASE /\ graph' = "compiled" /\ objects' = objects \cup {"compiled"}
           /\ wpc' \in {"native2", "native_size"} /\ UNCHANGED <<wresult, first>>
  BY <1>1, <1>2, <1>4 DEF IInv, EarlyInv, BareInv, CompiledInv, GraphInv, ContextInv, AnswerInv,
     ExitedInv, NoBlobYet, Early, Bare, Compiled, Answer, Places
<1> QED BY <1>3, <1>4 DEF Compile, CreateGraph

LEMMA ExportIInv == IInv /\ (GetNativeSize \/ GetNativeData \/ CheckMagic) => IInv'
<1> SUFFICES ASSUME IInv, GetNativeSize \/ GetNativeData \/ CheckMagic PROVE IInv'
  OBVIOUS
<1>1. /\ wpc \in {"native2", "native_size", "native_data", "magic"} /\ UNCHANGED driver
      /\ di' \in Int /\ vi' \in Int
  BY DEF GetNativeSize, GetNativeData, CheckMagic, select, IInv
<1>2. \/ \E st \in WorkerStatuses \ {"OK"} : GiveUp(st)
      \/ /\ wpc' \in {"native_data", "magic", "destroy"} /\ UNCHANGED first
         /\ wresult' \in WorkerResults
  <2>1. BlobSizes \cup {0} \subseteq Int
    BY IrAssumption
  <2>2. CASE GetNativeSize
    <3>1. CASE \E st \in {"DRIVER_FAILED", "OUT_OF_MEMORY"} : GiveUp(st)
      BY <3>1 DEF WorkerStatuses
    <3>2. CASE \E n \in BlobSizes, k \in {"elf", "other"} :
                 /\ wresult' = [wresult EXCEPT !.size = n,
                                              !.kind = IF wpc = "native2" THEN k ELSE "none"]
                 /\ wpc' = IF wpc = "native2" THEN "magic" ELSE "native_data"
                 /\ UNCHANGED first
      BY <2>1, <3>2 DEF IInv, WorkerResults
    <3> QED BY <2>2, <3>1, <3>2 DEF GetNativeSize
  <2>3. CASE GetNativeData
    <3>1. CASE GiveUp("DRIVER_FAILED")
      BY <3>1 DEF WorkerStatuses
    <3>2. CASE \E n \in BlobSizes \cup {0}, k \in {"elf", "other"} :
                 /\ wresult' = [wresult EXCEPT !.size = n, !.kind = k]
                 /\ wpc' = "magic" /\ UNCHANGED first
      BY <2>1, <3>2 DEF IInv, WorkerResults
    <3> QED BY <2>3, <3>1, <3>2 DEF GetNativeData
  <2>4. CASE CheckMagic
    BY <2>4 DEF CheckMagic, IInv, WorkerStatuses
  <2> QED BY <2>2, <2>3, <2>4
<1>3. CASE \E st \in WorkerStatuses \ {"OK"} : GiveUp(st)
  BY <1>1, <1>3, FailIInv DEF Compiled
<1>4. CASE /\ wpc' \in {"native_data", "magic", "destroy"} /\ UNCHANGED first
           /\ wresult' \in WorkerResults
  BY <1>1, <1>4, MoveIInv DEF Early, Bare, Compiled
<1> QED BY <1>2, <1>3, <1>4

LEMMA DestroyCompiledIInv == IInv /\ DestroyCompiled => IInv'
<1> SUFFICES ASSUME IInv, DestroyCompiled PROVE IInv'
  OBVIOUS
<1>1. wpc = "destroy" /\ graph' = Null /\ context' = context /\ di' \in Int /\ vi' \in Int
  BY DEF DestroyCompiled, Forgotten, select, IInv
<1>2. /\ context /\ graph = "compiled" /\ objects = {"context", "compiled"} /\ stuck = {}
      /\ first = Null /\ wresult \in WorkerResults
  BY <1>1 DEF IInv, CompiledInv, Compiled
<1>3. CASE Destroyed(graph) /\ wpc' = "reload" /\ UNCHANGED <<wresult, first>>
  <2>1. objects' = {"context"} /\ stuck' = {}
    BY <1>2, <1>3 DEF Destroyed
  <2> QED
    BY <1>1, <1>2, <1>3, <2>1 DEF IInv, EarlyInv, BareInv, CompiledInv, GraphInv, ContextInv,
       AnswerInv, ExitedInv, NoBlobYet, Early, Bare, Compiled, Answer, Places
<1>4. CASE Refused(graph) /\ GiveUp("DRIVER_FAILED")
  <2>1. objects' = {"context", "compiled"} /\ stuck' = {"compiled"}
    BY <1>2, <1>4 DEF Refused
  <2> QED BY <1>1, <1>2, <1>4, <2>1, GiveUpIInv, NullFacts DEF Contexts, Graphs, WorkerStatuses
<1> QED BY <1>3, <1>4 DEF DestroyCompiled

LEMMA ReloadIInv == IInv /\ Reload => IInv'
<1> SUFFICES ASSUME IInv, Reload PROVE IInv'
  OBVIOUS
<1>1. wpc = "reload" /\ UNCHANGED <<context, stuck>> /\ di' \in Int /\ vi' \in Int
  BY DEF Reload, CreateGraph, select, IInv
<1>2. context /\ graph = Null /\ objects = {"context"} /\ stuck = {}
  BY <1>1 DEF IInv, BareInv, Bare
<1>3. CASE GiveUp("DRIVER_FAILED") /\ UNCHANGED <<graph, objects>>
  BY <1>1, <1>3, FailIInv DEF Bare, WorkerStatuses, driver
<1>4. CASE graph' = "reloaded" /\ objects' = objects \cup {"reloaded"} /\ Succeed
  BY <1>1, <1>2, <1>4, SucceedIInv, NullFacts DEF Contexts, Graphs
<1> QED BY <1>3, <1>4 DEF Reload, CreateGraph

(* What a refusal to destroy does to the result. *)
LEMMA RefusalFacts ==
  ASSUME NEW r \in WorkerResults, NEW s \in AfterRefusal(r)
  PROVE  /\ s \in WorkerResults /\ s.status # "OK"
         /\ s.status = IF r.status = "OK" THEN "DRIVER_FAILED" ELSE r.status
         /\ s.size = r.size /\ s.driver = r.driver /\ s.device = r.device
<1>1. CASE r.status = "OK"
  BY <1>1, FailureFacts DEF AfterRefusal, WorkerStatuses
<1>2. CASE r.status # "OK"
  BY <1>2 DEF AfterRefusal
<1> QED BY <1>1, <1>2

LEMMA CleanUpGraphIInv == IInv /\ CleanUpGraph => IInv'
<1> SUFFICES ASSUME IInv, CleanUpGraph PROVE IInv'
  OBVIOUS
<1>1. /\ wpc = "cleanup_graph" /\ wpc' = "cleanup_context" /\ UNCHANGED <<context, graph, first>>
      /\ di' \in Int /\ vi' \in Int
  BY DEF CleanUpGraph, select, IInv
<1>2. GraphInv /\ wresult \in WorkerResults
  BY DEF IInv
<1>3. /\ wresult' \in WorkerResults /\ ContextInv'
  <2>1. CASE graph = Null /\ UNCHANGED <<wresult, objects, stuck>>
    BY <1>1, <1>2, <2>1 DEF GraphInv, ContextInv, Contexts, Graphs, WorkerResults
  <2>2. CASE graph # Null /\ Destroyed(graph) /\ UNCHANGED wresult
    BY <1>1, <1>2, <2>2 DEF GraphInv, ContextInv, Contexts, Graphs, WorkerResults, Destroyed
  <2>3. CASE graph # Null /\ Refused(graph) /\ wresult' \in AfterRefusal(wresult)
    <3>1. /\ wresult' \in WorkerResults /\ wresult'.status # "OK"
          /\ wresult'.status = IF wresult.status = "OK" THEN "DRIVER_FAILED" ELSE wresult.status
      BY <1>2, <2>3, RefusalFacts
    <3> QED
      BY <1>1, <1>2, <2>3, <3>1 DEF GraphInv, ContextInv, Contexts, Graphs, WorkerResults, Refused
  <2> QED BY <2>1, <2>2, <2>3 DEF CleanUpGraph, ToDestroy
<1> QED
  BY <1>1, <1>3 DEF IInv, EarlyInv, BareInv, CompiledInv, GraphInv, AnswerInv, ExitedInv,
     NoBlobYet, Early, Bare, Compiled, Answer, Places

LEMMA DroppedFacts ==
  ASSUME NEW r \in WorkerResults
  PROVE  /\ Dropped(r) \in WorkerResults
         /\ Dropped(r).status = r.status /\ Dropped(r).code = r.code
         /\ Dropped(r).driver = r.driver /\ Dropped(r).device = r.device
         /\ IF r.status = "OK" THEN Dropped(r) = r ELSE Dropped(r).size = 0
<1>1. CASE r.status = "OK"
  BY <1>1 DEF Dropped
<1>2. CASE r.status # "OK"
  <2>1. Dropped(r) = [r EXCEPT !.size = 0, !.kind = "none"]
    BY <1>2 DEF Dropped
  <2>2. [r EXCEPT !.size = 0, !.kind = "none"] \in WorkerResults
    <3>1. 0 \in Int
      OBVIOUS
    <3>2. ASSUME NEW n \in Int, NEW k \in {"none", "elf", "other"}
          PROVE  [r EXCEPT !.size = n, !.kind = k] \in WorkerResults
      BY DEF WorkerResults
    <3> QED BY <3>1, <3>2
  <2>3. /\ [r EXCEPT !.size = 0, !.kind = "none"].status = r.status
        /\ [r EXCEPT !.size = 0, !.kind = "none"].code = r.code
        /\ [r EXCEPT !.size = 0, !.kind = "none"].driver = r.driver
        /\ [r EXCEPT !.size = 0, !.kind = "none"].device = r.device
        /\ [r EXCEPT !.size = 0, !.kind = "none"].size = 0
    BY DEF WorkerResults
  <2> QED BY <1>2, <2>1, <2>2, <2>3
<1> QED BY <1>1, <1>2

LEMMA CleanUpContextIInv == IInv /\ CleanUpContext => IInv'
<1> SUFFICES ASSUME IInv, CleanUpContext PROVE IInv'
  OBVIOUS
<1>1. /\ wpc = "cleanup_context" /\ wpc' = "header" /\ UNCHANGED <<context, graph, first>>
      /\ di' \in Int /\ vi' \in Int
  BY DEF CleanUpContext, select, IInv
<1>2. ContextInv /\ wresult \in WorkerResults
  BY DEF IInv
<1>3. ASSUME wresult' = Dropped(wresult), stuck' = stuck, objects' = objects \ {"context"}
      PROVE  wresult' \in WorkerResults /\ AnswerInv'
  <2>1. /\ wresult' \in WorkerResults /\ wresult'.status = wresult.status
        /\ wresult'.code = wresult.code
        /\ wresult.status # "OK" => wresult'.size = 0
    BY <1>2, <1>3, DroppedFacts
  <2>2. objects' \subseteq stuck'
    BY <1>1, <1>2, <1>3 DEF ContextInv, Contexts
  <2> QED
    BY <1>1, <1>2, <1>3, <2>1, <2>2 DEF ContextInv, AnswerInv, FirstErrorKept
<1>4. /\ wresult' \in WorkerResults /\ AnswerInv'
  <2>1. CASE ~context /\ wresult' = Dropped(wresult) /\ UNCHANGED <<objects, stuck>>
    <3>1. "context" \notin objects
      BY <1>1, <1>2, <2>1 DEF ContextInv, Contexts
    <3> QED BY <1>3, <2>1, <3>1
  <2>2. CASE context /\ Destroyed("context") /\ wresult' = Dropped(wresult)
    BY <1>3, <2>2 DEF Destroyed
  <2>3. CASE context /\ Refused("context") /\ \E r \in AfterRefusal(wresult) : wresult' = Dropped(r)
    <3>1. PICK r \in AfterRefusal(wresult) : wresult' = Dropped(r)
      BY <2>3
    <3>2. /\ r \in WorkerResults /\ r.status # "OK"
          /\ r.status = IF wresult.status = "OK" THEN "DRIVER_FAILED" ELSE wresult.status
      BY <1>2, RefusalFacts
    <3>3. /\ wresult' \in WorkerResults /\ wresult'.status = r.status /\ wresult'.size = 0
      BY <3>1, <3>2, DroppedFacts
    <3> QED
      BY <1>1, <1>2, <2>3, <3>2, <3>3 DEF ContextInv, AnswerInv, FirstErrorKept, Contexts, Refused
  <2> QED BY <2>1, <2>2, <2>3 DEF CleanUpContext
<1> QED
  BY <1>1, <1>4 DEF IInv, EarlyInv, BareInv, CompiledInv, GraphInv, ContextInv, ExitedInv,
     NoBlobYet, Early, Bare, Compiled, Answer, Places

LEMMA AnswerStepIInv == IInv /\ (SendResponse \/ Crash) => IInv'
<1> SUFFICES ASSUME IInv, SendResponse \/ Crash PROVE IInv'
  OBVIOUS
<1>1. /\ UNCHANGED <<wresult, context, graph, objects, stuck, first>>
      /\ di' \in Int /\ vi' \in Int
  BY DEF SendResponse, Crash, driver, select, IInv
<1>2. CASE wpc \in Answer /\ wpc' \in {"output", "message"}
  <2>1. AnswerInv'
    BY <1>1, <1>2 DEF IInv, AnswerInv, FirstErrorKept, Sending, Answer
  <2> QED
    BY <1>1, <1>2, <2>1 DEF IInv, EarlyInv, BareInv, CompiledInv, GraphInv, ContextInv, ExitedInv,
       NoBlobYet, Early, Bare, Compiled, Answer, Places
<1>3. CASE wpc' = "exited" /\ wpc \notin {"none", "exited"} /\ wpc \in Places
  <2>1. "context" \notin objects => objects \subseteq stuck
    <3>1. CASE wpc \in Early \cup Bare \cup Compiled
      BY <3>1 DEF IInv, EarlyInv, BareInv, CompiledInv
    <3>2. CASE wpc = "cleanup_graph"
      BY <3>2 DEF IInv, GraphInv, Contexts, Graphs
    <3>3. CASE wpc = "cleanup_context"
      BY <3>3 DEF IInv, ContextInv, Contexts
    <3>4. CASE wpc \in Answer
      BY <3>4 DEF IInv, AnswerInv
    <3> QED BY <1>3, <3>1, <3>2, <3>3, <3>4 DEF Places
  <2> QED
    BY <1>1, <1>3, <2>1 DEF IInv, EarlyInv, BareInv, CompiledInv, GraphInv, ContextInv, AnswerInv,
       ExitedInv, NoBlobYet, Early, Bare, Compiled, Answer, Places
<1>4. wpc \in Places
  BY DEF IInv
<1>5. CASE SendResponse
  <2>1. /\ wpc \in Answer /\ wpc' \in {"output", "message", "exited"}
    BY <1>5 DEF SendResponse, Answer
  <2> QED BY <1>2, <1>3, <1>4, <2>1 DEF Answer
<1>6. CASE Crash
  BY <1>3, <1>4, <1>6 DEF Crash
<1> QED BY <1>5, <1>6

(* The supervisor's end of the worker, whatever it was doing. *)
LEMMA SupervisorReturnsIInv == IInv /\ SupervisorReturns => IInv'
<1> SUFFICES ASSUME SupervisorReturns PROVE IInv'
  OBVIOUS
<1>1. /\ wpc' = "none" /\ di' = 0 /\ vi' = 0 /\ wresult' = NoResult /\ context' = FALSE
      /\ graph' = Null /\ objects' = {} /\ stuck' = {} /\ first' = Null
  BY DEF SupervisorReturns
<1> QED
  BY <1>1 DEF NoResult, IInv, WorkerResults, WorkerStatuses, EarlyInv, BareInv, CompiledInv,
     GraphInv, ContextInv, AnswerInv, ExitedInv, NoBlobYet, Early, Bare, Compiled, Answer, Places

LEMMA StartWorkerIInv == IInv /\ ClientInv /\ StartWorker => IInv'
<1> SUFFICES ASSUME IInv, ClientInv, StartWorker PROVE IInv'
  OBVIOUS
<1>1. /\ UNCHANGED <<driver, first, wresult>> /\ di' \in Int /\ vi' \in Int
      /\ wpc = "none" /\ wpc' \in {"none", "read"}
  BY DEF StartWorker, select, IInv, ClientInv
<1>2. wresult' \in WorkerResults /\ wresult'.size = 0
  BY <1>1 DEF IInv, NoBlobYet
<1> QED BY <1>1, <1>2, MoveIInv DEF Early, Bare, Compiled

(* The worker leaves the client alone; the history of the call only grows. *)
LEMMA WorkerFrame ==
  ASSUME Worker
  PROVE  /\ UNCHANGED <<client, platform>> /\ wpc # "none"
         /\ seen' \in {seen, seen \cup {"oom"}, seen \cup {"call_failed"}, seen \cup {"reloaded"}}
<1>1. CASE ReadRequest \/ ParseRequest
  BY <1>1 DEF ReadRequest, ParseRequest
<1>2. CASE LoadLoader \/ DriverProperties \/ FindGraphVersion
  BY <1>2 DEF LoadLoader, DriverProperties, FindGraphVersion, Ask
<1>3. CASE GetGraphDdi \/ QueryGraphContract \/ EntryPoints
  BY <1>3 DEF GetGraphDdi, QueryGraphContract, EntryPoints, Ask
<1>4. CASE InitDrivers \/ SelectDriver \/ SelectDevice
  BY <1>4 DEF InitDrivers, SelectDriver, SelectDevice
<1>5. CASE Package \/ CreateContext \/ Compile
  BY <1>5 DEF Package, CreateContext, Compile, CreateGraph
<1>6. CASE GetNativeSize \/ GetNativeData \/ CheckMagic
  BY <1>6 DEF GetNativeSize, GetNativeData, CheckMagic
<1>7. CASE DestroyCompiled \/ Reload
  BY <1>7 DEF DestroyCompiled, Reload, CreateGraph
<1>8. CASE CleanUpGraph \/ CleanUpContext
  BY <1>8 DEF CleanUpGraph, CleanUpContext
<1>9. CASE SendResponse \/ Crash
  BY <1>9 DEF SendResponse, Crash
<1> QED BY <1>1, <1>2, <1>3, <1>4, <1>5, <1>6, <1>7, <1>8, <1>9 DEF Worker

LEMMA ClientStep == ClientInv /\ [Next]_vars => ClientInv'
<1> SUFFICES ASSUME ClientInv, [Next]_vars PROVE ClientInv'
  OBVIOUS
<1> USE DEF ClientInv
<1>1. CASE Call
  BY <1>1 DEF Call, worker
<1>2. CASE Client
  <2>1. CASE BuildRequest
    BY <2>1 DEF BuildRequest, worker
  <2>2. CASE StartWorker
    BY <2>2 DEF StartWorker
  <2>3. CASE SupervisorReturns
    BY <2>3 DEF SupervisorReturns
  <2>4. CASE WorkerReturns
    BY <2>4 DEF WorkerReturns, worker
  <2>5. CASE MoveLogs \/ CheckWorker \/ Done
    BY <2>5 DEF MoveLogs, CheckWorker, Done, worker
  <2> QED BY <1>2, <2>1, <2>2, <2>3, <2>4, <2>5 DEF Client
<1>3. CASE Worker
  BY <1>3, WorkerFrame DEF client
<1>4. CASE Release
  BY <1>4 DEF Release, worker
<1>5. CASE UNCHANGED vars
  BY <1>5 DEF vars, client, worker
<1> QED BY <1>1, <1>2, <1>3, <1>4, <1>5 DEF Next

LEMMA NextIInv == IInv /\ ClientInv /\ [Next]_vars => IInv'
<1> SUFFICES ASSUME IInv, ClientInv, [Next]_vars PROVE IInv'
  OBVIOUS
<1>1. CASE Call \/ Release
  BY <1>1, UnchangedIInv DEF Call, Release
<1>2. CASE Client
  <2>1. CASE StartWorker \/ SupervisorReturns
    BY <2>1, StartWorkerIInv, SupervisorReturnsIInv
  <2>2. CASE BuildRequest \/ WorkerReturns
    BY <2>2, UnchangedIInv DEF BuildRequest, WorkerReturns
  <2>3. CASE MoveLogs \/ CheckWorker \/ Done
    BY <2>3, UnchangedIInv DEF MoveLogs, CheckWorker, Done
  <2> QED BY <1>2, <2>1, <2>2, <2>3 DEF Client
<1>3. CASE Worker
  BY <1>3, RequestIInv, AsksIInv, SelectIInv, PackageIInv, CreateContextIInv, CompileIInv,
     ExportIInv, DestroyCompiledIInv, ReloadIInv, CleanUpGraphIInv, CleanUpContextIInv,
     AnswerStepIInv DEF Worker
<1>4. CASE UNCHANGED vars
  BY <1>4, UnchangedIInv DEF vars
<1> QED BY <1>1, <1>2, <1>3, <1>4 DEF Next

LEMMA Inductive == Spec => [](IInv /\ ClientInv)
<1>1. Init => IInv /\ ClientInv
  BY InitIInv DEF Init, NoWorker, ClientInv
<1>2. IInv /\ ClientInv /\ [Next]_vars => (IInv /\ ClientInv)'
  BY NextIInv, ClientStep
<1> QED BY <1>1, <1>2, PTL DEF Spec

----------------------------------------------------------------------------
(* For every machine, request and behaviour of the driver: a response      *)
(* carries a blob only with status OK, and says OK only when everything in *)
(* the driver was destroyed.                                               *)
THEOREM ResponseConsistentCorrect == Spec => []ResponseConsistent
<1>1. IInv => ResponseConsistent
  BY DEF IInv, AnswerInv, Answer, ResponseConsistent, Sending
<1> QED BY <1>1, Inductive, PTL

(* The failures of the cleanup at the label done never hide the failure    *)
(* that made compile_ir stop.                                              *)
THEOREM FirstErrorCorrect == Spec => []FirstErrorKept
<1>1. IInv => FirstErrorKept
  BY DEF IInv, AnswerInv, Answer, FirstErrorKept, Sending
<1> QED BY <1>1, Inductive, PTL

(* compile_ir never uses a graph that it destroyed or tried to destroy. *)
THEOREM HandleValidCorrect == Spec => []HandleValid
<1>1. IInv => HandleValid
  <2> SUFFICES ASSUME IInv, graph # Null,
                      wpc \notin {"cleanup_context", "header", "output", "message", "exited", "none"}
               PROVE  graph \in objects \ stuck
    BY DEF HandleValid
  <2>1. wpc \in Compiled \cup {"cleanup_graph"}
    BY DEF IInv, EarlyInv, BareInv, Early, Bare, Places, Answer
  <2>2. CASE wpc \in Compiled
    BY <2>2 DEF IInv, CompiledInv
  <2>3. CASE wpc = "cleanup_graph"
    BY <2>3 DEF IInv, GraphInv, Graphs
  <2> QED BY <2>1, <2>2, <2>3
<1> QED BY <1>1, Inductive, PTL

(* Every way out of compile_ir leaves in the driver only what the driver   *)
(* refused to destroy.                                                     *)
THEOREM DriverObjectsCorrect == Spec => []DriverObjectsReleased
<1>1. IInv => DriverObjectsReleased
  <2> SUFFICES ASSUME IInv, Sending \/ "context" \notin objects PROVE objects \subseteq stuck
    BY DEF DriverObjectsReleased
  <2>1. CASE wpc \in Early \cup Bare \cup Compiled
    BY <2>1 DEF IInv, EarlyInv, BareInv, CompiledInv, Sending, Early, Bare, Compiled
  <2>2. CASE wpc = "cleanup_graph"
    BY <2>2 DEF IInv, GraphInv, Contexts, Graphs, Sending
  <2>3. CASE wpc = "cleanup_context"
    BY <2>3 DEF IInv, ContextInv, Contexts, Sending
  <2>4. CASE wpc \in Answer \cup {"exited"}
    BY <2>4 DEF IInv, AnswerInv, ExitedInv, Answer, Sending
  <2> QED BY <2>1, <2>2, <2>3, <2>4 DEF IInv, Places
<1> QED BY <1>1, Inductive, PTL

(* compile_ir never uses a destroyed object of the driver and never leaves *)
(* one behind, for every machine and behaviour of the driver.              *)
THEOREM DriverCorrect == Spec => []DriverSound
BY HandleValidCorrect, DriverObjectsCorrect, PTL DEF DriverSound

(* Whatever fails, the response tells the first failure and has no blob.   *)
THEOREM ResponseCorrect == Spec => []ResponseSound
BY ResponseConsistentCorrect, FirstErrorCorrect, PTL DEF ResponseSound

----------------------------------------------------------------------------
(* What the caller gets *)

(* The place where the block of a variable was allocated. *)
Origin(s) == CASE s \in {"worker_out", "log"} -> "out"
               [] s \in {"worker_err", "errlog"} -> "err"
               [] s = "blob" -> "worker_blob"
               [] OTHER -> s

(* The variables that may point to a block. *)
LiveAt == CASE pc \in {"idle", "build"} -> {}
            [] pc \in {"start", "wait"} -> {"request"}
            [] pc = "ran" -> {"request", "response", "out", "err"}
            [] pc = "logs" -> {"worker_blob", "worker_message", "worker_out", "worker_err"}
            [] pc = "check" -> {"worker_blob", "worker_message", "log", "errlog"}
            [] pc = "done" /\ status = "OK" -> {"worker_message", "log", "errlog", "blob"}
            [] pc = "done" /\ status # "OK" ->
                 {"worker_blob", "worker_message", "log", "errlog", "diagnostic"}
            [] pc = "returned" /\ status = "OK" -> {"log", "errlog", "blob"}
            [] pc = "returned" /\ status # "OK" -> {"log", "errlog", "diagnostic"}

MemInv == /\ DOMAIN mem = Slots
          /\ Live \subseteq LiveAt
          /\ \A s \in Live : mem[s].id = Origin(s)
          /\ MemoryExact

(* A result with status OK answers the request, and a refused request is   *)
(* due to a lack of memory.                                                *)
Answers(r) == /\ options.mode = "COMPILE" => "reloaded" \in seen /\ r.kind = "elf" /\ r.size >= 1
              /\ options.mode = "QUERY" => r.size = 0
Truthful(r) == /\ r.status = "OK" => Answers(r)
               /\ r.status = "BAD_REQUEST" => "oom" \in seen

(* The worker: the blob is empty until it is exported, it is exported for  *)
(* a compilation only, and loaded again only when it is an ELF.            *)
Unexported  == Early \cup {"entry_points", "create"}
CompileOnly == {"context"} \cup Bare \cup Compiled
Answered    == {"cleanup_graph", "cleanup_context"} \cup Answer

DeliverInv ==
  /\ wresult.size \in 0 .. MaxBlob
  /\ wpc = "none" => wresult = NoResult
  /\ wpc \in Unexported => wresult.size = 0
  /\ wpc \in CompileOnly => options.mode = "COMPILE"
  /\ wpc \in {"destroy", "reload"} => IsElf(wresult)
  /\ wpc \in Answered \/ (wpc = "exited" /\ exit = 0) => Truthful(wresult)

(* What was sent of the response. *)
Whole(r) == Header + r.size + r.message

SentInv ==
  /\ wpc \notin {"output", "message", "exited"} => sent = 0
  /\ wpc = "output" => sent = Header
  /\ wpc = "message" => sent = Header + wresult.size
  /\ wpc = "exited" => sent \in 0 .. Whole(wresult) /\ (exit = 0 => sent = Whole(wresult))

(* The client: a good end of the worker comes with a whole response, and   *)
(* its blob stays where the next step looks for it.                        *)
Excused == \/ options.check # "OK" \/ options.workerPath # "good"
           \/ Header + options.size > MaxMessage \/ "oom" \in seen

HasBlob(s) == IF options.mode = "COMPILE"
                THEN /\ mem[s] # Null /\ "reloaded" \in seen
                     /\ mem[s].what.kind = "elf" /\ mem[s].what.status = "OK"
                ELSE mem[s] = Null

OptionsInv == IF pc = "idle" THEN options = Null ELSE options \in Options

RequestInv == pc \in {"start", "wait"} => mem["request"] # Null /\ mem["request"].what = options

FailedInv == /\ pc \in {"idle", "build", "start", "wait"} => "failed" \notin seen /\ status = "OK"
             /\ status = "OK" => "failed" \notin seen
             /\ status = "INVALID_ARGUMENT" => Excused

DeliveredInv ==
  status = "OK" =>
    /\ pc = "ran" => /\ mem["response"] # Null
                     /\ mem["response"].what \in WorkerResults
                     /\ Truthful(mem["response"].what)
    /\ pc \in {"logs", "check"} => HasBlob("worker_blob")
    /\ pc \in {"done", "returned"} => HasBlob("blob")

CallInv == OptionsInv /\ RequestInv /\ FailedInv /\ DeliveredInv

(* The loops of select_npu: unless a call failed, no device that the       *)
(* request allows has been passed over.                                    *)
NotPassed(at) == "call_failed" \notin seen => \A m \in Matches : ~Before(m, at)

SelectInv ==
  /\ wpc = "driver" => di \in 0 .. Len(platform) /\ NotPassed(<<di, 0>>)
  /\ wpc = "device" => /\ di \in 0 .. Len(platform) - 1 /\ vi \in 0 .. Len(platform[di + 1])
                       /\ Wanted(options.driver, di)
                       /\ NotPassed(<<di, vi>>)

ClientType == /\ pc \in {"idle", "build", "start", "wait", "ran", "logs", "check", "done", "returned"}
              /\ status \in Statuses /\ platform \in Platforms

DriverType == /\ context \in BOOLEAN /\ graph \in {Null, "compiled", "reloaded"}
              /\ objects \cup stuck \subseteq {"context", "compiled", "reloaded"}
              /\ exit \in {Null, 0, 3, 5}

ResultInv == /\ ClientType /\ DriverType /\ MemInv /\ DeliverInv /\ SentInv
             /\ CallInv /\ SelectInv /\ SelectsFirstNpu

(* The first label done: a failure that is told needs no more of the       *)
(* result.                                                                 *)
Failures == WorkerStatuses \ {"OK", "BAD_REQUEST", "NPU_NOT_FOUND"}

(* A step of the worker that is not about the choice of the device. *)
Onward == /\ wresult'.driver = wresult.driver /\ wresult'.device = wresult.device
          /\ first' = first \/ first' # "NPU_NOT_FOUND"
          /\ wpc' \notin {"driver", "device"}

Running == Early \cup Bare \cup Compiled

LEMMA GiveUpDelivers ==
  ASSUME IInv, DeliverInv, SentInv, wpc \in Running, UNCHANGED <<sent, exit>>,
         NEW st \in WorkerStatuses \ {"OK", "BAD_REQUEST"}, GiveUp(st)
  PROVE  /\ DeliverInv' /\ SentInv' /\ wresult'.driver = wresult.driver
         /\ wresult'.device = wresult.device /\ wpc' \notin {"driver", "device"}
         /\ st \in Failures => Onward
<1>1. /\ wresult' \in WorkerResults /\ wresult'.status = st /\ wresult'.size = wresult.size
      /\ wresult'.driver = wresult.driver /\ wresult'.device = wresult.device
  BY FailureFacts DEF GiveUp, IInv
<1>2. wpc' = "cleanup_graph" /\ first' = st
  BY DEF GiveUp
<1>3. DeliverInv'
  BY <1>1, <1>2 DEF DeliverInv, Unexported, CompileOnly, Early, Bare, Compiled, Truthful
<1>4. SentInv'
  BY <1>2 DEF SentInv, Running, Early, Bare, Compiled
<1> QED BY <1>1, <1>2, <1>3, <1>4 DEF Onward, Failures

LEMMA AskDelivers ==
  ASSUME IInv, DeliverInv, SentInv, NEW at, NEW next, NEW failures, Ask(at, next, failures),
         UNCHANGED options,
         at \in Unexported, next \in Unexported, failures \subseteq Failures,
         next \notin {"none", "driver", "device"}, next \in CompileOnly => at \in CompileOnly
  PROVE  DeliverInv' /\ SentInv' /\ Onward
<1>1. wpc = at /\ UNCHANGED <<sent, exit, seen>> /\ wpc \in Running
  BY DEF Ask, Unexported, Running, Bare
<1>2. CASE \E st \in failures : GiveUp(st)
  BY <1>1, <1>2, GiveUpDelivers DEF Failures
<1>3. CASE wpc' = next /\ UNCHANGED <<wresult, first>>
  <2>1. DeliverInv'
    BY <1>1, <1>3 DEF DeliverInv, Unexported, Early, CompileOnly, Answered, Answer
  <2>2. SentInv'
    BY <1>1, <1>3 DEF SentInv, Unexported, Early
  <2> QED BY <1>3, <2>1, <2>2 DEF Onward
<1> QED BY <1>2, <1>3 DEF Ask

LEMMA AsksDeliver ==
  ASSUME IInv, DeliverInv, SentInv, UNCHANGED options,
         \/ LoadLoader \/ DriverProperties \/ FindGraphVersion \/ GetGraphDdi
         \/ QueryGraphContract \/ EntryPoints
  PROVE  DeliverInv' /\ SentInv' /\ Onward
<1>1. /\ "load" \in Unexported /\ "drivers" \in Unexported /\ "properties" \in Unexported
      /\ "extension" \in Unexported /\ "ddi" \in Unexported /\ "contract" \in Unexported
      /\ "mode" \in Unexported /\ "entry_points" \in Unexported /\ "create" \in Unexported
      /\ "entry_points" \in CompileOnly /\ "drivers" \notin CompileOnly
      /\ "extension" \notin CompileOnly /\ "ddi" \notin CompileOnly
      /\ "contract" \notin CompileOnly /\ "mode" \notin CompileOnly
  BY DEF Unexported, CompileOnly, Early, Bare, Compiled
<1>2. /\ {"LOADER_NOT_FOUND", "SYMBOL_MISSING"} \subseteq Failures
      /\ {"DRIVER_FAILED"} \subseteq Failures /\ {"UNSUPPORTED"} \subseteq Failures
      /\ {"DRIVER_FAILED", "OUT_OF_MEMORY", "GRAPH_EXTENSION_MISSING"} \subseteq Failures
      /\ {"DRIVER_FAILED", "SYMBOL_MISSING"} \subseteq Failures
      /\ {"DRIVER_FAILED", "UNSUPPORTED"} \subseteq Failures
  BY DEF Failures, WorkerStatuses
<1>3. CASE LoadLoader
  <2> DEFINE F == {"LOADER_NOT_FOUND", "SYMBOL_MISSING"}
  <2>1. Ask("load", "drivers", F)
    BY <1>3 DEF LoadLoader
  <2>2. F \subseteq Failures
    BY <1>2
  <2> HIDE DEF F
  <2> QED BY <1>1, <2>1, <2>2, AskDelivers
<1>4. CASE DriverProperties
  BY <1>1, <1>2, <1>4, AskDelivers DEF DriverProperties
<1>5. CASE FindGraphVersion
  <2> DEFINE F == {"DRIVER_FAILED", "OUT_OF_MEMORY", "GRAPH_EXTENSION_MISSING"}
  <2>1. Ask("extension", "ddi", F)
    BY <1>5 DEF FindGraphVersion
  <2>2. F \subseteq Failures
    BY <1>2
  <2> HIDE DEF F
  <2> QED BY <1>1, <2>1, <2>2, AskDelivers
<1>6. CASE GetGraphDdi
  <2> DEFINE F == {"DRIVER_FAILED", "SYMBOL_MISSING"}
  <2>1. Ask("ddi", "contract", F)
    BY <1>6 DEF GetGraphDdi
  <2>2. F \subseteq Failures
    BY <1>2
  <2> HIDE DEF F
  <2> QED BY <1>1, <2>1, <2>2, AskDelivers
<1>7. CASE QueryGraphContract
  <2> DEFINE F == {"DRIVER_FAILED", "UNSUPPORTED"}
  <2>1. Ask("contract", "mode", F)
    BY <1>7 DEF QueryGraphContract
  <2>2. F \subseteq Failures
    BY <1>2
  <2> HIDE DEF F
  <2> QED BY <1>1, <2>1, <2>2, AskDelivers
<1>8. CASE EntryPoints
  BY <1>1, <1>2, <1>8, AskDelivers DEF EntryPoints
<1> QED BY <1>3, <1>4, <1>5, <1>6, <1>7, <1>8

(* A step of compile_ir before the label done. *)
LEMMA MoveDelivers ==
  ASSUME DeliverInv, SentInv, wpc \in Running, wpc' \in Running \ {"none"},
         UNCHANGED <<sent, options>>,
         wresult'.size \in 0 .. MaxBlob, wpc' \in Unexported => wresult'.size = 0,
         wpc' \in CompileOnly => options.mode = "COMPILE",
         wpc' \in {"destroy", "reload"} => IsElf(wresult')
  PROVE  DeliverInv' /\ SentInv'
<1>1. wpc' \notin Answered \cup {"exited", "output", "message", "none"}
  BY DEF Running, Early, Bare, Compiled, Answered, Answer
<1>2. sent' = 0
  BY DEF SentInv, Running, Early, Bare, Compiled
<1>3. DeliverInv'
  BY <1>1 DEF DeliverInv, IsElf
<1> QED BY <1>1, <1>2, <1>3 DEF SentInv

LEMMA RequestDelivers ==
  ASSUME IInv, DeliverInv, SentInv, ClientInv, RequestInv, OptionsInv, UNCHANGED options,
         ReadRequest \/ ParseRequest
  PROVE  DeliverInv' /\ SentInv' /\ Onward
<1>1. /\ wpc \in {"read", "parse"} /\ UNCHANGED <<sent, exit, first>>
      /\ wresult \in WorkerResults /\ wresult.size = 0 /\ 0 \in 0 .. MaxBlob
  BY DEF ReadRequest, ParseRequest, IInv, NoBlobYet, DeliverInv
<1>2. wpc \in Running
  BY <1>1 DEF Running, Early
<1>3. CASE wpc' = "parse" /\ UNCHANGED wresult
  BY <1>1, <1>2, <1>3, MoveDelivers DEF Onward, Running, Early, CompileOnly, Bare, Compiled
<1>4. CASE wpc' = "load" /\ wresult' = [wresult EXCEPT !.status = "DRIVER_FAILED"]
  <2>1. /\ wresult'.size = 0 /\ wresult'.driver = wresult.driver
        /\ wresult'.device = wresult.device
    BY <1>1, <1>4 DEF WorkerResults
  <2> QED BY <1>1, <1>2, <1>4, <2>1, MoveDelivers
          DEF Onward, Running, Early, CompileOnly, Bare, Compiled
<1>5. CASE /\ wpc' = "header" /\ wresult' \in Failure("BAD_REQUEST", wresult)
           /\ "oom" \in seen'
  <2>1. /\ wresult' \in WorkerResults /\ wresult'.status = "BAD_REQUEST" /\ wresult'.size = 0
        /\ wresult'.driver = wresult.driver /\ wresult'.device = wresult.device
    BY <1>1, <1>5, FailureFacts DEF WorkerStatuses
  <2>2. DeliverInv'
    BY <1>1, <1>5, <2>1 DEF DeliverInv, Unexported, CompileOnly, Early, Bare, Compiled, Truthful
  <2>3. SentInv'
    BY <1>1, <1>5 DEF SentInv
  <2> QED BY <1>1, <1>5, <2>1, <2>2, <2>3 DEF Onward
<1>6. CASE ReadRequest
  BY <1>3, <1>5, <1>6 DEF ReadRequest
<1>7. CASE ParseRequest
  <2>1. pc = "wait" /\ options \in Options /\ mem["request"].what = options
    BY <1>1 DEF ClientInv, RequestInv, OptionsInv
  <2>2. WellFormed(options)
    BY <2>1 DEF WellFormed, Options
  <2> QED BY <1>4, <1>7, <2>1, <2>2 DEF ParseRequest
<1> QED BY <1>6, <1>7

LEMMA PackageDelivers ==
  ASSUME IInv, DeliverInv, SentInv, OptionsInv, ClientInv, UNCHANGED options,
         Package \/ CreateContext
  PROVE  DeliverInv' /\ SentInv' /\ Onward
<1>1. /\ wpc \in {"mode", "context"} /\ UNCHANGED <<sent, exit, seen>>
      /\ wresult \in WorkerResults /\ wpc \in Running
  BY DEF Package, CreateContext, IInv, Running, Early
<1>2. /\ wresult.size = 0 /\ 0 \in 0 .. MaxBlob
      /\ wpc = "context" => options.mode = "COMPILE"
  BY <1>1 DEF DeliverInv, Unexported, CompileOnly, Early
<1>3. CASE \E st \in {"OUT_OF_MEMORY", "DRIVER_FAILED"} : GiveUp(st)
  BY <1>1, <1>3, GiveUpDelivers DEF WorkerStatuses, Failures
<1>4. CASE options.mode = "QUERY" /\ Succeed
  <2>1. /\ wresult'.status = "OK" /\ wresult'.size = 0 /\ wresult'.driver = wresult.driver
        /\ wresult'.device = wresult.device /\ wpc' = "cleanup_graph" /\ first' = "OK"
    BY <1>1, <1>2, <1>4 DEF Succeed, WorkerResults
  <2>2. Truthful(wresult)'
    BY <1>4, <2>1 DEF Truthful, Answers
  <2>3. DeliverInv'
    BY <1>2, <2>1, <2>2 DEF DeliverInv, Unexported, CompileOnly, Early, Bare, Compiled
  <2>4. SentInv'
    BY <1>1, <2>1 DEF SentInv
  <2> QED BY <2>1, <2>3, <2>4 DEF Onward
<1>5. CASE wpc' \in {"context", "entry_points"} /\ options.mode = "COMPILE" /\ UNCHANGED <<wresult, first>>
  BY <1>1, <1>2, <1>5, MoveDelivers DEF Onward, Running, Early, Bare
<1>6. CASE Package
  BY <1>3, <1>4, <1>5, <1>6 DEF Package
<1>7. CASE CreateContext
  BY <1>1, <1>2, <1>3, <1>5, <1>7 DEF CreateContext
<1> QED BY <1>6, <1>7

LEMMA SizesNatural == MaxBlob \in Nat /\ BlobSizes \subseteq Nat
<1>1. {MaxMessage, MaxBlob} \cup InputSizes \cup BlobSizes \subseteq Nat
  BY IrAssumption
<1> QED BY <1>1

LEMMA ExportDelivers ==
  ASSUME IInv, DeliverInv, SentInv, UNCHANGED options,
         \/ Compile \/ GetNativeSize \/ GetNativeData \/ CheckMagic
  PROVE  DeliverInv' /\ SentInv' /\ Onward
<1>1. /\ wpc \in {"create", "native2", "native_size", "native_data", "magic"}
      /\ UNCHANGED <<sent, exit>> /\ wresult \in WorkerResults
  BY DEF Compile, CreateGraph, GetNativeSize, GetNativeData, CheckMagic, IInv
<1>2. wpc \in Running /\ wpc \in CompileOnly
  BY <1>1 DEF Running, CompileOnly, Bare, Compiled
<1>3. options.mode = "COMPILE" /\ wresult.size \in 0 .. MaxBlob
  BY <1>2 DEF DeliverInv
<1>4. CASE \E st \in {"OUT_OF_MEMORY", "DRIVER_FAILED", "BAD_RESULT"} : GiveUp(st)
  BY <1>1, <1>2, <1>4, GiveUpDelivers DEF WorkerStatuses, Failures
<1>5. ASSUME wpc' \in {"native2", "native_size", "native_data", "magic", "destroy"},
             wresult'.size \in 0 .. MaxBlob, wpc' = "destroy" => IsElf(wresult'),
             wresult'.driver = wresult.driver, wresult'.device = wresult.device, first' = first
      PROVE  DeliverInv' /\ SentInv' /\ Onward
  <2>1. wpc' \in Running \ {"none"} /\ wpc' \notin Unexported
    BY <1>5 DEF Running, Unexported, Early, Compiled
  <2>2. DeliverInv' /\ SentInv'
    BY <1>1, <1>2, <1>3, <1>5, <2>1, MoveDelivers
  <2> QED BY <1>5, <2>2 DEF Onward
<1>6. CASE Compile
  BY <1>3, <1>4, <1>5, <1>6 DEF Compile, CreateGraph
<1>7. CASE GetNativeSize
  <2>1. CASE \E st \in {"DRIVER_FAILED", "OUT_OF_MEMORY"} : GiveUp(st)
    BY <1>4, <2>1
  <2>2. CASE ~\E st \in {"DRIVER_FAILED", "OUT_OF_MEMORY"} : GiveUp(st)
    <3>1. PICK n \in BlobSizes, k \in {"elf", "other"} :
            /\ Usable(n)
            /\ wresult' = [wresult EXCEPT !.size = n, !.kind = IF wpc = "native2" THEN k ELSE "none"]
            /\ wpc' = IF wpc = "native2" THEN "magic" ELSE "native_data"
            /\ first' = first
      BY <1>7, <2>2 DEF GetNativeSize
    <3>2. n \in 0 .. MaxBlob
      <4>1. n <= MaxBlob
        BY <3>1 DEF Usable
      <4> QED BY <4>1, SizesNatural
    <3>3. /\ wresult'.size = n /\ wresult'.driver = wresult.driver
          /\ wresult'.device = wresult.device
      BY <1>1, <3>1 DEF WorkerResults
    <3> QED BY <1>5, <3>1, <3>2, <3>3
  <2> QED BY <2>1, <2>2
<1>8. CASE GetNativeData
  <2>1. CASE GiveUp("DRIVER_FAILED")
    BY <1>4, <2>1
  <2>2. CASE ~GiveUp("DRIVER_FAILED")
    <3>1. PICK n \in BlobSizes \cup {0}, k \in {"elf", "other"} :
            /\ n <= wresult.size
            /\ wresult' = [wresult EXCEPT !.size = n, !.kind = k]
            /\ wpc' = "magic" /\ first' = first
      BY <1>8, <2>2 DEF GetNativeData
    <3>2. n \in 0 .. MaxBlob
      BY <1>3, <3>1, SizesNatural
    <3>3. /\ wresult'.size = n /\ wresult'.driver = wresult.driver
          /\ wresult'.device = wresult.device
      BY <1>1, <3>1 DEF WorkerResults
    <3> QED BY <1>5, <3>1, <3>2, <3>3
  <2> QED BY <2>1, <2>2
<1>9. CASE CheckMagic
  BY <1>3, <1>4, <1>5, <1>9 DEF CheckMagic, IsElf
<1> QED BY <1>6, <1>7, <1>8, <1>9

LEMMA ReloadDelivers ==
  ASSUME IInv, DeliverInv, SentInv, OptionsInv, UNCHANGED options,
         DestroyCompiled \/ Reload
  PROVE  DeliverInv' /\ SentInv' /\ Onward
<1>1. /\ wpc \in {"destroy", "reload"} /\ UNCHANGED <<sent, exit>>
      /\ wresult \in WorkerResults /\ wpc \in Running /\ wpc \in CompileOnly
  BY DEF DestroyCompiled, Reload, CreateGraph, IInv, Running, CompileOnly, Bare, Compiled
<1>2. options.mode = "COMPILE" /\ wresult.size \in 0 .. MaxBlob /\ IsElf(wresult)
  BY <1>1 DEF DeliverInv
<1>3. CASE GiveUp("DRIVER_FAILED")
  BY <1>1, <1>3, GiveUpDelivers DEF WorkerStatuses, Failures
<1>4. CASE wpc' = "reload" /\ UNCHANGED <<wresult, first>>
  <2>1. wpc' \in Running \ {"none"} /\ wpc' \notin Unexported
    BY <1>4 DEF Running, Unexported, Early, Bare
  <2>2. DeliverInv' /\ SentInv'
    BY <1>1, <1>2, <1>4, <2>1, MoveDelivers
  <2> QED BY <1>4, <2>2 DEF Onward
<1>5. CASE Succeed /\ "reloaded" \in seen'
  <2>1. /\ wresult'.status = "OK" /\ wresult'.size = wresult.size /\ wresult'.kind = wresult.kind
        /\ wresult'.driver = wresult.driver /\ wresult'.device = wresult.device
        /\ wpc' = "cleanup_graph" /\ first' = "OK"
    BY <1>1, <1>5 DEF Succeed, WorkerResults
  <2>2. Truthful(wresult)'
    BY <1>2, <1>5, <2>1 DEF Truthful, Answers, IsElf, Magic
  <2>3. DeliverInv'
    BY <1>2, <2>1, <2>2 DEF DeliverInv, Unexported, CompileOnly, Early, Bare, Compiled
  <2>4. SentInv'
    BY <1>1, <2>1 DEF SentInv
  <2> QED BY <2>1, <2>3, <2>4 DEF Onward
<1>6. CASE DestroyCompiled
  BY <1>3, <1>4, <1>6 DEF DestroyCompiled
<1>7. CASE Reload
  BY <1>3, <1>5, <1>7 DEF Reload, CreateGraph
<1> QED BY <1>6, <1>7

(* A refused destruction turns success into failure, and leaves the rest.  *)
LEMMA RefusalTruthful ==
  ASSUME NEW r \in WorkerResults, NEW s \in AfterRefusal(r), Truthful(r)
  PROVE  Truthful(s)
BY RefusalFacts DEF Truthful

LEMMA CleanUpDelivers ==
  ASSUME IInv, DeliverInv, SentInv, UNCHANGED options, CleanUpGraph \/ CleanUpContext
  PROVE  DeliverInv' /\ SentInv' /\ Onward
<1>1. /\ wpc \in {"cleanup_graph", "cleanup_context"} /\ UNCHANGED <<sent, exit, first, seen>>
      /\ wpc' \in {"cleanup_context", "header"} /\ wresult \in WorkerResults
  BY DEF CleanUpGraph, CleanUpContext, IInv
<1>2. Truthful(wresult) /\ wresult.size \in 0 .. MaxBlob /\ 0 \in 0 .. MaxBlob
  <2>1. 0 \in 0 .. MaxBlob
    BY SizesNatural
  <2> QED BY <1>1, <2>1 DEF DeliverInv, Answered
<1>3. /\ wresult'.size \in 0 .. MaxBlob /\ Truthful(wresult')
      /\ wresult'.driver = wresult.driver /\ wresult'.device = wresult.device
  <2>1. ASSUME NEW r \in AfterRefusal(wresult)
        PROVE  /\ r \in WorkerResults /\ Truthful(r) /\ r.size = wresult.size
               /\ r.driver = wresult.driver /\ r.device = wresult.device
    BY <1>1, <1>2, RefusalFacts, RefusalTruthful
  <2>2. ASSUME NEW r \in WorkerResults, Truthful(r), r.size \in 0 .. MaxBlob
        PROVE  /\ Truthful(Dropped(r)) /\ Dropped(r).size \in 0 .. MaxBlob
               /\ Dropped(r).driver = r.driver /\ Dropped(r).device = r.device
    BY <1>2, <2>2, DroppedFacts DEF Truthful
  <2>3. CASE CleanUpGraph
    BY <1>2, <2>1, <2>3 DEF CleanUpGraph
  <2>4. CASE CleanUpContext
    BY <1>1, <1>2, <2>1, <2>2, <2>4 DEF CleanUpContext
  <2> QED BY <2>3, <2>4
<1>4. Truthful(wresult)'
  BY <1>1, <1>3 DEF Truthful, Answers
<1>5. DeliverInv'
  BY <1>1, <1>3, <1>4 DEF DeliverInv, Unexported, CompileOnly, Early, Bare, Compiled
<1> QED BY <1>1, <1>3, <1>5 DEF SentInv, Onward

LEMMA SendDelivers ==
  ASSUME IInv, DeliverInv, SentInv, UNCHANGED options, SendResponse \/ Crash
  PROVE  DeliverInv' /\ SentInv' /\ Onward
<1>1. /\ UNCHANGED <<wresult, first, seen>> /\ wpc' \in {"output", "message", "exited"}
      /\ wpc' \in {"output", "message"} => wpc \in Answer
  BY DEF SendResponse, Crash, Answer
<1>2. /\ wresult.size \in 0 .. MaxBlob /\ wresult.message \in {0, 1}
      /\ wpc \in Answer => Truthful(wresult)
  BY DEF IInv, WorkerResults, DeliverInv, Answered
<1>3. Truthful(wresult)' <=> Truthful(wresult)
  BY <1>1 DEF Truthful, Answers
<1>4. Onward
  BY <1>1 DEF Onward
<1>5. wpc' = "exited" /\ exit' = 0 => wpc \in Answer
  BY DEF SendResponse, Crash, Answer
<1>6. DeliverInv'
  BY <1>1, <1>2, <1>3, <1>5 DEF DeliverInv, Unexported, CompileOnly, Early, Bare, Compiled,
     Answered, Answer
<1>7. SentInv'
  <2>1. CASE SendResponse
    <3>1. CASE wpc = "header"
      BY <1>1, <1>2, <2>1, <3>1 DEF SendResponse, SentInv, Piece, Whole, Header
    <3>2. CASE wpc = "output"
      BY <1>1, <1>2, <2>1, <3>2 DEF SendResponse, SentInv, Piece, Whole, Header
    <3>3. CASE wpc = "message"
      BY <1>1, <1>2, <2>1, <3>3 DEF SendResponse, SentInv, Piece, Whole, Header
    <3> QED BY <2>1, <3>1, <3>2, <3>3 DEF SendResponse
  <2>2. CASE Crash
    <3>1. sent \in 0 .. Whole(wresult)
      BY <1>2, <2>2 DEF Crash, SentInv, Whole, Header
    <3> QED BY <1>1, <2>2, <3>1 DEF Crash, SentInv, Whole
  <2> QED BY <2>1, <2>2
<1> QED BY <1>4, <1>6, <1>7

----------------------------------------------------------------------------
(* The choice of the device *)

(* Steps that do not choose keep what was chosen. *)
LEMMA OnwardSelects ==
  ASSUME SelectsFirstNpu, Onward, UNCHANGED <<platform, options>>, seen \subseteq seen'
  PROVE  SelectsFirstNpu' /\ SelectInv'
<1>1. Matches' = Matches
  BY DEF Matches, Devices, Wanted
<1>2. SelectsFirstNpu'
  BY <1>1 DEF SelectsFirstNpu, Onward, Before
<1> QED BY <1>2 DEF SelectInv, Onward

LEMMA PlatformFacts ==
  ASSUME platform \in Platforms
  PROVE  /\ platform \in Seq(Seq({"vpu", "other"}))
         /\ Len(platform) \in Nat
         /\ \A d \in 0 .. Len(platform) - 1 : /\ platform[d + 1] \in Seq({"vpu", "other"})
                                              /\ Len(platform[d + 1]) \in Nat
<1>1. platform \in Seq(Seq({"vpu", "other"}))
  BY IrAssumption
<1>2. Len(platform) \in Nat
  BY <1>1
<1>3. ASSUME NEW d \in 0 .. Len(platform) - 1
      PROVE  platform[d + 1] \in Seq({"vpu", "other"}) /\ Len(platform[d + 1]) \in Nat
  <2>1. d + 1 \in 1 .. Len(platform)
    BY <1>2
  <2>2. platform[d + 1] \in Seq({"vpu", "other"})
    BY <1>1, <2>1
  <2> QED BY <2>2
<1> QED BY <1>1, <1>2, <1>3

(* The matches by their coordinates. *)
LEMMA MatchFacts ==
  /\ \A m \in Matches :
       /\ m = <<m[1], m[2]>> /\ m[1] \in 0 .. Len(platform) - 1
       /\ m[2] \in 0 .. Len(platform[m[1] + 1]) - 1
       /\ Wanted(options.driver, m[1]) /\ Wanted(options.device, m[2])
       /\ platform[m[1] + 1][m[2] + 1] = "vpu"
  /\ \A d \in 0 .. Len(platform) - 1 : \A v \in 0 .. Len(platform[d + 1]) - 1 :
       /\ Wanted(options.driver, d) /\ Wanted(options.device, v)
       /\ platform[d + 1][v + 1] = "vpu"
       => <<d, v>> \in Matches
<1>1. ASSUME NEW m \in Devices
      PROVE  /\ m = <<m[1], m[2]>> /\ m[1] \in 0 .. Len(platform) - 1
             /\ m[2] \in 0 .. Len(platform[m[1] + 1]) - 1
  <2>1. PICK d \in 0 .. Len(platform) - 1 : m \in {d} \X (0 .. Len(platform[d + 1]) - 1)
    BY DEF Devices
  <2> QED BY <2>1
<1>2. ASSUME NEW d \in 0 .. Len(platform) - 1, NEW v \in 0 .. Len(platform[d + 1]) - 1
      PROVE  <<d, v>> \in Devices
  BY DEF Devices
<1> QED BY <1>1, <1>2 DEF Matches

LEMMA InitDriversSelects ==
  ASSUME IInv, DeliverInv, SentInv, SelectsFirstNpu, SelectInv, ClientType, UNCHANGED options,
         options \in Options, InitDrivers
  PROVE  DeliverInv' /\ SentInv' /\ SelectsFirstNpu' /\ SelectInv'
<1>1. /\ wpc = "drivers" /\ UNCHANGED <<sent, exit, seen, platform>> /\ wresult \in WorkerResults
      /\ wpc \in Running /\ wresult.size = 0 /\ wresult.size \in 0 .. MaxBlob
  BY DEF InitDrivers, IInv, Running, Early, DeliverInv, Unexported
<1>2. Matches' = Matches
  BY <1>1 DEF Matches, Devices, Wanted
<1>3. CASE \E st \in {"DRIVER_FAILED", "OUT_OF_MEMORY"} : GiveUp(st)
  <2>1. DeliverInv' /\ SentInv' /\ Onward
    BY <1>1, <1>3, GiveUpDelivers DEF WorkerStatuses, Failures
  <2> QED BY <1>1, <2>1, OnwardSelects
<1>4. CASE /\ Len(platform) = 0 \/ (options.driver # AutoIndex /\ options.driver >= Len(platform))
           /\ GiveUp("NPU_NOT_FOUND")
  <2>1. /\ DeliverInv' /\ SentInv' /\ wresult'.driver = wresult.driver
        /\ wresult'.device = wresult.device /\ wpc' \notin {"driver", "device"}
    BY <1>1, <1>4, GiveUpDelivers DEF WorkerStatuses
  <2>2. Matches = {}
    <3> SUFFICES ASSUME NEW m \in Matches PROVE FALSE
      OBVIOUS
    <3>1. m[1] \in 0 .. Len(platform) - 1 /\ Wanted(options.driver, m[1])
      BY MatchFacts
    <3>2. Len(platform) \in Nat
      BY PlatformFacts DEF ClientType
    <3> QED BY <1>4, <3>1, <3>2 DEF Wanted
  <2>3. SelectsFirstNpu'
    BY <1>1, <1>2, <2>1, <2>2 DEF SelectsFirstNpu
  <2> QED BY <2>1, <2>3 DEF SelectInv
<1>5. CASE wpc' = "driver" /\ di' = 0 /\ UNCHANGED <<wresult, first>>
  <2>1. DeliverInv' /\ SentInv'
    BY <1>1, <1>5, MoveDelivers DEF Running, Early, CompileOnly, Bare, Compiled
  <2>2. SelectsFirstNpu'
    BY <1>1, <1>2, <1>5 DEF SelectsFirstNpu
  <2>3. di' \in 0 .. Len(platform)
    BY <1>5, PlatformFacts DEF ClientType
  <2>4. \A m \in Matches : ~Before(m, <<0, 0>>)
    <3> SUFFICES ASSUME NEW m \in Matches PROVE ~Before(m, <<0, 0>>)
      OBVIOUS
    <3>1. m[1] \in 0 .. Len(platform) - 1 /\ m[2] \in 0 .. Len(platform[m[1] + 1]) - 1
      BY MatchFacts
    <3> QED BY <3>1 DEF Before
  <2>5. SelectInv'
    BY <1>1, <1>2, <1>5, <2>3, <2>4 DEF SelectInv, NotPassed, Before
  <2> QED BY <2>1, <2>2, <2>5
<1> QED BY <1>3, <1>4, <1>5 DEF InitDrivers

(* Inside of the loops: the device is not chosen yet, so only the loop     *)
(* invariant and the end without a device have to be shown.                *)
LEMMA LoopMoves ==
  ASSUME IInv, DeliverInv, SentInv, SelectsFirstNpu, UNCHANGED <<options, platform, sent, wresult, first>>,
         wpc \in {"driver", "device"}, wpc' \in {"driver", "device"}, seen \subseteq seen'
  PROVE  DeliverInv' /\ SentInv' /\ SelectsFirstNpu'
<1>1. /\ wpc \in Running /\ wpc' \in Running \ {"none"} /\ wpc' \in Unexported
      /\ wpc \in Unexported /\ wpc' \notin CompileOnly /\ wpc' \notin {"destroy", "reload"}
  BY DEF Running, Unexported, Early, CompileOnly, Bare, Compiled
<1>2. wresult'.size = 0 /\ wresult'.size \in 0 .. MaxBlob
  BY <1>1 DEF DeliverInv
<1>3. DeliverInv' /\ SentInv'
  BY <1>1, <1>2, MoveDelivers
<1>4. Matches' = Matches
  BY DEF Matches, Devices, Wanted
<1> QED BY <1>3, <1>4 DEF SelectsFirstNpu

LEMMA SelectDriverSelects ==
  ASSUME IInv, DeliverInv, SentInv, SelectsFirstNpu, SelectInv, ClientType, UNCHANGED options,
         options \in Options, SelectDriver
  PROVE  DeliverInv' /\ SentInv' /\ SelectsFirstNpu' /\ SelectInv'
<1>1. /\ wpc = "driver" /\ UNCHANGED <<sent, exit, platform>> /\ wpc \in Running
      /\ seen' \in {seen, seen \cup {"call_failed"}}
  BY DEF SelectDriver, Running, Early
<1>2. Len(platform) \in Nat /\ di \in 0 .. Len(platform) /\ di \in Nat
  <2>1. Len(platform) \in Nat
    BY PlatformFacts DEF ClientType
  <2> QED BY <1>1, <2>1 DEF SelectInv
<1>9. NotPassed(<<di, 0>>)
  BY <1>1 DEF SelectInv
<1>3. \A m \in Matches : /\ m[1] \in 0 .. Len(platform) - 1
                         /\ m[2] \in 0 .. Len(platform[m[1] + 1]) - 1
                         /\ Wanted(options.driver, m[1]) /\ Wanted(options.device, m[2])
  BY MatchFacts
<1>4. Matches' = Matches
  BY <1>1 DEF Matches, Devices, Wanted
<1>5. CASE di = Len(platform) /\ GiveUp("NPU_NOT_FOUND") /\ UNCHANGED seen
  <2>1. /\ DeliverInv' /\ SentInv' /\ wresult'.driver = wresult.driver
        /\ wresult'.device = wresult.device /\ wpc' \notin {"driver", "device"}
    BY <1>1, <1>5, GiveUpDelivers DEF WorkerStatuses
  <2>2. "call_failed" \notin seen => Matches = {}
    <3> SUFFICES ASSUME "call_failed" \notin seen, NEW m \in Matches PROVE FALSE
      OBVIOUS
    <3>1. ~Before(m, <<di, 0>>)
      BY <1>9 DEF NotPassed
    <3>2. m[1] < di
      <4>1. m[1] \in 0 .. Len(platform) - 1
        BY <1>3
      <4> QED BY <1>2, <1>5, <4>1
    <3> QED BY <3>1, <3>2 DEF Before
  <2>3. SelectsFirstNpu'
    BY <1>4, <1>5, <2>1, <2>2 DEF SelectsFirstNpu
  <2> QED BY <2>1, <2>3 DEF SelectInv
<1>6. CASE GiveUp("OUT_OF_MEMORY")
  <2>1. DeliverInv' /\ SentInv' /\ Onward
    BY <1>1, <1>6, GiveUpDelivers DEF WorkerStatuses, Failures
  <2> QED BY <1>1, <2>1, OnwardSelects
<1>7. ASSUME di < Len(platform), di' = di + 1, UNCHANGED <<wpc, wresult, first>>,
             "call_failed" \notin seen' => ~Wanted(options.driver, di) \/ ~DeviceInRange(platform[di + 1])
      PROVE  DeliverInv' /\ SentInv' /\ SelectsFirstNpu' /\ SelectInv'
  <2>1. DeliverInv' /\ SentInv' /\ SelectsFirstNpu'
    BY <1>1, <1>7, LoopMoves
  <2>2. di' \in 0 .. Len(platform)
    <3>1. di < Len(platform) /\ di' = di + 1
      BY <1>7
    <3> QED BY <1>2, <3>1
  <2>3. "call_failed" \notin seen' => \A m \in Matches : ~Before(m, <<di + 1, 0>>)
    <3> SUFFICES ASSUME "call_failed" \notin seen', NEW m \in Matches, Before(m, <<di + 1, 0>>)
                 PROVE  FALSE
      OBVIOUS
    <3>1. m[1] \in Nat /\ m[2] \in Nat
      <4>1. /\ m[1] \in 0 .. Len(platform) - 1
            /\ m[2] \in 0 .. Len(platform[m[1] + 1]) - 1
        BY <1>3
      <4> QED BY <4>1
    <3>2. ~Before(m, <<di, 0>>)
      BY <1>1, <1>9 DEF NotPassed
    <3>3. m[1] = di
      BY <1>2, <3>1, <3>2 DEF Before
    <3>4. DeviceInRange(platform[di + 1])
      <4>1. m[2] \in 0 .. Len(platform[di + 1]) - 1 /\ Wanted(options.device, m[2])
        BY <1>3, <3>3
      <4>2. Len(platform[di + 1]) \in Nat
        BY <1>3, <3>3, PlatformFacts DEF ClientType
      <4>3. Len(platform[di + 1]) > 0 /\ m[2] < Len(platform[di + 1])
        BY <4>1, <4>2
      <4> QED BY <4>1, <4>3 DEF DeviceInRange, Wanted
    <3> QED BY <1>3, <1>7, <3>3, <3>4
  <2>4. NotPassed(<<di, 0>>)'
    BY <1>4, <1>7, <2>3 DEF NotPassed, Before
  <2>5. wpc' = "driver" /\ platform' = platform
    BY <1>1, <1>7
  <2> QED BY <2>1, <2>2, <2>4, <2>5 DEF SelectInv
<1>8. CASE /\ di < Len(platform) /\ Wanted(options.driver, di) /\ wpc' = "device" /\ vi' = 0
           /\ UNCHANGED <<di, wresult, first, seen>>
  <2>1. DeliverInv' /\ SentInv' /\ SelectsFirstNpu'
    BY <1>1, <1>8, LoopMoves
  <2>2. di' \in 0 .. Len(platform) - 1 /\ vi' \in 0 .. Len(platform[di' + 1])
    <3>1. di < Len(platform) /\ di' = di /\ vi' = 0
      BY <1>8
    <3>2. di' \in 0 .. Len(platform) - 1
      BY <1>2, <3>1
    <3>3. Len(platform[di' + 1]) \in Nat
      BY <3>2, PlatformFacts DEF ClientType
    <3> QED BY <3>1, <3>2, <3>3
  <2>3. NotPassed(<<di, vi>>)'
    BY <1>4, <1>8, <1>9 DEF NotPassed, Before
  <2>4. Wanted(options.driver, di)'
    BY <1>8 DEF Wanted
  <2>5. wpc' = "device" /\ platform' = platform
    BY <1>1, <1>8
  <2> QED BY <2>1, <2>2, <2>3, <2>4, <2>5 DEF SelectInv
<1> QED BY <1>5, <1>6, <1>7, <1>8 DEF SelectDriver

LEMMA SelectDeviceSelects ==
  ASSUME IInv, DeliverInv, SentInv, SelectsFirstNpu, SelectInv, ClientType, UNCHANGED options,
         options \in Options, SelectDevice
  PROVE  DeliverInv' /\ SentInv' /\ SelectsFirstNpu' /\ SelectInv'
<1> DEFINE n == Len(platform[di + 1])
<1>1. /\ wpc = "device" /\ UNCHANGED <<sent, exit, platform, first>> /\ wpc \in Running
      /\ seen' \in {seen, seen \cup {"call_failed"}} /\ wresult \in WorkerResults
  BY DEF SelectDevice, Running, Early, IInv
<1>2. /\ Len(platform) \in Nat /\ di \in 0 .. Len(platform) - 1 /\ vi \in 0 .. n
      /\ Wanted(options.driver, di) /\ NotPassed(<<di, vi>>)
  <2>1. Len(platform) \in Nat
    BY PlatformFacts DEF ClientType
  <2> QED BY <1>1, <2>1 DEF SelectInv
<1>3. di \in Nat /\ vi \in Nat /\ n \in Nat
  <2>1. n \in Nat
    BY <1>2, PlatformFacts DEF ClientType
  <2> QED BY <1>2, <2>1
<1>4. Matches' = Matches
  BY <1>1 DEF Matches, Devices, Wanted
<1>5. ASSUME NEW m \in Matches, "call_failed" \notin seen
      PROVE  /\ m[1] \in Nat /\ m[2] \in Nat /\ ~Before(m, <<di, vi>>)
             /\ m[1] = di => m[2] < n /\ Wanted(options.device, m[2]) /\ platform[di + 1][m[2] + 1] = "vpu"
  <2>1. /\ m[1] \in 0 .. Len(platform) - 1 /\ m[2] \in 0 .. Len(platform[m[1] + 1]) - 1
        /\ Wanted(options.device, m[2]) /\ platform[m[1] + 1][m[2] + 1] = "vpu"
    BY MatchFacts
  <2>2. ~Before(m, <<di, vi>>)
    BY <1>2, <1>5 DEF NotPassed
  <2> QED BY <1>3, <2>1, <2>2
<1> HIDE DEF n
<1>6. CASE /\ vi = n /\ wpc' = "driver" /\ di' = di + 1 /\ UNCHANGED <<vi, wresult, seen>>
  <2>1. DeliverInv' /\ SentInv' /\ SelectsFirstNpu'
    BY <1>1, <1>6, LoopMoves
  <2>2. di' \in 0 .. Len(platform)
    BY <1>2, <1>6
  <2>3. "call_failed" \notin seen => \A m \in Matches : ~Before(m, <<di + 1, 0>>)
    <3> SUFFICES ASSUME "call_failed" \notin seen, NEW m \in Matches, Before(m, <<di + 1, 0>>)
                 PROVE  FALSE
      OBVIOUS
    <3> QED BY <1>3, <1>5, <1>6 DEF Before
  <2>4. NotPassed(<<di, 0>>)'
    BY <1>4, <1>6, <2>3 DEF NotPassed, Before
  <2> QED BY <1>1, <1>6, <2>1, <2>2, <2>4 DEF SelectInv
<1>7. ASSUME vi < n, vi' = vi + 1, UNCHANGED <<wpc, di, wresult>>,
             "call_failed" \notin seen' =>
               ~Wanted(options.device, vi) \/ platform[di + 1][vi + 1] # "vpu"
      PROVE  DeliverInv' /\ SentInv' /\ SelectsFirstNpu' /\ SelectInv'
  <2>1. DeliverInv' /\ SentInv' /\ SelectsFirstNpu'
    BY <1>1, <1>7, LoopMoves
  <2>2. vi' \in 0 .. n
    BY <1>3, <1>7
  <2>3. "call_failed" \notin seen' => \A m \in Matches : ~Before(m, <<di, vi + 1>>)
    <3> SUFFICES ASSUME "call_failed" \notin seen', NEW m \in Matches, Before(m, <<di, vi + 1>>)
                 PROVE  FALSE
      OBVIOUS
    <3>1. "call_failed" \notin seen
      BY <1>1
    <3>2. m[1] = di /\ m[2] = vi
      BY <1>3, <1>5, <3>1 DEF Before
    <3> QED BY <1>5, <1>7, <3>1, <3>2
  <2>4. NotPassed(<<di, vi>>)'
    BY <1>4, <1>7, <2>3 DEF NotPassed, Before
  <2>5. Wanted(options.driver, di)'
    BY <1>2, <1>7 DEF Wanted
  <2> QED BY <1>1, <1>2, <1>7, <2>1, <2>2, <2>4, <2>5 DEF SelectInv, n
<1>8. CASE /\ vi < n /\ Wanted(options.device, vi) /\ platform[di + 1][vi + 1] = "vpu"
           /\ wresult' = [wresult EXCEPT !.driver = di, !.device = vi]
           /\ wpc' = "properties" /\ UNCHANGED seen
  <2>1. /\ wresult'.driver = di /\ wresult'.device = vi /\ wresult'.size = wresult.size
    BY <1>1, <1>8 DEF WorkerResults
  <2>2. wresult.size = 0 /\ wresult.size \in 0 .. MaxBlob
    BY <1>1 DEF DeliverInv, Unexported, Early
  <2>3. DeliverInv' /\ SentInv'
    BY <1>1, <1>8, <2>1, <2>2, MoveDelivers DEF Running, Early, CompileOnly, Bare, Compiled
  <2>4. <<di, vi>> \in Matches
    <3>1. vi \in 0 .. n - 1
      BY <1>3, <1>8
    <3> QED BY <1>2, <1>8, <3>1, MatchFacts DEF n
  <2>5. first = Null
    BY <1>1 DEF IInv, EarlyInv, Early
  <2>6. first' # "NPU_NOT_FOUND"
    BY <1>1, <2>5, NullFacts DEF WorkerStatuses
  <2>7. SelectsFirstNpu'
    BY <1>2, <1>4, <1>8, <2>1, <2>4, <2>6 DEF SelectsFirstNpu, NotPassed, Before
  <2> QED BY <1>8, <2>3, <2>7 DEF SelectInv
<1> QED BY <1>6, <1>7, <1>8 DEF SelectDevice, IsNpu, n

----------------------------------------------------------------------------
(* The steps of the worker together *)

LEMMA WorkerDriverType ==
  ASSUME IInv, DriverType, Worker
  PROVE  DriverType'
<1>1. CASE UNCHANGED driver /\ exit' \in {exit, 0, 3, 5}
  BY <1>1 DEF DriverType, driver
<1>2. CASE ReadRequest \/ ParseRequest
  BY <1>1, <1>2 DEF ReadRequest, ParseRequest
<1>3. CASE LoadLoader \/ DriverProperties \/ FindGraphVersion
  BY <1>1, <1>3 DEF LoadLoader, DriverProperties, FindGraphVersion, Ask
<1>4. CASE GetGraphDdi \/ QueryGraphContract \/ EntryPoints
  BY <1>1, <1>4 DEF GetGraphDdi, QueryGraphContract, EntryPoints, Ask
<1>5. CASE InitDrivers \/ SelectDriver \/ SelectDevice
  BY <1>1, <1>5 DEF InitDrivers, SelectDriver, SelectDevice
<1>6. CASE Package
  BY <1>1, <1>6 DEF Package
<1>7. CASE CreateContext
  BY <1>7 DEF CreateContext, DriverType
<1>8. CASE Compile
  BY <1>8 DEF Compile, CreateGraph, DriverType
<1>9. CASE GetNativeSize \/ GetNativeData \/ CheckMagic
  BY <1>1, <1>9 DEF GetNativeSize, GetNativeData, CheckMagic
<1>10. CASE DestroyCompiled
  <2>1. graph = "compiled"
    BY <1>10 DEF DestroyCompiled, IInv, CompiledInv, Compiled
  <2> QED BY <1>10, <2>1 DEF DestroyCompiled, Destroyed, Refused, Forgotten, DriverType
<1>11. CASE Reload
  BY <1>11 DEF Reload, CreateGraph, DriverType
<1>12. CASE CleanUpGraph
  BY <1>12 DEF CleanUpGraph, Destroyed, Refused, ToDestroy, DriverType
<1>13. CASE CleanUpContext
  BY <1>13 DEF CleanUpContext, Destroyed, Refused, DriverType
<1>14. CASE SendResponse \/ Crash
  BY <1>1, <1>14 DEF SendResponse, Crash
<1> QED BY <1>2, <1>3, <1>4, <1>5, <1>6, <1>7, <1>8, <1>9, <1>10, <1>11, <1>12, <1>13, <1>14
        DEF Worker

(* The client's part of the invariant only depends on what the worker does *)
(* to the history of the call.                                             *)
LEMMA CallGrows ==
  ASSUME CallInv, UNCHANGED client, seen \subseteq seen', "failed" \in seen' => "failed" \in seen
  PROVE  CallInv'
<1>1. pc' = pc /\ options' = options /\ status' = status /\ mem' = mem
  BY DEF client
<1>2. OptionsInv' /\ RequestInv' /\ FailedInv'
  BY <1>1 DEF CallInv, OptionsInv, RequestInv, FailedInv, Excused
<1>3. DeliveredInv'
  BY <1>1 DEF CallInv, DeliveredInv, HasBlob, Truthful, Answers
<1> QED BY <1>2, <1>3 DEF CallInv

LEMMA WorkerResultInv == IInv /\ ClientInv /\ ResultInv /\ Worker => ResultInv'
<1> SUFFICES ASSUME IInv, ClientInv, ResultInv, Worker PROVE ResultInv'
  OBVIOUS
<1>1. /\ UNCHANGED <<client, platform>> /\ wpc # "none"
      /\ seen \subseteq seen' /\ ("failed" \in seen' => "failed" \in seen)
  BY WorkerFrame
<1>2. /\ ClientType /\ DriverType /\ MemInv /\ DeliverInv /\ SentInv /\ CallInv /\ SelectInv
      /\ SelectsFirstNpu
  BY DEF ResultInv
<1>3. pc' = pc /\ options' = options /\ status' = status /\ mem' = mem /\ heap' = heap
  BY <1>1 DEF client
<1>4. OptionsInv /\ RequestInv /\ pc = "wait" /\ options \in Options
  BY <1>1, <1>2 DEF CallInv, ClientInv, OptionsInv
<1>5. ClientType' /\ CallInv' /\ DriverType'
  BY <1>1, <1>2, <1>3, CallGrows, WorkerDriverType DEF ClientType
<1>6. MemInv'
  <2>1. Live' = Live /\ LiveAt' = LiveAt
    BY <1>3 DEF Live, LiveAt
  <2>2. MemoryExact'
    BY <1>2, <1>3 DEF MemInv, Live, MemoryExact, Ids
  <2> QED BY <1>2, <1>3, <2>1, <2>2 DEF MemInv
<1>7. CASE DeliverInv' /\ SentInv' /\ Onward
  <2>1. SelectsFirstNpu' /\ SelectInv'
    BY <1>1, <1>2, <1>3, <1>7, OnwardSelects
  <2> QED BY <1>5, <1>6, <1>7, <2>1 DEF ResultInv
<1>8. CASE InitDrivers \/ SelectDriver \/ SelectDevice
  <2>1. DeliverInv' /\ SentInv' /\ SelectsFirstNpu' /\ SelectInv'
    BY <1>2, <1>3, <1>4, <1>8, InitDriversSelects, SelectDriverSelects, SelectDeviceSelects
  <2> QED BY <1>5, <1>6, <2>1 DEF ResultInv
<1>9. CASE ReadRequest \/ ParseRequest
  BY <1>2, <1>3, <1>4, <1>7, <1>9, RequestDelivers
<1>10. CASE \/ LoadLoader \/ DriverProperties \/ FindGraphVersion \/ GetGraphDdi
            \/ QueryGraphContract \/ EntryPoints
  BY <1>2, <1>3, <1>7, <1>10, AsksDeliver
<1>11. CASE Package \/ CreateContext
  BY <1>2, <1>3, <1>4, <1>7, <1>11, PackageDelivers
<1>12. CASE Compile \/ GetNativeSize \/ GetNativeData \/ CheckMagic
  BY <1>2, <1>3, <1>7, <1>12, ExportDelivers
<1>13. CASE DestroyCompiled \/ Reload
  BY <1>2, <1>3, <1>4, <1>7, <1>13, ReloadDelivers
<1>14. CASE CleanUpGraph \/ CleanUpContext \/ SendResponse \/ Crash
  BY <1>2, <1>3, <1>7, <1>14, CleanUpDelivers, SendDelivers
<1> QED BY <1>8, <1>9, <1>10, <1>11, <1>12, <1>13, <1>14 DEF Worker

----------------------------------------------------------------------------
(* The steps of the client: the worker *)

LEMMA IdleWorker ==
  ASSUME IInv, DriverType, DeliverInv, SentInv, wpc = "none", wpc' \in {"none", "read"},
         UNCHANGED <<wresult, driver, sent, exit, first>>
  PROVE  DriverType' /\ DeliverInv' /\ SentInv' /\ SelectInv' /\ SelectsFirstNpu'
<1>1. wresult = NoResult /\ first = Null /\ sent = 0 /\ 0 \in 0 .. MaxBlob
  BY SizesNatural DEF IInv, EarlyInv, Early, DeliverInv, SentInv
<1>2. DriverType'
  BY DEF DriverType, driver
<1>3. wresult'.size = 0 /\ wresult'.driver = -1
  BY <1>1 DEF NoResult
<1>4. DeliverInv'
  BY <1>1, <1>3 DEF DeliverInv, CompileOnly, Bare, Compiled, Answered, Answer
<1>5. SentInv'
  BY <1>1 DEF SentInv
<1>6. first' # "NPU_NOT_FOUND"
  BY <1>1, NullFacts DEF WorkerStatuses
<1>7. SelectsFirstNpu'
  BY <1>3, <1>6 DEF SelectsFirstNpu
<1> QED BY <1>2, <1>4, <1>5, <1>7 DEF SelectInv

LEMMA NoWorkerLeft ==
  ASSUME SupervisorReturns
  PROVE  DriverType' /\ DeliverInv' /\ SentInv' /\ SelectInv' /\ SelectsFirstNpu'
<1>1. /\ wpc' = "none" /\ wresult' = NoResult /\ context' = FALSE /\ graph' = Null
      /\ objects' = {} /\ stuck' = {} /\ sent' = 0 /\ exit' = Null /\ first' = Null
  BY DEF SupervisorReturns
<1>2. wresult'.size = 0 /\ wresult'.driver = -1 /\ 0 \in 0 .. MaxBlob
  BY <1>1, SizesNatural DEF NoResult
<1>3. DeliverInv'
  BY <1>1, <1>2 DEF DeliverInv, CompileOnly, Bare, Compiled, Answered, Answer
<1>4. first' # "NPU_NOT_FOUND"
  BY <1>1, NullFacts DEF WorkerStatuses
<1> QED BY <1>1, <1>2, <1>3, <1>4 DEF DriverType, SentInv, SelectInv, SelectsFirstNpu

----------------------------------------------------------------------------
(* The steps of the client: the memory *)

Whats == Options \cup WorkerResults \cup Statuses \cup {<<>>}

LEMMA BlockFacts ==
  ASSUME NEW s \in Slots, NEW what \in Whats, NEW size \in Nat
  PROVE  /\ Block(s, what, size) # Null /\ Block(s, what, size).id = s
         /\ Block(s, what, size).what = what /\ Block(s, what, size).size = size
<1>1. Block(s, what, size) \in Blocks
  BY DEF Block, Blocks, Whats
<1> QED BY <1>1, NullAssumption DEF Block

(* An empty variable gets a block of its own name. *)
LEMMA AllocateMem ==
  ASSUME MemInv, NEW slot \in Slots, slot \notin Live, Origin(slot) = slot,
         \A t \in Live : Origin(t) # slot,
         NEW what \in Whats, NEW size \in Nat, Allocate(slot, what, size)
  PROVE  /\ DOMAIN mem' = Slots /\ MemoryExact' /\ Live' = Live \cup {slot}
         /\ \A s \in Live' : mem'[s].id = Origin(s)
         /\ \A s \in Slots \ {slot} : mem'[s] = mem[s]
         /\ mem'[slot] # Null /\ mem'[slot].what = what
<1>1. /\ Block(slot, what, size) # Null /\ Block(slot, what, size).id = slot
      /\ Block(slot, what, size).what = what
  BY BlockFacts
<1>2. DOMAIN mem = Slots /\ MemoryExact /\ mem[slot] = Null /\ \A s \in Live : mem[s].id = Origin(s)
  BY DEF MemInv, Live
<1>3. \A t \in Live : mem[t].id # slot
  BY <1>2
<1>4. /\ DOMAIN mem' = DOMAIN mem
      /\ mem'[slot] = Block(slot, what, size)
      /\ \A s \in DOMAIN mem \ {slot} : mem'[s] = mem[s]
      /\ Live' = Live \cup {slot}
      /\ MemoryExact'
  BY <1>1, <1>2, <1>3, AllocateExact
<1>5. \A s \in Live : s \in Slots /\ s # slot
  BY <1>2 DEF Live
<1> QED BY <1>1, <1>2, <1>4, <1>5

(* Live variables, place by place. *)
LEMMA DiagnosticMem ==
  ASSUME MemInv, Live \subseteq {"worker_blob", "worker_message", "log", "errlog"},
         NEW st \in Statuses \ {"OK"}, SetDiagnostic(st)
  PROVE  /\ DOMAIN mem' = Slots /\ MemoryExact' /\ Live' \subseteq Live \cup {"diagnostic"}
         /\ \A s \in Live' : mem'[s].id = Origin(s)
         /\ status' \in Statuses \ {"OK"}
         /\ \/ status' = st /\ seen' = seen
            \/ status' = "OUT_OF_MEMORY" /\ seen' = seen \cup {"oom"}
<1>1. CASE Allocate("diagnostic", st, 1) /\ status' = st /\ UNCHANGED seen
  <2>1. /\ "diagnostic" \in Slots /\ "diagnostic" \notin Live /\ Origin("diagnostic") = "diagnostic"
        /\ \A t \in Live : Origin(t) # "diagnostic"
    BY DEF Slots, ResultSlots, Origin
  <2>2. st \in Whats /\ 1 \in Nat
    BY DEF Whats
  <2>3. /\ DOMAIN mem' = Slots /\ MemoryExact' /\ Live' = Live \cup {"diagnostic"}
        /\ \A s \in Live' : mem'[s].id = Origin(s)
    BY <1>1, <2>1, <2>2, AllocateMem
  <2> QED BY <1>1, <2>3
<1>2. CASE status' = "OUT_OF_MEMORY" /\ seen' = seen \cup {"oom"} /\ UNCHANGED <<mem, heap>>
  <2>1. Live' = Live /\ MemoryExact' /\ DOMAIN mem' = Slots /\ \A s \in Live' : mem'[s].id = Origin(s)
    BY <1>2 DEF MemInv, Live, MemoryExact, Ids
  <2> QED BY <1>2, <2>1 DEF Statuses
<1> QED BY <1>1, <1>2 DEF SetDiagnostic

----------------------------------------------------------------------------
(* The steps of the client: one lemma each *)

LEMMA CallResultInv == IInv /\ ClientInv /\ ResultInv /\ Call => ResultInv'
<1> SUFFICES ASSUME IInv, ClientInv, ResultInv, Call PROVE ResultInv'
  OBVIOUS
<1>1. PICK o \in Options :
        /\ pc = "idle" /\ options' = o
        /\ IF o.check = "OK"
             THEN pc' = "build" /\ status' = "OK" /\ UNCHANGED <<mem, heap, seen>>
             ELSE pc' = "returned" /\ SetDiagnostic(o.check)
        /\ UNCHANGED <<platform, worker>>
  BY DEF Call
<1>2. /\ ClientType /\ DriverType /\ MemInv /\ DeliverInv /\ SentInv /\ FailedInv
      /\ wpc = "none" /\ UNCHANGED <<wpc, wresult, driver, sent, exit, first>>
  BY <1>1 DEF ResultInv, ClientInv, CallInv, worker
<1>3. DriverType' /\ DeliverInv' /\ SentInv' /\ SelectInv' /\ SelectsFirstNpu'
  BY <1>2, IdleWorker
<1>4. Live = {} /\ "failed" \notin seen /\ status = "OK"
  BY <1>1, <1>2 DEF MemInv, LiveAt, FailedInv
<1>5. OptionsInv' /\ RequestInv'
  BY <1>1 DEF OptionsInv, RequestInv
<1>6. CASE o.check = "OK"
  <2>1. Live' = {} /\ LiveAt' = {} /\ MemoryExact' /\ DOMAIN mem' = Slots
    BY <1>1, <1>2, <1>4, <1>6 DEF MemInv, LiveAt, Live, MemoryExact, Ids
  <2>2. MemInv'
    BY <2>1 DEF MemInv
  <2>3. FailedInv' /\ DeliveredInv' /\ ClientType'
    BY <1>1, <1>2, <1>4, <1>6 DEF FailedInv, DeliveredInv, ClientType, Statuses
  <2> QED BY <1>3, <1>5, <2>2, <2>3 DEF ResultInv, CallInv
<1>7. CASE o.check # "OK"
  <2>1. o.check = "INVALID_ARGUMENT" /\ o.check \in Statuses \ {"OK"}
    BY <1>7 DEF Options, Statuses
  <2>2. pc' = "returned" /\ SetDiagnostic(o.check)
    BY <1>1, <1>7
  <2>3. /\ DOMAIN mem' = Slots /\ MemoryExact' /\ Live' \subseteq Live \cup {"diagnostic"}
        /\ \A s \in Live' : mem'[s].id = Origin(s)
        /\ status' \in Statuses \ {"OK"}
        /\ \/ status' = o.check /\ seen' = seen
           \/ status' = "OUT_OF_MEMORY" /\ seen' = seen \cup {"oom"}
    BY <1>2, <1>4, <2>1, <2>2, DiagnosticMem
  <2>4. LiveAt' = {"log", "errlog", "diagnostic"}
    BY <2>2, <2>3 DEF LiveAt
  <2>5. MemInv'
    BY <1>4, <2>3, <2>4 DEF MemInv
  <2>6. FailedInv' /\ DeliveredInv' /\ ClientType'
    BY <1>1, <1>2, <1>4, <1>7, <2>2, <2>3 DEF FailedInv, Excused, DeliveredInv, ClientType
  <2> QED BY <1>3, <1>5, <2>5, <2>6 DEF ResultInv, CallInv
<1> QED BY <1>6, <1>7

LEMMA BuildRequestResultInv == IInv /\ ClientInv /\ ResultInv /\ BuildRequest => ResultInv'
<1> SUFFICES ASSUME IInv, ClientInv, ResultInv, BuildRequest PROVE ResultInv'
  OBVIOUS
<1>1. /\ pc = "build" /\ UNCHANGED <<options, platform, worker>>
      /\ ClientType /\ DriverType /\ MemInv /\ DeliverInv /\ SentInv /\ FailedInv /\ OptionsInv
  BY DEF BuildRequest, ResultInv, CallInv
<1>2. wpc = "none" /\ UNCHANGED <<wpc, wresult, driver, sent, exit, first>> /\ options \in Options
  BY <1>1 DEF ClientInv, worker, OptionsInv
<1>3. DriverType' /\ DeliverInv' /\ SentInv' /\ SelectInv' /\ SelectsFirstNpu'
  BY <1>1, <1>2, IdleWorker
<1>4. Live = {} /\ "failed" \notin seen /\ status = "OK"
  BY <1>1 DEF MemInv, LiveAt, FailedInv
<1>5. CASE /\ pc' = "ran" /\ UNCHANGED <<mem, heap>>
           /\ \/ status' = "INVALID_ARGUMENT" /\ Header + options.size > MaxMessage /\ seen' = seen
              \/ status' = "OUT_OF_MEMORY" /\ seen' = seen \cup {"oom"}
  <2>1. Live' = {} /\ MemoryExact' /\ DOMAIN mem' = Slots
    BY <1>1, <1>4, <1>5 DEF MemInv, Live, MemoryExact, Ids
  <2>2. MemInv'
    BY <2>1 DEF MemInv
  <2>3. FailedInv' /\ DeliveredInv' /\ RequestInv' /\ OptionsInv'
    BY <1>1, <1>2, <1>4, <1>5 DEF FailedInv, Excused, DeliveredInv, RequestInv, OptionsInv
  <2>4. ClientType'
    BY <1>1, <1>5 DEF ClientType, Statuses
  <2> QED BY <1>3, <2>2, <2>3, <2>4 DEF ResultInv, CallInv
<1>6. CASE /\ Allocate("request", options, Header + options.size)
           /\ pc' = "start" /\ UNCHANGED <<status, seen>>
  <2>1. options \in Whats /\ Header + options.size \in Nat
    <3>1. options.size \in Nat
      <4>1. {MaxMessage, MaxBlob} \cup InputSizes \cup BlobSizes \subseteq Nat
        BY IrAssumption
      <4>2. options.size \in InputSizes \cup {0}
        BY <1>2 DEF Options
      <4> QED BY <4>1, <4>2
    <3> QED BY <1>2, <3>1 DEF Whats, Header
  <2>2. "request" \in Slots /\ "request" \notin Live /\ Origin("request") = "request"
    BY <1>4 DEF Slots, WorkSlots, Origin
  <2>3. /\ DOMAIN mem' = Slots /\ MemoryExact' /\ Live' = Live \cup {"request"}
        /\ \A s \in Live' : mem'[s].id = Origin(s)
        /\ mem'["request"] # Null /\ mem'["request"].what = options
    BY <1>1, <1>4, <1>6, <2>1, <2>2, AllocateMem
  <2>4. LiveAt' = {"request"}
    BY <1>6 DEF LiveAt
  <2>5. MemInv'
    BY <1>4, <2>3, <2>4 DEF MemInv
  <2>6. FailedInv' /\ DeliveredInv' /\ RequestInv' /\ OptionsInv' /\ ClientType'
    BY <1>1, <1>2, <1>4, <1>6, <2>3
       DEF FailedInv, DeliveredInv, RequestInv, OptionsInv, ClientType
  <2> QED BY <1>3, <2>5, <2>6 DEF ResultInv, CallInv
<1> QED BY <1>5, <1>6 DEF BuildRequest

LEMMA StartWorkerResultInv == IInv /\ ClientInv /\ ResultInv /\ StartWorker => ResultInv'
<1> SUFFICES ASSUME IInv, ClientInv, ResultInv, StartWorker PROVE ResultInv'
  OBVIOUS
<1>1. /\ pc = "start" /\ UNCHANGED <<options, mem, heap, platform, wresult, driver, sent, exit, first>>
      /\ ClientType /\ DriverType /\ MemInv /\ DeliverInv /\ SentInv /\ FailedInv /\ OptionsInv
      /\ RequestInv
  BY DEF StartWorker, ResultInv, CallInv
<1>2. wpc = "none" /\ wpc' \in {"none", "read"} /\ options \in Options
  BY <1>1 DEF ClientInv, StartWorker, OptionsInv
<1>3. DriverType' /\ DeliverInv' /\ SentInv' /\ SelectInv' /\ SelectsFirstNpu'
  BY <1>1, <1>2, IdleWorker
<1>4. Live \subseteq {"request"} /\ "failed" \notin seen /\ status = "OK"
  BY <1>1 DEF MemInv, LiveAt, FailedInv
<1>5. \/ pc' = "wait" /\ UNCHANGED <<status, seen>>
      \/ /\ pc' = "ran"
         /\ status' \in {"NOT_FOUND", "INTERNAL_ERROR", "INVALID_ARGUMENT", "OUT_OF_MEMORY"}
         /\ status' = "INVALID_ARGUMENT" => options.workerPath # "good" \/ "oom" \in seen'
  BY <1>1 DEF StartWorker
<1>6. MemInv'
  <2>1. Live' = Live /\ MemoryExact'
    BY <1>1 DEF MemInv, Live, MemoryExact, Ids
  <2>2. LiveAt' \in {{"request"}, {"request", "response", "out", "err"}}
    BY <1>5 DEF LiveAt
  <2> QED BY <1>1, <1>4, <2>1, <2>2 DEF MemInv
<1>7. FailedInv' /\ DeliveredInv'
  BY <1>1, <1>4, <1>5 DEF FailedInv, Excused, DeliveredInv
<1>8. RequestInv' /\ OptionsInv' /\ ClientType'
  BY <1>1, <1>2, <1>5 DEF RequestInv, OptionsInv, ClientType, Statuses
<1> QED BY <1>3, <1>6, <1>7, <1>8 DEF ResultInv, CallInv

LEMMA SupervisorResultInv == IInv /\ ClientInv /\ ResultInv /\ SupervisorReturns => ResultInv'
<1> SUFFICES ASSUME IInv, ClientInv, ResultInv, SupervisorReturns PROVE ResultInv'
  OBVIOUS
<1>1. /\ pc = "wait" /\ pc' = "ran" /\ UNCHANGED <<options, platform>>
      /\ ClientType /\ MemInv /\ DeliverInv /\ SentInv /\ FailedInv /\ OptionsInv
      /\ wresult \in WorkerResults
  BY DEF SupervisorReturns, ResultInv, CallInv, IInv
<1>2. DriverType' /\ DeliverInv' /\ SentInv' /\ SelectInv' /\ SelectsFirstNpu'
  BY NoWorkerLeft
<1>3. /\ status' \in Statuses /\ status' # "INVALID_ARGUMENT"
      /\ seen \subseteq seen'
      /\ status' = "OK" => wpc = "exited" /\ exit = 0 /\ seen' = seen
  BY DEF SupervisorReturns, SupervisorGivesUp, Statuses
<1>4. wresult.size \in Nat /\ wresult.message \in {0, 1}
  BY <1>1, SizesNatural DEF DeliverInv, WorkerResults
<1>5. sent \in Nat
  BY <1>1, <1>4 DEF SentInv, Header, Whole
<1>6. PICK captured \in SUBSET {"out", "err"} :
        Store([s \in captured \cup (IF sent > 0 THEN {"response"} ELSE {}) |->
                 IF s = "response" THEN Block(s, wresult, sent) ELSE Block(s, <<>>, 1)], {})
  BY DEF SupervisorReturns
<1> DEFINE into == captured \cup (IF sent > 0 THEN {"response"} ELSE {})
           put == [s \in into |->
                     IF s = "response" THEN Block(s, wresult, sent) ELSE Block(s, <<>>, 1)]
<1>7. into \subseteq {"response", "out", "err"} /\ (sent > 0 => "response" \in into)
  OBVIOUS
<1>8. Live \subseteq {"request"} /\ DOMAIN mem = Slots /\ MemoryExact
      /\ \A s \in Live : mem[s].id = Origin(s)
  BY <1>1 DEF MemInv, LiveAt
<1>9. ASSUME NEW s \in into
      PROVE  /\ s \in Slots /\ put[s] # Null /\ put[s].id = s /\ mem[s] = Null
             /\ s = "response" => put[s].what = wresult
  <2>1. s \in Slots
    BY <1>7 DEF Slots, WorkSlots
  <2>2. wresult \in Whats /\ <<>> \in Whats
    BY <1>1 DEF Whats
  <2>3. mem[s] = Null
    BY <1>7, <1>8, <2>1 DEF Live
  <2>4. CASE s = "response"
    BY <1>5, <2>1, <2>2, <2>3, <2>4, BlockFacts
  <2>5. CASE s # "response"
    BY <2>1, <2>2, <2>3, <2>5, BlockFacts
  <2> QED BY <2>4, <2>5
<1>10. DOMAIN put = into /\ Store(put, {})
  BY <1>6
<1> HIDE DEF put, into
<1>11. \A s \in into : \A t \in Live : put[s].id # mem[t].id
  BY <1>7, <1>8, <1>9 DEF Origin
<1>12. New(put, {})
  BY <1>8, <1>9, <1>10, <1>11 DEF New
<1>13. /\ DOMAIN mem' = DOMAIN mem /\ Live' = Live \cup into /\ MemoryExact'
       /\ \A s \in into : mem'[s] = put[s]
       /\ \A s \in Slots \ into : mem'[s] = mem[s]
  BY <1>8, <1>10, <1>12, StoreExact
<1>14. MemInv'
  <2>1. \A s \in Live' : mem'[s].id = Origin(s)
    BY <1>7, <1>8, <1>9, <1>13 DEF Origin, Live
  <2>2. LiveAt' = {"request", "response", "out", "err"}
    BY <1>1 DEF LiveAt
  <2> QED BY <1>7, <1>8, <1>13, <2>1, <2>2 DEF MemInv
<1>15. FailedInv' /\ ClientType' /\ RequestInv' /\ OptionsInv'
  <2>1. status' = "OK" => "failed" \notin seen'
    BY <1>1, <1>3 DEF FailedInv
  <2> QED BY <1>1, <1>3, <2>1 DEF FailedInv, ClientType, RequestInv, OptionsInv
<1>16. DeliveredInv'
  <2> SUFFICES ASSUME status' = "OK"
               PROVE  /\ mem'["response"] # Null /\ mem'["response"].what \in WorkerResults
                      /\ Truthful(mem["response"].what)'
    BY <1>1 DEF DeliveredInv
  <2>1. wpc = "exited" /\ exit = 0 /\ seen' = seen
    BY <1>3
  <2>2. sent > 0
    BY <1>1, <1>4, <2>1 DEF SentInv, Whole, Header
  <2>3. mem'["response"] # Null /\ mem'["response"].what = wresult
    BY <1>7, <1>9, <1>13, <2>2
  <2>4. Truthful(wresult)
    BY <1>1, <2>1 DEF DeliverInv
  <2> QED BY <1>1, <2>1, <2>3, <2>4 DEF Truthful, Answers
<1> QED BY <1>2, <1>14, <1>15, <1>16 DEF ResultInv, CallInv

LEMMA WorkerReturnsResultInv == IInv /\ ClientInv /\ ResultInv /\ WorkerReturns => ResultInv'
<1> SUFFICES ASSUME IInv, ClientInv, ResultInv, WorkerReturns PROVE ResultInv'
  OBVIOUS
<1> DEFINE from == [s \in {"worker_out", "worker_err"} |-> IF s = "worker_out" THEN "out" ELSE "err"]
           old == {"request", "response"}
           answer == mem["response"].what
<1>1. /\ pc = "ran" /\ pc' = "logs" /\ UNCHANGED <<options, platform, worker>>
      /\ ClientType /\ DriverType /\ MemInv /\ DeliverInv /\ SentInv /\ FailedInv /\ OptionsInv
      /\ DeliveredInv
  BY DEF WorkerReturns, ResultInv, CallInv
<1>2. wpc = "none" /\ UNCHANGED <<wpc, wresult, driver, sent, exit, first>> /\ options \in Options
  BY <1>1 DEF ClientInv, worker, OptionsInv
<1>3. DriverType' /\ DeliverInv' /\ SentInv' /\ SelectInv' /\ SelectsFirstNpu'
  BY <1>1, <1>2, IdleWorker
<1>4. /\ Live \subseteq {"request", "response", "out", "err"} /\ DOMAIN mem = Slots
      /\ MemoryExact /\ \A s \in Live : mem[s].id = Origin(s)
  BY <1>1 DEF MemInv, LiveAt
<1>5. status = "OK" => /\ answer \in WorkerResults /\ Truthful(answer)
  BY <1>1 DEF DeliveredInv
<1>6. PICK put :
        /\ Move(from, put, old)
        /\ \/ put = NoNew /\ (status' # "OK" /\ status' = "INVALID_ARGUMENT" => status = "INVALID_ARGUMENT")
           \/ status = "OK" /\ put = Copies(answer) /\ status' = Verdict(answer.status)
        /\ status' \in Statuses /\ (status' = "OK" => status = "OK" /\ put = Copies(answer))
        /\ seen' \in {seen, seen \cup {"oom"}}
        /\ status' = "OK" => answer.status = "OK" /\ seen' = seen
        /\ status' = "INVALID_ARGUMENT" =>
             status = "INVALID_ARGUMENT" \/ (status = "OK" /\ answer.status = "BAD_REQUEST")
  <2>1. CASE status # "OK" /\ Move(from, NoNew, old) /\ UNCHANGED <<status, seen>>
    BY <1>1, <2>1 DEF ClientType
  <2>2. CASE status = "OK" /\ Move(from, NoNew, old) /\ status' = "DRIVER_FAILED" /\ UNCHANGED seen
    BY <2>2 DEF Statuses
  <2>3. CASE /\ status = "OK" /\ Move(from, Copies(answer), old)
             /\ status' = Verdict(answer.status) /\ UNCHANGED seen
    <3>1. answer.status \in WorkerStatuses
      BY <1>5, <2>3 DEF WorkerResults
    <3>2. /\ status' \in Statuses /\ (status' = "OK" => answer.status = "OK")
          /\ status' = "INVALID_ARGUMENT" => answer.status = "BAD_REQUEST"
      BY <2>3, <3>1 DEF Verdict, Statuses, WorkerStatuses
    <3> QED BY <2>3, <3>2
  <2>4. CASE /\ status = "OK" /\ Move(from, NoNew, old) /\ status' = "OUT_OF_MEMORY"
             /\ seen' = seen \cup {"oom"}
    BY <2>4 DEF Statuses
  <2> QED BY <2>1, <2>2, <2>3, <2>4 DEF WorkerReturns
<1>7. /\ DOMAIN put \subseteq {"worker_blob", "worker_message"}
      /\ \A s \in DOMAIN put : put[s] # Null /\ put[s].id = s
      /\ status' = "OK" =>
           /\ ("worker_blob" \in DOMAIN put) <=> (answer.size > 0)
           /\ "worker_blob" \in DOMAIN put => put["worker_blob"].what = answer
  <2>1. CASE put = NoNew /\ status' # "OK"
    BY <2>1 DEF NoNew
  <2>2. CASE status = "OK" /\ put = Copies(answer)
    <3> DEFINE SizeOf(s) == IF s = "worker_blob" THEN answer.size ELSE answer.message
               into == {t \in {"worker_blob", "worker_message"} : SizeOf(t) > 0}
    <3>1. put = [s \in into |-> Block(s, answer, SizeOf(s))]
      BY <2>2 DEF Copies
    <3>2. ASSUME NEW s \in into
          PROVE  s \in Slots /\ answer \in Whats /\ SizeOf(s) \in Nat
      BY <1>5, <2>2 DEF Slots, WorkSlots, Whats, WorkerResults
    <3>3. DOMAIN put = into /\ (("worker_blob" \in into) <=> (answer.size > 0))
      BY <3>1
    <3>4. \A s \in into : put[s] = Block(s, answer, SizeOf(s))
      BY <3>1
    <3>5. into \subseteq {"worker_blob", "worker_message"}
      OBVIOUS
    <3> HIDE DEF into, SizeOf
    <3>6. \A s \in into : put[s] # Null /\ put[s].id = s /\ put[s].what = answer
      BY <3>2, <3>4, BlockFacts
    <3> QED BY <3>3, <3>5, <3>6
  <2> QED BY <1>6, <2>1, <2>2
<1>8. New(put, old)
  <2>1. DOMAIN put \subseteq Slots /\ \A s \in DOMAIN put : s \notin Live
    BY <1>4, <1>7 DEF Slots, WorkSlots
  <2>2. \A s \in DOMAIN put : mem[s] = Null
    BY <1>4, <2>1 DEF Live
  <2>3. \A s \in DOMAIN put : \A t \in Live \ old : put[s].id # mem[t].id
    BY <1>4, <1>7 DEF Origin
  <2> QED BY <1>4, <1>7, <2>1, <2>2, <2>3 DEF New
<1>9. /\ DOMAIN from = {"worker_out", "worker_err"} /\ from["worker_out"] = "out"
      /\ from["worker_err"] = "err"
  OBVIOUS
<1> HIDE DEF from
<1>10. Moved(from, put, old)
  <2>1. {"worker_out", "worker_err", "out", "err"} \subseteq Slots
    BY DEF Slots, WorkSlots
  <2>2. mem["worker_out"] = Null /\ mem["worker_err"] = Null
    BY <1>4, <2>1 DEF Live
  <2> QED BY <1>4, <1>7, <1>9, <2>1, <2>2 DEF Moved
<1>11. /\ DOMAIN mem' = DOMAIN mem /\ \A s \in DOMAIN put : mem'[s] = put[s]
       /\ \A s \in DOMAIN from : mem'[s] = mem[from[s]]
       /\ Live' = (Live \ (old \cup Sources(from))) \cup DOMAIN put
                     \cup {s \in DOMAIN from : mem[from[s]] # Null}
       /\ MemoryExact'
  BY <1>4, <1>6, <1>8, <1>10, MoveExact
<1>12. Sources(from) = {"out", "err"}
  BY <1>9 DEF Sources
<1>13. Live' = DOMAIN put \cup {s \in DOMAIN from : mem[from[s]] # Null}
  BY <1>4, <1>11, <1>12
<1>14. MemInv'
  <2>1. \A s \in DOMAIN from : mem[from[s]] # Null => from[s] \in Live
    BY <1>4, <1>9 DEF Live, Slots, WorkSlots
  <2>2. \A s \in DOMAIN from : Origin(s) = from[s] /\ Origin(from[s]) = from[s]
    BY <1>9 DEF Origin
  <2>3. \A s \in DOMAIN put : Origin(s) = s
    BY <1>7 DEF Origin
  <2>4. \A s \in Live' : mem'[s].id = Origin(s)
    BY <1>4, <1>7, <1>11, <1>13, <2>1, <2>2, <2>3
  <2>5. LiveAt' = {"worker_blob", "worker_message", "worker_out", "worker_err"}
    BY <1>1 DEF LiveAt
  <2> QED BY <1>4, <1>7, <1>9, <1>11, <1>13, <2>4, <2>5 DEF MemInv
<1>15. FailedInv'
  <2>1. status' = "OK" => "failed" \notin seen'
    BY <1>1, <1>6 DEF FailedInv
  <2>2. status' = "INVALID_ARGUMENT" => Excused'
    BY <1>1, <1>5, <1>6 DEF FailedInv, Excused, Truthful
  <2> QED BY <1>1, <2>1, <2>2 DEF FailedInv
<1>16. DeliveredInv'
  <2> SUFFICES ASSUME status' = "OK" PROVE HasBlob("worker_blob")'
    BY <1>1 DEF DeliveredInv
  <2>1. /\ answer.status = "OK" /\ answer \in WorkerResults /\ Truthful(answer) /\ seen' = seen
    BY <1>5, <1>6
  <2>2. Answers(answer)
    BY <2>1 DEF Truthful
  <2>3. CASE options.mode = "COMPILE"
    <3>1. answer.size \in Int /\ answer.size >= 1
      BY <2>1, <2>2, <2>3 DEF Answers, WorkerResults
    <3>2. "worker_blob" \in DOMAIN put
      BY <1>7, <3>1
    <3>3. mem'["worker_blob"] = put["worker_blob"]
      BY <1>11, <3>2
    <3> QED BY <1>1, <1>7, <2>1, <2>2, <2>3, <3>2, <3>3 DEF HasBlob, Answers
  <2>4. CASE options.mode # "COMPILE"
    <3>1. "worker_blob" \notin DOMAIN put
      BY <1>2, <1>7, <2>2, <2>4 DEF Answers, Options
    <3>2. "worker_blob" \notin Live' /\ "worker_blob" \in DOMAIN mem'
      BY <1>4, <1>9, <1>11, <1>13, <3>1 DEF Slots, WorkSlots
    <3>3. mem'["worker_blob"] = Null
      BY <3>2 DEF Live
    <3> QED BY <1>1, <2>4, <3>3 DEF HasBlob
  <2> QED BY <2>3, <2>4
<1>17. RequestInv' /\ OptionsInv' /\ ClientType'
  BY <1>1, <1>2, <1>6 DEF RequestInv, OptionsInv, ClientType
<1> QED BY <1>3, <1>14, <1>15, <1>16, <1>17 DEF ResultInv, CallInv

LEMMA MoveLogsResultInv == IInv /\ ClientInv /\ ResultInv /\ MoveLogs => ResultInv'
<1> SUFFICES ASSUME IInv, ClientInv, ResultInv, MoveLogs PROVE ResultInv'
  OBVIOUS
<1> DEFINE from == [s \in {"log", "errlog"} |-> IF s = "log" THEN "worker_out" ELSE "worker_err"]
           none == {}
<1>1. /\ pc = "logs" /\ pc' = "check" /\ UNCHANGED <<options, status, platform, worker, seen>>
      /\ ClientType /\ DriverType /\ MemInv /\ DeliverInv /\ SentInv /\ FailedInv /\ OptionsInv
      /\ DeliveredInv /\ Move(from, NoNew, none)
  BY DEF MoveLogs, ResultInv, CallInv
<1>2. wpc = "none" /\ UNCHANGED <<wpc, wresult, driver, sent, exit, first>> /\ options \in Options
  BY <1>1 DEF ClientInv, worker, OptionsInv
<1>3. DriverType' /\ DeliverInv' /\ SentInv' /\ SelectInv' /\ SelectsFirstNpu'
  BY <1>1, <1>2, IdleWorker
<1>4. /\ Live \subseteq {"worker_blob", "worker_message", "worker_out", "worker_err"}
      /\ DOMAIN mem = Slots /\ MemoryExact /\ \A s \in Live : mem[s].id = Origin(s)
  BY <1>1 DEF MemInv, LiveAt
<1>5. /\ DOMAIN from = {"log", "errlog"} /\ from["log"] = "worker_out"
      /\ from["errlog"] = "worker_err"
  OBVIOUS
<1> HIDE DEF from
<1>6. /\ {"worker_out", "worker_err", "log", "errlog", "worker_blob"} \subseteq Slots
      /\ mem["log"] = Null /\ mem["errlog"] = Null
  <2>1. {"worker_out", "worker_err", "log", "errlog", "worker_blob"} \subseteq Slots
    BY DEF Slots, ResultSlots, WorkSlots
  <2> QED BY <1>4, <2>1 DEF Live
<1>7. New(NoNew, none) /\ DOMAIN NoNew = {}
  BY DEF New, NoNew
<1>8. Moved(from, NoNew, none)
  BY <1>4, <1>5, <1>6, <1>7 DEF Moved
<1>9. Sources(from) = {"worker_out", "worker_err"}
  BY <1>5 DEF Sources
<1> HIDE DEF none
<1>10. /\ DOMAIN mem' = DOMAIN mem
       /\ \A s \in DOMAIN from : mem'[s] = mem[from[s]]
       /\ \A s \in DOMAIN mem \ (DOMAIN NoNew \cup none \cup DOMAIN from \cup Sources(from)) :
            mem'[s] = mem[s]
       /\ Live' = (Live \ (none \cup Sources(from))) \cup DOMAIN NoNew
                     \cup {s \in DOMAIN from : mem[from[s]] # Null}
       /\ MemoryExact'
  BY <1>1, <1>4, <1>7, <1>8, MoveExact
<1>11. /\ \A s \in DOMAIN mem \ {"log", "errlog", "worker_out", "worker_err"} : mem'[s] = mem[s]
       /\ Live' = (Live \ {"worker_out", "worker_err"})
                     \cup {s \in {"log", "errlog"} : mem[from[s]] # Null}
  BY <1>5, <1>7, <1>9, <1>10 DEF none
<1>12. MemInv'
  <2>1. \A s \in Live \ {"worker_out", "worker_err"} : mem'[s].id = Origin(s)
    BY <1>4, <1>11 DEF Live
  <2>2. \A s \in {"log", "errlog"} :
          mem[from[s]] # Null => from[s] \in Live /\ Origin(s) = Origin(from[s])
    BY <1>4, <1>5, <1>6 DEF Live, Origin
  <2>3. \A s \in Live' : mem'[s].id = Origin(s)
    BY <1>4, <1>5, <1>10, <1>11, <2>1, <2>2
  <2>4. LiveAt' = {"worker_blob", "worker_message", "log", "errlog"}
    BY <1>1 DEF LiveAt
  <2> QED BY <1>4, <1>10, <1>11, <2>3, <2>4 DEF MemInv
<1>13. mem'["worker_blob"] = mem["worker_blob"]
  BY <1>4, <1>6, <1>11
<1>14. RequestInv' /\ OptionsInv' /\ ClientType' /\ FailedInv' /\ DeliveredInv'
  BY <1>1, <1>2, <1>13
     DEF RequestInv, OptionsInv, ClientType, FailedInv, Excused, DeliveredInv, HasBlob
<1> QED BY <1>3, <1>12, <1>14 DEF ResultInv, CallInv

(* The blob of a success moves to the caller's result. *)
LEMMA BlobMem ==
  ASSUME MemInv, Live \subseteq {"worker_blob", "worker_message", "log", "errlog"}, BlobMoves
  PROVE  /\ DOMAIN mem' = Slots /\ MemoryExact'
         /\ Live' \subseteq {"worker_message", "log", "errlog", "blob"}
         /\ \A s \in Live' : mem'[s].id = Origin(s)
         /\ mem'["blob"] = mem["worker_blob"]
<1> DEFINE from == [s \in {"blob"} |-> "worker_blob"]
           none == {}
<1>1. Move(from, NoNew, none)
  BY DEF BlobMoves
<1>2. DOMAIN mem = Slots /\ MemoryExact /\ \A s \in Live : mem[s].id = Origin(s)
  BY DEF MemInv
<1>3. DOMAIN from = {"blob"} /\ from["blob"] = "worker_blob"
  OBVIOUS
<1> HIDE DEF from
<1>4. {"worker_blob", "blob"} \subseteq Slots /\ mem["blob"] = Null
  <2>1. {"worker_blob", "blob"} \subseteq Slots
    BY DEF Slots, ResultSlots, WorkSlots
  <2> QED BY <1>2, <2>1 DEF Live
<1>5. New(NoNew, none) /\ DOMAIN NoNew = {}
  BY DEF New, NoNew
<1>6. Moved(from, NoNew, none)
  BY <1>2, <1>3, <1>4, <1>5 DEF Moved
<1>7. Sources(from) = {"worker_blob"}
  BY <1>3 DEF Sources
<1> HIDE DEF none
<1>8. /\ DOMAIN mem' = DOMAIN mem
      /\ \A s \in DOMAIN from : mem'[s] = mem[from[s]]
      /\ \A s \in DOMAIN mem \ (DOMAIN NoNew \cup none \cup DOMAIN from \cup Sources(from)) :
           mem'[s] = mem[s]
      /\ Live' = (Live \ (none \cup Sources(from))) \cup DOMAIN NoNew
                    \cup {s \in DOMAIN from : mem[from[s]] # Null}
      /\ MemoryExact'
  BY <1>1, <1>2, <1>5, <1>6, MoveExact
<1>9. /\ mem'["blob"] = mem["worker_blob"]
      /\ \A s \in DOMAIN mem \ {"blob", "worker_blob"} : mem'[s] = mem[s]
      /\ Live' = (Live \ {"worker_blob"}) \cup {s \in {"blob"} : mem["worker_blob"] # Null}
  BY <1>3, <1>5, <1>7, <1>8 DEF none
<1>10. \A s \in Live \ {"worker_blob"} : mem'[s].id = Origin(s)
  BY <1>2, <1>4, <1>9 DEF Live
<1>11. "blob" \in Live' => mem'["blob"].id = Origin("blob")
  <2>1. Origin("blob") = "worker_blob" /\ Origin("worker_blob") = "worker_blob"
    BY DEF Origin
  <2>2. "blob" \notin Live
    BY <1>4 DEF Live
  <2>3. "blob" \in Live' => "worker_blob" \in Live
    BY <1>2, <1>4, <1>9, <2>2 DEF Live
  <2> QED BY <1>2, <1>9, <2>1, <2>3
<1>12. \A s \in Live' : mem'[s].id = Origin(s)
  BY <1>9, <1>10, <1>11
<1> QED BY <1>2, <1>8, <1>9, <1>12

LEMMA CheckWorkerResultInv == IInv /\ ClientInv /\ ResultInv /\ CheckWorker => ResultInv'
<1> SUFFICES ASSUME IInv, ClientInv, ResultInv, CheckWorker PROVE ResultInv'
  OBVIOUS
<1>1. /\ pc = "check" /\ pc' = "done" /\ UNCHANGED <<options, platform, worker>>
      /\ ClientType /\ DriverType /\ MemInv /\ DeliverInv /\ SentInv /\ FailedInv /\ OptionsInv
      /\ DeliveredInv
  BY DEF CheckWorker, ResultInv, CallInv
<1>2. wpc = "none" /\ UNCHANGED <<wpc, wresult, driver, sent, exit, first>> /\ options \in Options
  BY <1>1 DEF ClientInv, worker, OptionsInv
<1>3. DriverType' /\ DeliverInv' /\ SentInv' /\ SelectInv' /\ SelectsFirstNpu'
  BY <1>1, <1>2, IdleWorker
<1>4. Live \subseteq {"worker_blob", "worker_message", "log", "errlog"}
  BY <1>1 DEF MemInv, LiveAt
<1>5. OptionsInv' /\ RequestInv'
  BY <1>1, <1>2 DEF OptionsInv, RequestInv
<1>6. CASE status # "OK" /\ SetDiagnostic(status)
  <2>1. status \in Statuses \ {"OK"}
    BY <1>1, <1>6 DEF ClientType
  <2>2. /\ DOMAIN mem' = Slots /\ MemoryExact' /\ Live' \subseteq Live \cup {"diagnostic"}
        /\ \A s \in Live' : mem'[s].id = Origin(s)
        /\ status' \in Statuses \ {"OK"}
        /\ \/ status' = status /\ seen' = seen
           \/ status' = "OUT_OF_MEMORY" /\ seen' = seen \cup {"oom"}
    BY <1>1, <1>4, <1>6, <2>1, DiagnosticMem
  <2>3. LiveAt' = {"worker_blob", "worker_message", "log", "errlog", "diagnostic"}
    BY <1>1, <2>2 DEF LiveAt
  <2>4. MemInv'
    BY <1>4, <2>2, <2>3 DEF MemInv
  <2>5. FailedInv' /\ DeliveredInv' /\ ClientType'
    BY <1>1, <2>2 DEF FailedInv, Excused, DeliveredInv, ClientType
  <2> QED BY <1>3, <1>5, <2>4, <2>5 DEF ResultInv, CallInv
<1>7. CASE status = "OK" /\ BlobMoves /\ UNCHANGED <<status, seen>>
  <2>1. /\ DOMAIN mem' = Slots /\ MemoryExact'
        /\ Live' \subseteq {"worker_message", "log", "errlog", "blob"}
        /\ \A s \in Live' : mem'[s].id = Origin(s)
        /\ mem'["blob"] = mem["worker_blob"]
    BY <1>1, <1>4, <1>7, BlobMem
  <2>2. LiveAt' = {"worker_message", "log", "errlog", "blob"}
    BY <1>1, <1>7 DEF LiveAt
  <2>3. MemInv'
    BY <2>1, <2>2 DEF MemInv
  <2>4. HasBlob("blob")'
    BY <1>1, <1>7, <2>1 DEF DeliveredInv, HasBlob
  <2>5. FailedInv' /\ DeliveredInv' /\ ClientType'
    BY <1>1, <1>7, <2>4 DEF FailedInv, Excused, DeliveredInv, ClientType
  <2> QED BY <1>3, <1>5, <2>3, <2>5 DEF ResultInv, CallInv
<1> QED BY <1>6, <1>7 DEF CheckWorker

(* Blocks that are released. *)
LEMMA ReleaseMem ==
  ASSUME MemInv, NEW drop, Store(NoNew, drop)
  PROVE  /\ DOMAIN mem' = Slots /\ MemoryExact' /\ Live' = Live \ drop
         /\ \A s \in Live' : mem'[s].id = Origin(s)
         /\ \A s \in Slots \ drop : mem'[s] = mem[s]
<1>1. DOMAIN mem = Slots /\ MemoryExact /\ \A s \in Live : mem[s].id = Origin(s)
  BY DEF MemInv
<1>2. New(NoNew, drop) /\ DOMAIN NoNew = {}
  BY DEF New, NoNew
<1>3. /\ DOMAIN mem' = DOMAIN mem
      /\ \A s \in DOMAIN mem \ (DOMAIN NoNew \cup drop) : mem'[s] = mem[s]
      /\ Live' = (Live \ drop) \cup DOMAIN NoNew
      /\ MemoryExact'
  BY <1>1, <1>2, StoreExact
<1>4. \A s \in Live : s \in DOMAIN mem
  BY DEF Live
<1> QED BY <1>1, <1>2, <1>3, <1>4

LEMMA DoneResultInv == IInv /\ ClientInv /\ ResultInv /\ Done => ResultInv'
<1> SUFFICES ASSUME IInv, ClientInv, ResultInv, Done PROVE ResultInv'
  OBVIOUS
<1>1. /\ pc = "done" /\ pc' = "returned" /\ UNCHANGED <<options, status, platform, worker, seen>>
      /\ ClientType /\ DriverType /\ MemInv /\ DeliverInv /\ SentInv /\ FailedInv /\ OptionsInv
      /\ DeliveredInv /\ Store(NoNew, WorkSlots)
  BY DEF Done, ResultInv, CallInv
<1>2. wpc = "none" /\ UNCHANGED <<wpc, wresult, driver, sent, exit, first>> /\ options \in Options
  BY <1>1 DEF ClientInv, worker, OptionsInv
<1>3. DriverType' /\ DeliverInv' /\ SentInv' /\ SelectInv' /\ SelectsFirstNpu'
  BY <1>1, <1>2, IdleWorker
<1>4. /\ DOMAIN mem' = Slots /\ MemoryExact' /\ Live' = Live \ WorkSlots
      /\ \A s \in Live' : mem'[s].id = Origin(s)
      /\ \A s \in Slots \ WorkSlots : mem'[s] = mem[s]
  BY <1>1, ReleaseMem
<1>5. MemInv'
  <2>1. CASE status = "OK"
    <3>1. Live \subseteq {"worker_message", "log", "errlog", "blob"}
      BY <1>1, <2>1 DEF MemInv, LiveAt
    <3>2. LiveAt' = {"log", "errlog", "blob"}
      BY <1>1, <2>1 DEF LiveAt
    <3> QED BY <1>4, <3>1, <3>2 DEF MemInv, WorkSlots
  <2>2. CASE status # "OK"
    <3>1. Live \subseteq {"worker_blob", "worker_message", "log", "errlog", "diagnostic"}
      BY <1>1, <2>2 DEF MemInv, LiveAt
    <3>2. LiveAt' = {"log", "errlog", "diagnostic"}
      BY <1>1, <2>2 DEF LiveAt
    <3> QED BY <1>4, <3>1, <3>2 DEF MemInv, WorkSlots
  <2> QED BY <2>1, <2>2
<1>6. mem'["blob"] = mem["blob"]
  BY <1>4 DEF Slots, ResultSlots, WorkSlots
<1>7. RequestInv' /\ OptionsInv' /\ ClientType' /\ FailedInv' /\ DeliveredInv'
  BY <1>1, <1>2, <1>6
     DEF RequestInv, OptionsInv, ClientType, FailedInv, Excused, DeliveredInv, HasBlob
<1> QED BY <1>3, <1>5, <1>7 DEF ResultInv, CallInv

LEMMA ReleaseResultInv == IInv /\ ClientInv /\ ResultInv /\ Release => ResultInv'
<1> SUFFICES ASSUME IInv, ClientInv, ResultInv, Release PROVE ResultInv'
  OBVIOUS
<1>1. /\ pc = "returned" /\ pc' = "idle" /\ options' = Null /\ status' = "OK" /\ seen' = {}
      /\ UNCHANGED <<platform, worker>>
      /\ ClientType /\ DriverType /\ MemInv /\ DeliverInv /\ SentInv
      /\ Store(NoNew, ResultSlots)
  BY DEF Release, ResultInv
<1>2. wpc = "none" /\ UNCHANGED <<wpc, wresult, driver, sent, exit, first>>
  BY <1>1 DEF ClientInv, worker
<1>3. DriverType' /\ DeliverInv' /\ SentInv' /\ SelectInv' /\ SelectsFirstNpu'
  BY <1>1, <1>2, IdleWorker
<1>4. /\ DOMAIN mem' = Slots /\ MemoryExact' /\ Live' = Live \ ResultSlots
  BY <1>1, ReleaseMem
<1>5. Live \subseteq ResultSlots
  BY <1>1 DEF MemInv, LiveAt, ResultSlots
<1>6. MemInv'
  BY <1>4, <1>5 DEF MemInv
<1>7. RequestInv' /\ OptionsInv' /\ ClientType' /\ FailedInv' /\ DeliveredInv'
  BY <1>1 DEF RequestInv, OptionsInv, ClientType, FailedInv, DeliveredInv, Statuses
<1> QED BY <1>3, <1>6, <1>7 DEF ResultInv, CallInv

----------------------------------------------------------------------------
(* The invariant *)

LEMMA InitResultInv == Init => ResultInv
<1> SUFFICES ASSUME Init PROVE ResultInv
  OBVIOUS
<1>1. /\ pc = "idle" /\ options = Null /\ status = "OK" /\ mem = [s \in Slots |-> Null] /\ heap = {}
      /\ platform \in Platforms /\ seen = {}
      /\ wpc = "none" /\ wresult = NoResult /\ context = FALSE /\ graph = Null /\ objects = {}
      /\ stuck = {} /\ sent = 0 /\ exit = Null /\ first = Null
  BY DEF Init, NoWorker
<1>2. Live = {} /\ DOMAIN mem = Slots
  BY <1>1 DEF Live
<1>3. MemInv
  BY <1>1, <1>2 DEF MemInv, MemoryExact, Ids
<1>4. wresult.size = 0 /\ wresult.driver = -1 /\ 0 \in 0 .. MaxBlob
  BY <1>1, SizesNatural DEF NoResult
<1>5. DeliverInv /\ SentInv
  BY <1>1, <1>4 DEF DeliverInv, SentInv, CompileOnly, Bare, Compiled, Answered, Answer
<1>6. first # "NPU_NOT_FOUND"
  BY <1>1, NullFacts DEF WorkerStatuses
<1>7. SelectInv /\ SelectsFirstNpu
  BY <1>1, <1>4, <1>6 DEF SelectInv, SelectsFirstNpu
<1>8. ClientType /\ DriverType /\ CallInv
  BY <1>1 DEF ClientType, Statuses, DriverType, CallInv, OptionsInv, RequestInv, FailedInv, DeliveredInv
<1> QED BY <1>3, <1>5, <1>7, <1>8 DEF ResultInv

LEMMA UnchangedResultInv == ResultInv /\ UNCHANGED vars => ResultInv'
<1> SUFFICES ASSUME ResultInv, UNCHANGED vars PROVE ResultInv'
  OBVIOUS
<1>1. UNCHANGED <<pc, options, status, mem, heap, platform, wpc, di, vi, wresult, context, graph,
                  objects, stuck, sent, exit, first, seen>>
  BY DEF vars, client, worker, select, driver
<1>2. MemInv'
  <2>1. Live' = Live /\ LiveAt' = LiveAt /\ MemoryExact'
    BY <1>1 DEF ResultInv, MemInv, Live, LiveAt, MemoryExact, Ids
  <2> QED BY <1>1, <2>1 DEF ResultInv, MemInv
<1>3. ClientType' /\ DriverType'
  BY <1>1 DEF ResultInv, ClientType, DriverType
<1>4. DeliverInv' /\ SentInv' /\ CallInv'
  BY <1>1 DEF ResultInv, DeliverInv, SentInv, CallInv, OptionsInv, RequestInv, FailedInv, DeliveredInv,
              HasBlob, Truthful, Answers, Excused, IsElf, Whole
<1>5. Matches' = Matches
  BY <1>1 DEF Matches, Devices, Wanted
<1>6. SelectInv' /\ SelectsFirstNpu'
  BY <1>1, <1>5 DEF ResultInv, SelectInv, SelectsFirstNpu, NotPassed, Wanted
<1> QED BY <1>2, <1>3, <1>4, <1>6 DEF ResultInv

LEMMA NextResultInv == IInv /\ ClientInv /\ ResultInv /\ [Next]_vars => ResultInv'
BY CallResultInv, BuildRequestResultInv, StartWorkerResultInv, SupervisorResultInv,
   WorkerReturnsResultInv, MoveLogsResultInv, CheckWorkerResultInv, DoneResultInv, ReleaseResultInv,
   WorkerResultInv, UnchangedResultInv
   DEF Next, Client

LEMMA ResultInductive == Spec => []ResultInv
<1>1. IInv /\ ClientInv /\ ResultInv /\ [Next]_vars => ResultInv'
  BY NextResultInv
<1> QED BY InitResultInv, <1>1, Inductive, PTL DEF Spec

----------------------------------------------------------------------------
(* The parts of ResultExact *)

LEMMA ResultTypeOK == IInv /\ ClientInv /\ ResultInv => TypeOK
<1> SUFFICES ASSUME IInv, ClientInv, ResultInv PROVE TypeOK
  OBVIOUS
<1>1. /\ ClientType /\ DriverType /\ DeliverInv /\ SentInv /\ OptionsInv
      /\ wresult \in WorkerResults /\ wpc \in Places
  BY DEF ResultInv, CallInv, IInv
<1>2. options \in Options \cup {Null}
  BY <1>1 DEF OptionsInv
<1>3. /\ wresult.size \in Int /\ 0 <= wresult.size /\ wresult.size <= MaxBlob
      /\ wresult.message \in {0, 1} /\ MaxBlob \in Nat
  BY <1>1, SizesNatural DEF DeliverInv, WorkerResults
<1>4. sent \in 0 .. Header + MaxBlob + 1
  <2>1. CASE wpc \notin {"output", "message", "exited"}
    BY <1>1, <1>3, <2>1 DEF SentInv, Header
  <2>2. CASE wpc \in {"output", "message"}
    BY <1>1, <1>3, <2>2 DEF SentInv, Header
  <2>3. CASE wpc = "exited"
    BY <1>1, <1>3, <2>3 DEF SentInv, Whole, Header
  <2> QED BY <2>1, <2>2, <2>3
<1>5. wpc \in {"none", "read", "parse", "load", "drivers", "driver", "device", "properties",
               "extension", "ddi", "contract", "mode", "context", "entry_points", "create",
               "native2", "native_size", "native_data", "magic", "destroy", "reload",
               "cleanup_graph", "cleanup_context", "header", "output", "message", "exited"}
  BY <1>1 DEF Places, Early, Bare, Compiled, Answer
<1> QED BY <1>1, <1>2, <1>4, <1>5 DEF TypeOK, ClientType, DriverType, DeliverInv

LEMMA ReturnedFacts == ResultInv => ResultOwnsTheRest /\ StatusMeans
<1> SUFFICES ASSUME ResultInv, pc = "returned" PROVE ResultOwnsTheRest /\ StatusMeans
  BY DEF ResultOwnsTheRest, StatusMeans
<1>1. ClientType /\ MemInv /\ FailedInv /\ DeliveredInv /\ options \in Options
  BY DEF ResultInv, CallInv, OptionsInv
<1>2. "blob" \in DOMAIN mem
  BY <1>1 DEF MemInv, Slots, ResultSlots
<1>3. CASE status = "OK"
  <2>1. Live \subseteq ResultSlots
    BY <1>1, <1>3 DEF MemInv, LiveAt, ResultSlots
  <2>2. HasBlob("blob")
    BY <1>1, <1>3 DEF DeliveredInv
  <2> QED BY <1>1, <1>3, <2>1, <2>2 DEF ResultOwnsTheRest, StatusMeans, HasBlob, FailedInv
<1>4. CASE status # "OK"
  <2>1. Live \subseteq {"log", "errlog", "diagnostic"}
    BY <1>1, <1>4 DEF MemInv, LiveAt
  <2>2. mem["blob"] = Null
    BY <1>2, <2>1 DEF Live
  <2> QED BY <1>1, <1>4, <2>1, <2>2
          DEF ResultOwnsTheRest, ResultSlots, StatusMeans, FailedInv, Excused
<1> QED BY <1>3, <1>4

(* ir2blob_compile and ir2blob_query return a result that owns everything  *)
(* it refers to, with a blob exactly after a successful compilation, a     *)
(* status that is true and the first NPU that the request allows: for      *)
(* every machine, whatever the worker, the driver and the allocations do.  *)
THEOREM ResultCorrect == Spec => []ResultExact
<1>1. IInv /\ ClientInv /\ ResultInv => ResultExact
  BY ResultTypeOK, ReturnedFacts DEF ResultExact, ResultInv, MemInv
<1> QED BY <1>1, Inductive, ResultInductive, PTL
============================================================================
