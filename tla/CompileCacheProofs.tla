------------------------- MODULE CompileCacheProofs -------------------------
(***************************************************************************)
(* Proofs about CompileCache for any number of processes, sources,         *)
(* dependency files and versions.                                          *)
(*                                                                         *)
(* The argument rests on versions that only grow.  A request records each  *)
(* file at another moment, but never a version above the present one; a    *)
(* compilation that saw anything else than the request therefore leaves    *)
(* some file strictly above it, and the second hashing finds that file.    *)
(* For a hit, an entry exists only for dependencies that once were         *)
(* current together, and monotonicity moves that moment into the call.     *)
(***************************************************************************)
EXTENDS CompileCache, TLAPS

Below(d, e) == \A i \in Parts : d[i] <= e[i]

InCall(p) == pc[p] \notin {"idle", "returned", "raised"}

\* After the first hashing, and before the end of the call.
Identified(p) == InCall(p) /\ pc[p] # "hash"

Storing == {"export", "publish", "describe", "enter", "cleanup"}

PastInv ==
  /\ depend \in past
  /\ \A e \in past : Below(e, depend)

\* An entry was compiled for the request that it answers, when those dependencies were
\* current.
EntryInv ==
  \A r \in Requests : metadata[r] \in Bundles => Matches(metadata[r], r) /\ r.depend \in past

HashInv(p) ==
  InCall(p) => \A i \in Parts : (pc[p] = "hash" => i < job[p].at)
                                  => Request(p).depend[i] <= depend[i]

\* Some file has moved past the request, and the second hashing has not missed it.
Changed(p) == \E i \in Parts : /\ Request(p).depend[i] < depend[i]
                               /\ i < job[p].at => Request(p).depend[i] < job[p].again[i]

Good(p) == Matches(job[p].result, Request(p)) /\ Request(p).depend \in witnessed[p]

CallInv(p) ==
  /\ pc[p] \in {"check", "open"} =>
       Matches(job[p].digest, Request(p)) /\ Request(p).depend \in past
  /\ pc[p] = "build" => /\ job[p].used.provenance = Request(p).provenance
                        /\ Below(Request(p).depend, job[p].used.depend)
                        /\ Below(job[p].used.depend, depend)
  /\ pc[p] = "rehash" => /\ job[p].result \in Bundles
                         /\ job[p].result.provenance = Request(p).provenance
                         /\ Good(p) \/ Changed(p)
  /\ pc[p] \in Storing \cup {"returned"} => Good(p)

\* c is the dependencies at the beginning of the call.
StartedAt(p, c) ==
  /\ \A e \in past \ witnessed[p] : Below(e, c)
  /\ \A i \in Parts : (pc[p] = "hash" => i < job[p].at) => c[i] <= Request(p).depend[i]
  /\ Below(c, depend)

WitnessInv(p) ==
  InCall(p) => /\ witnessed[p] \subseteq past
               /\ depend \in witnessed[p]
               /\ \E c \in witnessed[p] : StartedAt(p, c)

ProcessInv == \A p \in Processes : HashInv(p) /\ CallInv(p) /\ WitnessInv(p)

CacheInv == PastInv /\ EntryInv /\ ProcessInv

-----------------------------------------------------------------------------
(***************************************************************************)
(* Types.                                                                  *)
(***************************************************************************)

\* The local variables of a call that has not begun have their type.
LEMMA NoJobType == NoJob \in Jobs
<1>1. (CHOOSE s \in Sources : TRUE) \in Sources
  BY CacheAssumption
<1>2. (CHOOSE v \in Provenances : TRUE) \in Provenances
  BY CacheAssumption
<1>3. 1 \in Parts /\ [i \in Parts |-> 1] \in Depends
  BY CacheAssumption DEF Parts, Versions, Depends
<1> QED
  BY <1>1, <1>2, <1>3 DEF NoJob, Jobs, Requests

LEMMA NextPartType == ASSUME NEW at \in Parts PROVE NextPart(at) \in Parts
BY CacheAssumption DEF NextPart, Parts

LEMMA TypeInit == Init => TypeOK
<1> SUFFICES ASSUME Init PROVE TypeOK
  OBVIOUS
<1>1. [i \in Parts |-> 1] \in Depends
  BY CacheAssumption DEF Parts, Versions, Depends
<1> QED
  BY <1>1, NoJobType DEF Init, TypeOK, Places

\* Every step of a process keeps the types.
LEMMA TypeProcess ==
  ASSUME TypeOK, NEW p \in Processes, Process(p),
         pc[p] \in Storing => job[p].result \in Bundles
  PROVE  TypeOK'
<1> USE DEF Go, environment, files, Request, Places
<1>j. job[p] \in Jobs
  BY DEF TypeOK
<1>k. \A st \in {"miss", "invalid", "hit", "stored", "refreshed", "write-error"} :
        [job[p] EXCEPT !.status = st] \in Jobs
  BY <1>j DEF Jobs
<1>1. CASE Start(p)
  <2>1. PICK s \in Sources : job' = [job EXCEPT ![p] = [NoJob EXCEPT !.request.source = s]]
    BY <1>1 DEF Start
  <2>2. [NoJob EXCEPT !.request.source = s] \in Jobs
    BY NoJobType DEF Jobs, Requests
  <2> QED
    BY <1>1, <2>1, <2>2 DEF Start, TypeOK
<1>2. CASE HashPart(p)
  <2> DEFINE at == job[p].at
  <2>1. at \in Parts /\ depend[at] \in Versions /\ NextPart(at) \in Parts
    BY <1>j, NextPartType DEF TypeOK, Jobs, Depends
  <2>2. [job[p] EXCEPT !.request.depend[at] = depend[at], !.at = NextPart(at)] \in Jobs
    BY <1>j, <2>1 DEF Jobs, Requests, Depends
  <2> QED
    BY <1>2, <2>1, <2>2 DEF HashPart, TypeOK
<1>3. CASE QueryProvenance(p)
  <2>1. [job[p] EXCEPT !.request.provenance = driver] \in Jobs
    BY <1>j DEF TypeOK, Jobs, Requests
  <2> QED
    BY <1>3, <2>1 DEF QueryProvenance, TypeOK
<1>4. CASE Raise(p)
  BY <1>4, <1>j DEF Raise, TypeOK, Jobs
<1>5. CASE Exists(p)
  BY <1>5 DEF Exists, TypeOK
<1>i. ASSUME Invalid(p), UNCHANGED <<environment, files>> PROVE TypeOK'
  BY <1>i, <1>k DEF Invalid, TypeOK
<1>6. CASE ReadMetadata(p)
  <2>1. job[p].request \in Requests
    BY <1>j DEF Jobs
  <2>2. CASE metadata[Request(p)] \notin {Absent, Torn}
    <3>1. metadata[Request(p)] \in Bundles
      BY <2>1, <2>2 DEF TypeOK
    <3>2. [job[p] EXCEPT !.digest = metadata[Request(p)]] \in Jobs
      BY <1>j, <3>1 DEF Jobs
    <3> QED
      BY <1>6, <2>2, <3>2 DEF ReadMetadata, TypeOK
  <2> QED
    BY <1>6, <1>i, <2>2 DEF ReadMetadata
<1>7. CASE CheckProgram(p)
  <2>1. CASE program[job[p].digest] = "whole"
    BY <1>7, <2>1 DEF CheckProgram, TypeOK
  <2> QED
    BY <1>7, <1>i, <2>1 DEF CheckProgram
<1>8. CASE OpenProgram(p)
  <2>1. CASE Opens(job[p].digest, Request(p))
    <3>1. PICK b \in {job[p].digest, Torn} :
            job' = [job EXCEPT ![p].status = "hit", ![p].result = b]
      BY <1>8, <2>1 DEF OpenProgram
    <3>2. [job[p] EXCEPT !.status = "hit", !.result = b] \in Jobs
      BY <1>j, <3>1 DEF Jobs
    <3> QED
      BY <1>8, <2>1, <3>1, <3>2 DEF OpenProgram, TypeOK
  <2> QED
    BY <1>8, <1>i, <2>1 DEF OpenProgram
<1>9. CASE ReadFails(p)
  BY <1>9, <1>i DEF ReadFails
<1>10. CASE Prepare(p)
  <2>1. [job[p] EXCEPT !.used = [depend |-> depend, provenance |-> driver]] \in Jobs
    BY <1>j DEF TypeOK, Jobs
  <2> QED
    BY <1>10, <2>1 DEF Prepare, TypeOK
<1>11. CASE Build(p)
  <2>1. PICK blob \in IF job[p].used.depend = depend
                        THEN Compile(Request(p).source, depend) ELSE Blobs :
          job' = [job EXCEPT ![p].result = [blob |-> blob,
                                            provenance |-> job[p].used.provenance],
                             ![p].at = 1]
    BY <1>11 DEF Build
  <2>2. blob \in Blobs
    BY <1>j, <2>1, CompileAssumption DEF TypeOK, Jobs, Requests
  <2>3. 1 \in Parts
    BY CacheAssumption DEF Parts
  <2>4. [job[p] EXCEPT !.result = [blob |-> blob, provenance |-> job[p].used.provenance],
                       !.at = 1] \in Jobs
    BY <1>j, <2>2, <2>3 DEF Jobs, Bundles
  <2> QED
    BY <1>11, <2>1, <2>4 DEF Build, TypeOK
<1>12. CASE RehashPart(p)
  <2> DEFINE at == job[p].at
             again == [job[p].again EXCEPT ![at] = depend[at]]
  <2>1. at \in Parts /\ again \in Depends /\ NextPart(at) \in Parts
    BY <1>j, NextPartType DEF TypeOK, Jobs, Depends
  <2>3. [job[p] EXCEPT !.again = again, !.at = NextPart(at)] \in Jobs
    BY <1>j, <2>1 DEF Jobs
  <2>4. job' \in [Processes -> Jobs]
    <3>1. CASE at < PartCount
      BY <1>12, <2>3, <3>1 DEF RehashPart, TypeOK
    <3>2. CASE ~(at < PartCount)
      <4> DEFINE kept == DependenciesKept(Request(p), again)
      <4>1. job' = [job EXCEPT ![p] = [job[p] EXCEPT !.again = again,
                                                     !.result = IF kept THEN @ ELSE None]]
        BY <1>12, <3>2 DEF RehashPart, TypeOK
      <4>2. [job[p] EXCEPT !.again = again, !.result = IF kept THEN @ ELSE None] \in Jobs
        BY <1>j, <2>1 DEF Jobs
      <4> QED
        BY <4>1, <4>2 DEF TypeOK
    <3> QED
      BY <3>1, <3>2
  <2> QED
    BY <1>12, <2>4 DEF RehashPart, TypeOK
<1>13. CASE ExportProgram(p)
  BY <1>13 DEF ExportProgram, Temp, TypeOK
<1>14. CASE PublishProgram(p)
  BY <1>14 DEF PublishProgram, Renamed, TypeOK
<1>15. CASE WriteMetadata(p)
  BY <1>15 DEF WriteMetadata, Temp, TypeOK
<1>16. CASE PublishMetadata(p)
  <2>1. job[p].request \in Requests /\ job[p].result \in Bundles
    BY <1>16, <1>j DEF PublishMetadata, Storing, Jobs
  <2>2. PICK st \in {"refreshed", "stored"} : job' = [job EXCEPT ![p].status = st]
    BY <1>16 DEF PublishMetadata
  <2> QED
    BY <1>16, <1>k, <2>1, <2>2 DEF PublishMetadata, Renamed, TypeOK
<1>17. CASE StoreFails(p)
  <2>1. temps' \in [Processes -> SUBSET {"program", "metadata"}]
    BY <1>17 DEF StoreFails, Temp, TypeOK
  <2> QED
    BY <1>17, <1>k, <2>1 DEF StoreFails, TypeOK
<1>18. CASE CleanUp(p)
  BY <1>18 DEF CleanUp, Leftover, TypeOK
<1>19. CASE Crash(p)
  BY <1>19, NoJobType DEF Crash, TypeOK
<1> QED
  BY <1>1, <1>2, <1>3, <1>4, <1>5, <1>6, <1>7, <1>8, <1>9, <1>10, <1>11, <1>12, <1>13,
     <1>14, <1>15, <1>16, <1>17, <1>18, <1>19 DEF Process

\* So does every step of the environment.
LEMMA TypeEnvironment ==
  ASSUME TypeOK, (\E i \in Parts : Update(i)) \/ UpdateDriver \/ Damage
  PROVE  TypeOK'
<1> USE DEF environment, files
<1>1. ASSUME NEW i \in Parts, Update(i) PROVE TypeOK'
  <2>1. depend' \in Depends
    BY <1>1, CacheAssumption DEF Update, TypeOK, Depends, Versions
  <2> QED
    BY <1>1, <2>1 DEF Update, TypeOK
<1>2. CASE UpdateDriver
  BY <1>2 DEF UpdateDriver, TypeOK
<1>3. CASE Damage
  BY <1>3, CacheAssumption DEF Damage, TypeOK
<1> QED
  BY <1>1, <1>2, <1>3

-----------------------------------------------------------------------------
(***************************************************************************)
(* Preservation of CacheInv by the steps of a process.                     *)
(***************************************************************************)

\* What a step of one process leaves alone.
LEMMA ProcessFrame ==
  ASSUME TypeOK, NEW p \in Processes, Process(p)
  PROVE  /\ depend' = depend /\ past' = past
         /\ \A q \in Processes \ {p} : /\ pc'[q] = pc[q] /\ job'[q] = job[q]
                                      /\ witnessed'[q] = witnessed[q]
<1> USE DEF Go, environment, files, TypeOK
<1>1. CASE Start(p) \/ HashPart(p) \/ QueryProvenance(p) \/ Raise(p) \/ Exists(p)
  BY <1>1 DEF Start, HashPart, QueryProvenance, Raise, Exists
<1>2. CASE ReadMetadata(p) \/ CheckProgram(p) \/ OpenProgram(p) \/ ReadFails(p)
  BY <1>2 DEF ReadMetadata, CheckProgram, OpenProgram, ReadFails, Invalid
<1>3. CASE Prepare(p) \/ Build(p)
  BY <1>3 DEF Prepare, Build
<1>4. CASE RehashPart(p)
  BY <1>4 DEF RehashPart
<1>5. CASE ExportProgram(p) \/ PublishProgram(p) \/ WriteMetadata(p) \/ PublishMetadata(p)
  BY <1>5 DEF ExportProgram, PublishProgram, WriteMetadata, PublishMetadata
<1>6. CASE StoreFails(p) \/ CleanUp(p) \/ Crash(p)
  BY <1>6 DEF StoreFails, CleanUp, Crash
<1> QED
  BY <1>1, <1>2, <1>3, <1>4, <1>5, <1>6 DEF Process

\* The invariants of the other processes do not change.
LEMMA OthersKept ==
  ASSUME TypeOK, NEW p \in Processes, Process(p), ProcessInv, NEW q \in Processes \ {p}
  PROVE  HashInv(q)' /\ CallInv(q)' /\ WitnessInv(q)'
<1>1. HashInv(q) /\ CallInv(q) /\ WitnessInv(q)
  BY DEF ProcessInv
<1>2. depend' = depend /\ past' = past /\ pc'[q] = pc[q] /\ job'[q] = job[q]
        /\ witnessed'[q] = witnessed[q]
  BY ProcessFrame
<1>3. HashInv(q)'
  BY <1>1, <1>2 DEF HashInv, InCall, Request
<1>4. CallInv(q)'
  BY <1>1, <1>2 DEF CallInv, Good, Changed, Below, Matches, Request
<1>5. WitnessInv(q)'
  BY <1>1, <1>2 DEF WitnessInv, StartedAt, InCall, Request, Below
<1> QED
  BY <1>3, <1>4, <1>5

\* An entry appears only where a store has published a good program.
LEMMA EntriesKept ==
  ASSUME TypeOK, NEW p \in Processes, Process(p), EntryInv, PastInv, HashInv(p), CallInv(p),
         WitnessInv(p)
  PROVE  EntryInv'
<1>0. past' = past
  BY ProcessFrame
<1>1. CASE PublishMetadata(p)
  <2>1. Good(p) /\ witnessed[p] \subseteq past
    BY <1>1 DEF PublishMetadata, CallInv, WitnessInv, InCall, Storing
  <2>2. \A r \in Requests : metadata'[r] = IF r = Request(p) THEN job[p].result ELSE metadata[r]
    BY <1>1 DEF PublishMetadata, TypeOK
  <2> QED
    BY <1>0, <2>1, <2>2 DEF EntryInv, Good, Matches
<1>2. CASE UNCHANGED metadata
  BY <1>0, <1>2 DEF EntryInv, Matches
<1>3. PublishMetadata(p) \/ UNCHANGED metadata
  BY DEF Process, Start, HashPart, QueryProvenance, Raise, Exists, ReadMetadata,
         CheckProgram, OpenProgram, ReadFails, Prepare, Build, RehashPart,
         ExportProgram, PublishProgram, WriteMetadata, StoreFails, CleanUp, Crash,
         environment, files
<1> QED
  BY <1>1, <1>2, <1>3

\* A step inside of a call, after the request is identified.
LEMMA IdentifiedKept ==
  ASSUME TypeOK, NEW p \in Processes, Process(p), HashInv(p), WitnessInv(p),
         Identified(p), pc'[p] # "hash",
         job'[p].request.depend = job[p].request.depend, witnessed'[p] = witnessed[p]
  PROVE  HashInv(p)' /\ WitnessInv(p)'
<1>1. depend' = depend /\ past' = past
  BY ProcessFrame
<1>2. HashInv(p)'
  BY <1>1 DEF HashInv, InCall, Identified, Request
<1>3. WitnessInv(p)'
  <2>1. PICK c \in witnessed[p] : StartedAt(p, c)
    BY DEF WitnessInv, Identified
  <2>2. StartedAt(p, c)'
    BY <1>1, <2>1 DEF StartedAt, Identified, InCall, Request, Below
  <2> QED
    BY <1>1, <2>1, <2>2 DEF WitnessInv, Identified, InCall
<1> QED
  BY <1>2, <1>3

\* A request whose dependencies were ever current was current during the call.
LEMMA PastIsWitnessed ==
  ASSUME TypeOK, NEW p \in Processes, WitnessInv(p), Identified(p),
         Request(p).depend \in past
  PROVE  Request(p).depend \in witnessed[p]
<1> DEFINE r == Request(p).depend
<1> SUFFICES ASSUME r \notin witnessed[p] PROVE FALSE
  OBVIOUS
<1>1. PICK c \in witnessed[p] : StartedAt(p, c)
  BY DEF WitnessInv, Identified
<1>2. Below(r, c) /\ \A i \in Parts : c[i] <= r[i]
  BY <1>1 DEF StartedAt, Identified
<1>3. r \in Depends /\ c \in Depends
  BY DEF TypeOK
<1>4. \A i \in Parts : r[i] \in Int /\ c[i] \in Int
  BY <1>3, CacheAssumption DEF Depends, Versions
<1>5. \A i \in Parts : r[i] = c[i]
  BY <1>2, <1>4 DEF Below
<1>6. r = c
  BY <1>3, <1>5 DEF Depends
<1> QED
  BY <1>6

\* The beginning of a call.
LEMMA StartKept ==
  ASSUME TypeOK, NEW p \in Processes, Start(p), PastInv
  PROVE  HashInv(p)' /\ CallInv(p)' /\ WitnessInv(p)'
<1> USE DEF Go, environment, files, Request
<1>1. PICK s \in Sources : job' = [job EXCEPT ![p] = [NoJob EXCEPT !.request.source = s]]
  BY DEF Start
<1>2. job'[p].at = 1 /\ pc'[p] = "hash" /\ witnessed'[p] = {depend}
        /\ depend' = depend /\ past' = past
  BY <1>1, NoJobType DEF Start, TypeOK, NoJob
<1>3. \A i \in Parts : ~(i < 1)
  BY DEF Parts
<1>4. HashInv(p)' /\ CallInv(p)'
  BY <1>2, <1>3 DEF HashInv, CallInv, Storing
<1>5. Below(depend, depend)
  BY CacheAssumption DEF Below, TypeOK, Depends, Versions
<1>6. StartedAt(p, depend)'
  BY <1>2, <1>3, <1>5 DEF StartedAt, PastInv, Below
<1> QED
  BY <1>2, <1>4, <1>6 DEF WitnessInv, PastInv

\* The first hashing.
LEMMA HashKept ==
  ASSUME TypeOK, NEW p \in Processes, HashPart(p), HashInv(p), WitnessInv(p)
  PROVE  HashInv(p)' /\ CallInv(p)' /\ WitnessInv(p)'
<1> USE DEF Go, environment, files, Request
<1> DEFINE at == job[p].at
           r == job[p].request.depend
<1>0. job[p] \in Jobs /\ at \in Parts /\ r \in Depends /\ depend \in Depends
  BY DEF TypeOK, Jobs, Requests
<1>1. /\ depend' = depend /\ past' = past /\ witnessed' = witnessed
      /\ job'[p].request.depend = [r EXCEPT ![at] = depend[at]]
      /\ job'[p].at = NextPart(at)
      /\ pc[p] = "hash"
      /\ pc'[p] = IF at = PartCount THEN "query" ELSE "hash"
  BY <1>0 DEF HashPart, TypeOK, Jobs, Requests
<1>2. \A i \in Parts : (pc'[p] = "hash" => i < NextPart(at)) => i = at \/ i < at
  BY <1>0, <1>1, CacheAssumption DEF NextPart, Parts
<1>3. \A i \in Parts : depend[i] \in Int /\ depend[i] <= depend[i]
  BY <1>0, CacheAssumption DEF Depends, Versions
<1>4. \A i \in Parts : job'[p].request.depend[i] = IF i = at THEN depend[i] ELSE r[i]
  BY <1>0, <1>1 DEF Depends
<1>5. HashInv(p)'
  BY <1>1, <1>2, <1>3, <1>4 DEF HashInv, InCall
<1>6. CallInv(p)'
  BY <1>1 DEF CallInv, Storing
<1>7. PICK c \in witnessed[p] : StartedAt(p, c)
  BY <1>1 DEF WitnessInv, InCall
<1>8. StartedAt(p, c)'
  BY <1>1, <1>2, <1>4, <1>7 DEF StartedAt, Below
<1>9. WitnessInv(p)'
  BY <1>1, <1>7, <1>8 DEF WitnessInv, InCall
<1> QED
  BY <1>5, <1>6, <1>9

\* ProgramCache.load, and the question for the provenance before it.
LEMMA LoadKept ==
  ASSUME TypeOK, NEW p \in Processes, Process(p), HashInv(p), CallInv(p), WitnessInv(p),
         EntryInv,
         QueryProvenance(p) \/ Exists(p) \/ ReadMetadata(p) \/ CheckProgram(p)
           \/ OpenProgram(p) \/ ReadFails(p)
  PROVE  HashInv(p)' /\ CallInv(p)' /\ WitnessInv(p)'
<1> USE DEF Go, environment, files, Request
<1>0. job[p] \in Jobs /\ job[p].request \in Requests
  BY DEF TypeOK, Jobs
<1>1. /\ Identified(p) /\ pc'[p] # "hash"
      /\ job'[p].request.depend = job[p].request.depend
      /\ witnessed' = witnessed
  BY <1>0 DEF Identified, InCall, TypeOK, Jobs, Requests, QueryProvenance, Exists,
              ReadMetadata, CheckProgram, OpenProgram, ReadFails, Invalid
<1>2. HashInv(p)' /\ WitnessInv(p)'
  BY <1>1, IdentifiedKept
<1>3. ASSUME pc'[p] \in {"exists", "read", "prepare"} PROVE CallInv(p)'
  BY <1>3 DEF CallInv, Storing
<1>4. CASE QueryProvenance(p) \/ Exists(p) \/ ReadFails(p)
  <2>1. pc'[p] \in {"exists", "read", "prepare"}
    BY <1>4 DEF QueryProvenance, Exists, ReadFails, Invalid, TypeOK
  <2> QED
    BY <1>2, <1>3, <2>1
<1>5. ASSUME Invalid(p) PROVE CallInv(p)'
  <2>1. pc'[p] = "prepare"
    BY <1>5 DEF Invalid, TypeOK
  <2> QED
    BY <1>3, <2>1
<1>6. CASE ReadMetadata(p)
  <2>1. CASE metadata[Request(p)] \notin {Absent, Torn}
    <3>1. metadata[Request(p)] \in Bundles
      BY <1>0, <2>1 DEF TypeOK
    <3>2. Matches(metadata[Request(p)], Request(p)) /\ Request(p).depend \in past
      BY <1>0, <3>1 DEF EntryInv
    <3>3. /\ job'[p].digest = metadata[Request(p)] /\ job'[p].request = job[p].request
          /\ pc'[p] = "check" /\ past' = past
      BY <1>0, <1>6, <2>1 DEF ReadMetadata, TypeOK, Jobs
    <3>4. CallInv(p)'
      BY <3>2, <3>3 DEF CallInv, Matches, Storing
    <3> QED
      BY <1>2, <3>4
  <2> QED
    BY <1>2, <1>5, <1>6, <2>1 DEF ReadMetadata
<1>7. CASE CheckProgram(p)
  <2>1. CASE program[job[p].digest] = "whole"
    <3>1. pc[p] = "check" /\ pc'[p] = "open" /\ job' = job /\ past' = past
      BY <1>7, <2>1 DEF CheckProgram, TypeOK
    <3>2. CallInv(p)'
      BY <3>1 DEF CallInv, Matches, Storing
    <3> QED
      BY <1>2, <3>2
  <2> QED
    BY <1>2, <1>5, <1>7, <2>1 DEF CheckProgram
<1>8. CASE OpenProgram(p)
  <2>1. CASE Opens(job[p].digest, Request(p))
    <3>1. /\ pc[p] = "open" /\ pc'[p] = "returned"
          /\ job'[p].result = job[p].digest /\ job'[p].request = job[p].request
      BY <1>0, <1>8, <2>1 DEF OpenProgram, Opens, TypeOK, Jobs
    <3>2. Matches(job[p].digest, Request(p)) /\ Request(p).depend \in past
      BY <3>1 DEF CallInv
    <3>3. Request(p).depend \in witnessed[p]
      BY <1>1, <3>2, PastIsWitnessed
    <3>4. CallInv(p)'
      BY <1>1, <3>1, <3>2, <3>3 DEF CallInv, Good, Matches
    <3> QED
      BY <1>2, <3>4
  <2> QED
    BY <1>2, <1>5, <1>8, <2>1 DEF OpenProgram
<1> QED
  BY <1>4, <1>6, <1>7, <1>8

\* The compilation: whatever it saw beyond the request has left a file above it.
LEMMA CompileKept ==
  ASSUME TypeOK, NEW p \in Processes, Process(p), HashInv(p), CallInv(p), WitnessInv(p),
         Prepare(p) \/ Build(p)
  PROVE  HashInv(p)' /\ CallInv(p)' /\ WitnessInv(p)'
<1> USE DEF Go, environment, files, Request
<1> DEFINE r == job[p].request.depend
<1>0. /\ job[p] \in Jobs /\ job[p].request \in Requests /\ r \in Depends
      /\ job[p].used.depend \in Depends /\ depend \in Depends
  BY DEF TypeOK, Jobs, Requests
<1>1. /\ Identified(p) /\ pc'[p] # "hash"
      /\ job'[p].request = job[p].request
      /\ witnessed' = witnessed /\ depend' = depend
  <2>1. CASE Prepare(p)
    BY <1>0, <2>1 DEF Identified, InCall, TypeOK, Jobs, Prepare
  <2>2. CASE Build(p)
    <3>1. pc[p] = "build" /\ pc'[p] = "rehash" /\ witnessed' = witnessed /\ depend' = depend
      BY <2>2 DEF TypeOK, Build
    <3>2. PICK b, one : job' = [job EXCEPT ![p].result = b, ![p].at = one]
      BY <2>2 DEF Build
    <3>3. job'[p].request = job[p].request
      BY <1>0, <3>2 DEF Jobs, TypeOK
    <3> QED
      BY <3>1, <3>3 DEF Identified, InCall
  <2> QED
    BY <2>1, <2>2
<1>2. HashInv(p)' /\ WitnessInv(p)'
  BY <1>1, IdentifiedKept
<1>3. Below(r, depend) /\ Below(depend, depend)
  BY <1>0, <1>1, CacheAssumption DEF HashInv, Identified, Below, Depends, Versions
<1>4. CASE Prepare(p)
  <2>1. /\ job'[p].used.depend = depend /\ job'[p].used.provenance = driver
        /\ pc'[p] = IF ProvenanceKept(p) THEN "build" ELSE "raised"
    BY <1>0, <1>4 DEF Prepare, TypeOK, Jobs
  <2>2. CallInv(p)'
    BY <1>1, <1>3, <2>1 DEF CallInv, Storing, ProvenanceKept, Below
  <2> QED
    BY <1>2, <2>2
<1>5. CASE Build(p)
  <2>1. PICK blob \in IF job[p].used.depend = depend
                        THEN Compile(job[p].request.source, depend) ELSE Blobs :
          job' = [job EXCEPT ![p].result = [blob |-> blob,
                                            provenance |-> job[p].used.provenance],
                             ![p].at = 1]
    BY <1>5 DEF Build
  <2>2. /\ pc[p] = "build" /\ pc'[p] = "rehash" /\ job'[p].at = 1
        /\ job'[p].result = [blob |-> blob, provenance |-> job[p].used.provenance]
    BY <1>0, <1>5, <2>1 DEF Build, TypeOK, Jobs
  <2>3. /\ job[p].used.provenance = job[p].request.provenance
        /\ Below(r, job[p].used.depend) /\ Below(job[p].used.depend, depend)
    BY <2>2 DEF CallInv
  <2>4. blob \in Blobs
    BY <1>0, <2>1, CompileAssumption DEF Requests
  <2>5. job'[p].result \in Bundles
          /\ job'[p].result.provenance = job[p].request.provenance
    BY <1>0, <2>2, <2>3, <2>4 DEF Bundles, Requests
  <2>6. CASE r = depend
    <3>1. \A i \in Parts : job[p].used.depend[i] = depend[i]
      BY <1>0, <2>3, <2>6, CacheAssumption DEF Below, Depends, Versions
    <3>2. job[p].used.depend = depend
      BY <1>0, <3>1 DEF Depends
    <3>3. Matches(job'[p].result, job[p].request)
      BY <2>1, <2>2, <2>5, <2>6, <3>2 DEF Matches
    <3>4. r \in witnessed[p]
      BY <1>1, <2>6 DEF WitnessInv, Identified
    <3>5. Good(p)'
      BY <1>1, <3>3, <3>4 DEF Good, Matches
    <3>6. CallInv(p)'
      BY <1>1, <2>2, <2>5, <3>5 DEF CallInv, Storing
    <3> QED
      BY <1>2, <3>6
  <2>7. CASE r # depend
    <3>1. PICK i \in Parts : r[i] # depend[i]
      BY <1>0, <2>7 DEF Depends
    <3>2. r[i] < depend[i]
      BY <1>0, <1>3, <3>1, CacheAssumption DEF Below, Depends, Versions
    <3>3. ~(i < 1)
      BY DEF Parts
    <3>4. Changed(p)'
      BY <1>1, <2>2, <3>2, <3>3 DEF Changed
    <3>5. CallInv(p)'
      BY <1>1, <2>2, <2>5, <3>4 DEF CallInv, Storing
    <3> QED
      BY <1>2, <3>5
  <2> QED
    BY <2>6, <2>7
<1> QED
  BY <1>4, <1>5

\* The second hashing: it ends with a good program or finds the file that changed.
LEMMA RehashKept ==
  ASSUME TypeOK, NEW p \in Processes, Process(p), HashInv(p), CallInv(p), WitnessInv(p),
         RehashPart(p)
  PROVE  HashInv(p)' /\ CallInv(p)' /\ WitnessInv(p)'
<1> USE DEF Go, environment, files, Request
<1> DEFINE r == job[p].request.depend
           at == job[p].at
           again == [job[p].again EXCEPT ![at] = depend[at]]
           kept == DependenciesKept(job[p].request, again)
<1>0. /\ job[p] \in Jobs /\ job[p].request \in Requests /\ r \in Depends
      /\ at \in Parts /\ again \in Depends /\ depend \in Depends
  BY DEF TypeOK, Jobs, Requests, Depends
<1>1. /\ pc[p] = "rehash" /\ pc'[p] \in {"rehash", "export", "raised"}
      /\ witnessed' = witnessed /\ depend' = depend
  BY DEF TypeOK, RehashPart
<1>2. CASE at < PartCount
  <2>1. job' = [job EXCEPT ![p].again = again, ![p].at = NextPart(at)] /\ pc'[p] = "rehash"
    BY <1>2 DEF RehashPart, TypeOK
  <2>2. /\ job'[p].again = again /\ job'[p].at = at + 1
        /\ job'[p].request = job[p].request /\ job'[p].result = job[p].result
    BY <1>0, <1>2, <2>1 DEF Jobs, TypeOK, NextPart, Parts
  <2>3. HashInv(p)' /\ WitnessInv(p)'
    BY <1>1, <2>2, IdentifiedKept DEF Identified, InCall
  <2>4. ASSUME Changed(p) PROVE Changed(p)'
    <3>1. PICK i \in Parts : /\ r[i] < depend[i]
                             /\ i < at => r[i] < job[p].again[i]
      BY <2>4 DEF Changed
    <3>2. again[i] = IF i = at THEN depend[i] ELSE job[p].again[i]
      BY <1>0 DEF Jobs, Depends
    <3>3. i < at + 1 => r[i] < again[i]
      BY <1>0, <3>1, <3>2 DEF Parts
    <3> QED
      BY <1>1, <2>2, <3>1, <3>3 DEF Changed
  <2>5. ASSUME Good(p) PROVE Good(p)'
    BY <1>1, <2>2, <2>5 DEF Good, Matches
  <2>6. CallInv(p)'
    BY <1>1, <2>1, <2>2, <2>4, <2>5 DEF CallInv, Storing
  <2> QED
    BY <2>3, <2>6
<1>3. CASE ~(at < PartCount)
  <2>1. /\ job' = [job EXCEPT ![p].again = again, ![p].result = IF kept THEN @ ELSE None]
        /\ pc'[p] = IF kept THEN "export" ELSE "raised"
    BY <1>3 DEF RehashPart, TypeOK
  <2>2. /\ job'[p].request = job[p].request
        /\ kept => job'[p].result = job[p].result
    BY <1>0, <2>1 DEF Jobs, TypeOK
  <2>3. HashInv(p)' /\ WitnessInv(p)'
    BY <1>1, <2>1, <2>2, IdentifiedKept DEF Identified, InCall
  <2>4. ASSUME kept PROVE Good(p)
    <3> SUFFICES ASSUME Changed(p) PROVE FALSE
      BY <1>1 DEF CallInv
    <3>1. PICK i \in Parts : /\ r[i] < depend[i]
                             /\ i < at => r[i] < job[p].again[i]
      BY DEF Changed
    <3>2. again[i] = IF i = at THEN depend[i] ELSE job[p].again[i]
      BY <1>0 DEF Jobs, Depends
    <3>3. i < at \/ i = at
      BY <1>0, <1>3, CacheAssumption DEF Parts
    <3>4. again[i] = r[i]
      BY <2>4 DEF DependenciesKept
    <3>5. r[i] \in Int
      BY <1>0, CacheAssumption DEF Depends, Versions
    <3> QED
      BY <3>1, <3>2, <3>3, <3>4, <3>5
  <2>5. CallInv(p)'
    BY <1>1, <2>1, <2>2, <2>4 DEF CallInv, Good, Matches, Storing
  <2> QED
    BY <2>3, <2>5
<1> QED
  BY <1>2, <1>3

\* ProgramCache.store, the exceptions and the crash.
LEMMA StoreKept ==
  ASSUME TypeOK, NEW p \in Processes, Process(p), HashInv(p), CallInv(p), WitnessInv(p),
         ExportProgram(p) \/ PublishProgram(p) \/ WriteMetadata(p) \/ PublishMetadata(p)
           \/ StoreFails(p) \/ CleanUp(p)
  PROVE  HashInv(p)' /\ CallInv(p)' /\ WitnessInv(p)'
<1> USE DEF Go, environment, files, Request
<1>0. job[p] \in Jobs
  BY DEF TypeOK
<1>1. /\ pc[p] \in Storing /\ pc'[p] \in Storing \cup {"returned"}
      /\ witnessed' = witnessed
  BY DEF Storing, TypeOK, ExportProgram, PublishProgram, WriteMetadata,
         PublishMetadata, StoreFails, CleanUp
<1>2. job'[p].request = job[p].request /\ job'[p].result = job[p].result
  BY <1>0 DEF TypeOK, Jobs, ExportProgram, PublishProgram, WriteMetadata,
         PublishMetadata, StoreFails, CleanUp
<1>3. HashInv(p)' /\ WitnessInv(p)'
  BY <1>1, <1>2, IdentifiedKept DEF Identified, InCall, Storing
<1>4. Good(p)
  BY <1>1 DEF CallInv
<1>5. Good(p)'
  BY <1>1, <1>2, <1>4 DEF Good, Matches
<1>6. CallInv(p)'
  BY <1>1, <1>5 DEF CallInv, Storing
<1> QED
  BY <1>3, <1>6

LEMMA EndKept ==
  ASSUME TypeOK, NEW p \in Processes, Raise(p) \/ Crash(p)
  PROVE  HashInv(p)' /\ CallInv(p)' /\ WitnessInv(p)'
<1>1. pc'[p] \in {"raised", "idle"}
  BY DEF Raise, Crash, Go, TypeOK
<1> QED
  BY <1>1 DEF HashInv, CallInv, WitnessInv, InCall, Storing

\* All of the steps of a process.
LEMMA ProcessKept ==
  ASSUME TypeOK, CacheInv, NEW p \in Processes, Process(p)
  PROVE  CacheInv'
<1>1. HashInv(p) /\ CallInv(p) /\ WitnessInv(p) /\ PastInv /\ EntryInv /\ ProcessInv
  BY DEF CacheInv, ProcessInv
<1>2. HashInv(p)' /\ CallInv(p)' /\ WitnessInv(p)'
  BY <1>1, StartKept, HashKept, LoadKept, CompileKept, RehashKept, StoreKept, EndKept
     DEF Process
<1>3. ProcessInv'
  BY <1>1, <1>2, OthersKept DEF ProcessInv
<1>4. EntryInv'
  BY <1>1, EntriesKept
<1>5. PastInv'
  BY <1>1, ProcessFrame DEF PastInv, Below
<1> QED
  BY <1>3, <1>4, <1>5 DEF CacheInv

-----------------------------------------------------------------------------
(***************************************************************************)
(* Preservation of CacheInv by the environment.                            *)
(***************************************************************************)

\* A new version is above everything before it.
LEMMA UpdateGrows ==
  ASSUME TypeOK, NEW i \in Parts, Update(i)
  PROVE  /\ depend' \in Depends
         /\ Below(depend, depend')
         /\ \A d \in Depends : Below(d, depend) => Below(d, depend')
<1>1. depend \in [Parts -> Int] /\ depend' = [depend EXCEPT ![i] = @ + 1]
  BY CacheAssumption DEF Update, TypeOK, Depends, Versions
<1>2. depend' \in Depends
  BY CacheAssumption DEF Update, TypeOK, Depends, Versions
<1>3. \A j \in Parts : depend[j] <= depend'[j] /\ depend'[j] \in Int
  BY <1>1
<1>4. \A d \in Depends : \A j \in Parts : d[j] \in Int
  BY CacheAssumption DEF Depends, Versions
<1> QED
  BY <1>1, <1>2, <1>3, <1>4 DEF Below

LEMMA UpdateKept ==
  ASSUME TypeOK, CacheInv, NEW i \in Parts, Update(i)
  PROVE  CacheInv'
<1> USE DEF Request
<1>1. /\ depend' \in Depends /\ Below(depend, depend')
      /\ \A d \in Depends : Below(d, depend) => Below(d, depend')
  BY UpdateGrows
<1>2. past' = past \cup {depend'} /\ past \subseteq Depends /\ depend \in Depends
        /\ UNCHANGED <<metadata, pc, job>>
  BY DEF Update, files, TypeOK
<1>3. PastInv'
  <2>1. Below(depend', depend')
    BY <1>1, CacheAssumption DEF Below, Depends, Versions
  <2>2. \A e \in past' : Below(e, depend')
    BY <1>1, <1>2, <2>1 DEF CacheInv, PastInv
  <2> QED
    BY <1>2, <2>2 DEF PastInv, Below
<1>4. EntryInv'
  BY <1>2 DEF CacheInv, EntryInv, Matches
<1>5. ASSUME NEW p \in Processes PROVE HashInv(p)' /\ CallInv(p)' /\ WitnessInv(p)'
  <2>0. HashInv(p) /\ CallInv(p) /\ WitnessInv(p)
    BY DEF CacheInv, ProcessInv
  <2>1. /\ job[p].request.depend \in Depends /\ job[p].used.depend \in Depends
        /\ job[p].again \in Depends /\ witnessed[p] \subseteq Depends
    BY DEF TypeOK, Jobs, Requests
  <2>2. \A d \in Depends : \A j \in Parts :
          /\ d[j] \in Int
          /\ d[j] <= depend[j] => d[j] <= depend'[j]
          /\ d[j] < depend[j] => d[j] < depend'[j]
    BY <1>1, <1>2, CacheAssumption DEF Below, Depends, Versions
  <2>3. HashInv(p)'
    BY <1>2, <2>0, <2>1, <2>2 DEF HashInv, InCall
  <2>4. witnessed'[p] = IF InCall(p) THEN witnessed[p] \cup {depend'} ELSE witnessed[p]
    BY DEF Update, InCall
  <2>5. Changed(p) => Changed(p)'
    BY <1>2, <2>1, <2>2 DEF Changed
  <2>6. Good(p) => Good(p)'
    BY <1>2, <2>4 DEF Good, Matches
  <2>7. pc[p] = "build" => Below(job[p].used.depend, depend')
    BY <1>1, <2>0, <2>1 DEF CallInv
  <2>8. CallInv(p)'
    BY <1>2, <2>0, <2>5, <2>6, <2>7 DEF CallInv, Matches, Below
  <2>9. WitnessInv(p)'
    <3> SUFFICES ASSUME InCall(p) PROVE WitnessInv(p)'
      BY <1>2 DEF WitnessInv, InCall
    <3>1. PICK c \in witnessed[p] : StartedAt(p, c)
      BY <2>0 DEF WitnessInv
    <3>2. Below(c, depend')
      BY <1>1, <2>1, <3>1 DEF StartedAt
    <3>3. \A e \in past' \ witnessed'[p] : e \in past \ witnessed[p]
      BY <1>2, <2>4
    <3>4. StartedAt(p, c)'
      BY <1>2, <3>1, <3>2, <3>3 DEF StartedAt, Below
    <3> QED
      BY <1>2, <2>0, <2>4, <3>1, <3>4 DEF WitnessInv
  <2> QED
    BY <2>3, <2>8, <2>9
<1> QED
  BY <1>3, <1>4, <1>5 DEF CacheInv, ProcessInv

LEMMA OutsideKept ==
  ASSUME TypeOK, CacheInv, UpdateDriver \/ Damage \/ UNCHANGED vars
  PROVE  CacheInv'
<1>1. UNCHANGED <<depend, past, witnessed, pc, job>>
  BY DEF UpdateDriver, Damage, vars, environment, files
<1>2. \A r \in Requests : metadata'[r] \in Bundles => metadata'[r] = metadata[r]
  BY CacheAssumption DEF UpdateDriver, Damage, vars, files, TypeOK
<1>3. EntryInv'
  BY <1>1, <1>2 DEF CacheInv, EntryInv, Matches
<1>4. PastInv'
  BY <1>1 DEF CacheInv, PastInv, Below
<1>5. ASSUME NEW p \in Processes PROVE HashInv(p)' /\ CallInv(p)' /\ WitnessInv(p)'
  <2>1. HashInv(p) /\ CallInv(p) /\ WitnessInv(p)
    BY DEF CacheInv, ProcessInv
  <2>2. HashInv(p)'
    BY <1>1, <2>1 DEF HashInv, InCall, Request
  <2>3. CallInv(p)'
    BY <1>1, <2>1 DEF CallInv, Good, Changed, Below, Matches, Request
  <2>4. WitnessInv(p)'
    BY <1>1, <2>1 DEF WitnessInv, StartedAt, InCall, Request, Below
  <2> QED
    BY <2>2, <2>3, <2>4
<1> QED
  BY <1>3, <1>4, <1>5 DEF CacheInv, ProcessInv

LEMMA CacheInit == Init => CacheInv
<1> SUFFICES ASSUME Init PROVE CacheInv
  OBVIOUS
<1>1. Below(depend, depend)
  BY DEF Init, Below
<1>2. PastInv
  BY <1>1 DEF Init, PastInv
<1>3. EntryInv
  BY CacheAssumption DEF Init, EntryInv
<1>4. ProcessInv
  BY DEF Init, ProcessInv, HashInv, CallInv, WitnessInv, InCall, Storing
<1> QED
  BY <1>2, <1>3, <1>4 DEF CacheInv

-----------------------------------------------------------------------------
(***************************************************************************)
(* The theorems.                                                           *)
(***************************************************************************)

LEMMA StepKept ==
  ASSUME TypeOK, CacheInv, [Next]_vars
  PROVE  TypeOK' /\ CacheInv'
<1>1. ASSUME NEW p \in Processes, Process(p) PROVE TypeOK' /\ CacheInv'
  <2>1. pc[p] \in Storing => job[p].result \in Bundles
    BY DEF CacheInv, ProcessInv, CallInv, Good, Matches
  <2> QED
    BY <1>1, <2>1, TypeProcess, ProcessKept
<1>2. ASSUME NEW i \in Parts, Update(i) PROVE TypeOK' /\ CacheInv'
  BY <1>2, TypeEnvironment, UpdateKept
<1>3. CASE UpdateDriver \/ Damage
  BY <1>3, TypeEnvironment, OutsideKept
<1>4. CASE UNCHANGED vars
  <2>1. TypeOK'
    BY <1>4 DEF vars, files, TypeOK
  <2> QED
    BY <1>4, <2>1, OutsideKept
<1> QED
  BY <1>1, <1>2, <1>3, <1>4 DEF Next

\* Types and the inductive invariant, for every value of the constants.
THEOREM CacheCorrect == Spec => [](TypeOK /\ CacheInv)
<1>1. Init => TypeOK /\ CacheInv
  BY TypeInit, CacheInit
<1>2. (TypeOK /\ CacheInv) /\ [Next]_vars => (TypeOK /\ CacheInv)'
  BY StepKept
<1> QED
  BY <1>1, <1>2, PTL DEF Spec

\* Every variable of the cache model keeps its type.
THEOREM TypeCorrect == Spec => []TypeOK
BY CacheCorrect, PTL

\* Whatever compile_cached returns was compiled from what the request identifies.
THEOREM ReturnedMatchesCorrect == Spec => []ReturnedMatchesRequest
<1>1. TypeOK /\ CacheInv => ReturnedMatchesRequest
  BY DEF CacheInv, ProcessInv, CallInv, Good, ReturnedMatchesRequest
<1> QED
  BY <1>1, CacheCorrect, PTL

\* And with dependencies that were all current at one moment of the call.
THEOREM ReturnedWasCurrentCorrect == Spec => []ReturnedWasCurrent
<1>1. TypeOK /\ CacheInv => ReturnedWasCurrent
  BY DEF CacheInv, ProcessInv, CallInv, Good, ReturnedWasCurrent
<1> QED
  BY <1>1, CacheCorrect, PTL

-----------------------------------------------------------------------------
(***************************************************************************)
(* No reader meets a half-made entry.                                      *)
(***************************************************************************)

\* Where a process has seen a file it stays, and an entry names a whole bundle.
CleanCall(p) ==
  /\ pc[p] = "read" => metadata[Request(p)] # Absent
  /\ pc[p] \in {"check", "open"} => program[job[p].digest] = "whole"
  /\ pc[p] \in {"describe", "enter"} => program[job[p].result] = "whole"
  /\ "read" \notin Faults => job[p].status \notin {"invalid", "refreshed"}

CleanEntries ==
  \A r \in Requests : /\ metadata[r] # Torn
                      /\ metadata[r] \in Bundles => program[metadata[r]] = "whole"

CleanInv == damage = 0 => CleanEntries /\ \A p \in Processes : CleanCall(p)

\* Nothing but damage takes a file away.
LEMMA FilesStay ==
  ASSUME TypeOK, NEW p \in Processes, Process(p)
  PROVE  /\ \A b \in Bundles : program[b] = "whole" => program'[b] = "whole"
         /\ \/ UNCHANGED metadata
            \/ /\ PublishMetadata(p)
               /\ metadata' = [metadata EXCEPT ![Request(p)] = job[p].result]
         /\ damage' = damage
<1> USE DEF environment, files
<1>1. CASE PublishProgram(p)
  BY <1>1 DEF PublishProgram, TypeOK
<1>2. CASE PublishMetadata(p)
  BY <1>2 DEF PublishMetadata
<1>3. CASE ~PublishProgram(p) /\ ~PublishMetadata(p)
  BY <1>3 DEF Process, Start, HashPart, QueryProvenance, Raise, Exists, ReadMetadata,
         CheckProgram, OpenProgram, ReadFails, Prepare, Build, RehashPart,
         ExportProgram, WriteMetadata, StoreFails, CleanUp, Crash
<1> QED
  BY <1>1, <1>2, <1>3

\* The process itself: an undamaged cache gives it no reason to call an entry invalid.
LEMMA CleanOwn ==
  ASSUME TypeOK, CacheInv, NEW p \in Processes, Process(p), CleanEntries, CleanCall(p)
  PROVE  CleanCall(p)'
<1> USE DEF Go, environment, files, Request
<1>0. job[p] \in Jobs /\ job[p].request \in Requests
  BY DEF TypeOK, Jobs
<1>1. CASE Start(p) \/ Crash(p)
  <2>1. job'[p].status = "miss" /\ pc'[p] \in {"hash", "idle"}
    BY <1>1, NoJobType DEF Start, Crash, TypeOK, NoJob
  <2> QED
    BY <2>1 DEF CleanCall
<1>2. ASSUME job'[p].status = job[p].status,
             pc'[p] \notin {"read", "check", "open", "describe", "enter"}
      PROVE  CleanCall(p)'
  BY <1>2 DEF CleanCall
<1>3. CASE HashPart(p) \/ QueryProvenance(p) \/ Raise(p) \/ Prepare(p)
  BY <1>0, <1>2, <1>3 DEF HashPart, QueryProvenance, Raise, Prepare, TypeOK, Jobs
<1>4. CASE Build(p)
  <2>1. PICK b, one : job' = [job EXCEPT ![p].result = b, ![p].at = one]
    BY <1>4 DEF Build
  <2> QED
    BY <1>0, <1>2, <1>4, <2>1 DEF Build, TypeOK, Jobs
<1>5. CASE RehashPart(p)
  <2>1. pc'[p] \in {"rehash", "export", "raised"}
    BY <1>5 DEF RehashPart, TypeOK
  <2>2. job'[p].status = job[p].status
    BY <1>0, <1>5 DEF RehashPart, TypeOK, Jobs
  <2> QED
    BY <1>2, <2>1, <2>2
<1>6. CASE Exists(p)
  BY <1>6 DEF Exists, TypeOK, CleanCall
<1>7. CASE ReadMetadata(p)
  <2>1. metadata[Request(p)] \in Bundles /\ program[metadata[Request(p)]] = "whole"
    BY <1>0, <1>7 DEF ReadMetadata, CleanCall, CleanEntries, TypeOK
  <2>2. job' = [job EXCEPT ![p].digest = metadata[Request(p)]] /\ pc'[p] = "check"
          /\ program' = program
    BY <1>7, <2>1, CacheAssumption DEF ReadMetadata, TypeOK
  <2>3. job'[p].digest = metadata[Request(p)] /\ job'[p].status = job[p].status
    BY <1>0, <2>2 DEF TypeOK, Jobs
  <2> QED
    BY <2>1, <2>2, <2>3 DEF CleanCall
<1>8. CASE CheckProgram(p)
  <2>1. pc'[p] = "open" /\ job' = job /\ program' = program /\ pc[p] = "check"
    BY <1>8 DEF CheckProgram, CleanCall, TypeOK
  <2> QED
    BY <2>1 DEF CleanCall
<1>9. CASE OpenProgram(p)
  <2>1. Opens(job[p].digest, Request(p))
    <3>1. Matches(job[p].digest, Request(p))
      BY <1>9 DEF OpenProgram, CacheInv, ProcessInv, CallInv
    <3> QED
      BY <1>9, <3>1 DEF OpenProgram, CleanCall, Opens, Matches
  <2>2. job'[p].status = "hit" /\ pc'[p] = "returned"
    BY <1>0, <1>9, <2>1 DEF OpenProgram, TypeOK, Jobs
  <2> QED
    BY <2>2 DEF CleanCall
<1>10. CASE ReadFails(p)
  BY <1>10 DEF ReadFails, Invalid, CleanCall, TypeOK
<1>11. CASE ExportProgram(p) \/ CleanUp(p)
  BY <1>2, <1>11 DEF ExportProgram, CleanUp, TypeOK
<1>12. CASE StoreFails(p)
  <2>1. job'[p].status = "write-error" /\ pc'[p] = "cleanup"
    BY <1>0, <1>12 DEF StoreFails, TypeOK, Jobs
  <2> QED
    BY <2>1 DEF CleanCall
<1>13. CASE PublishProgram(p)
  <2>1. job[p].result \in Bundles
    BY <1>13 DEF PublishProgram, CacheInv, ProcessInv, CallInv, Good, Matches, Storing
  <2>2. pc'[p] = "describe" /\ job' = job /\ program'[job[p].result] = "whole"
    BY <1>13, <2>1 DEF PublishProgram, TypeOK
  <2> QED
    BY <2>2 DEF CleanCall
<1>14. CASE WriteMetadata(p)
  BY <1>14 DEF WriteMetadata, CleanCall, TypeOK
<1>15. CASE PublishMetadata(p)
  <2>1. pc'[p] = "cleanup" /\ job'[p].status = IF job[p].status = "invalid" THEN "refreshed" ELSE "stored"
    BY <1>0, <1>15 DEF PublishMetadata, TypeOK, Jobs
  <2> QED
    BY <2>1 DEF CleanCall
<1> QED
  BY <1>1, <1>3, <1>4, <1>5, <1>6, <1>7, <1>8, <1>9, <1>10, <1>11, <1>12, <1>13, <1>14,
     <1>15 DEF Process

LEMMA CleanProcess ==
  ASSUME TypeOK, CacheInv, CleanInv, NEW p \in Processes, Process(p)
  PROVE  CleanInv'
<1> SUFFICES ASSUME damage' = 0 PROVE CleanEntries' /\ \A q \in Processes : CleanCall(q)'
  BY DEF CleanInv
<1>1. CleanEntries /\ \A q \in Processes : CleanCall(q)
  BY FilesStay DEF CleanInv
<1>2. \A b \in Bundles : program[b] = "whole" => program'[b] = "whole"
  BY FilesStay
<1>3. CleanCall(p)'
  BY <1>1, CleanOwn
<1>4. ASSUME PublishMetadata(p), metadata' = [metadata EXCEPT ![Request(p)] = job[p].result]
      PROVE  /\ job[p].result \in Bundles /\ program'[job[p].result] = "whole"
             /\ Request(p) \in Requests
  BY <1>1, <1>2, <1>4
     DEF PublishMetadata, CleanCall, CacheInv, ProcessInv, CallInv, Good, Matches, Storing,
         TypeOK, Jobs, Request
<1>5. \A r \in Requests : metadata[r] # Absent => metadata'[r] # Absent
  BY <1>4, FilesStay, CacheAssumption DEF TypeOK
<1>6. CleanEntries'
  BY <1>1, <1>2, <1>4, FilesStay, CacheAssumption DEF CleanEntries, TypeOK
<1>7. ASSUME NEW q \in Processes \ {p} PROVE CleanCall(q)'
  <2>1. pc'[q] = pc[q] /\ job'[q] = job[q]
    BY ProcessFrame
  <2>2. job[q].request \in Requests
    BY DEF TypeOK, Jobs
  <2>3. /\ pc[q] \in {"check", "open"} => job[q].digest \in Bundles
        /\ pc[q] \in {"describe", "enter"} => job[q].result \in Bundles
    BY DEF CacheInv, ProcessInv, CallInv, Good, Matches, Storing
  <2> QED
    BY <1>1, <1>2, <1>5, <2>1, <2>2, <2>3 DEF CleanCall, Request
<1> QED
  BY <1>3, <1>6, <1>7

\* While nothing damages the files, no entry is ever found invalid.
THEOREM NeverInvalidCorrect == Spec => []NeverInvalidUndamaged
<1>1. Init => CleanInv
  BY NoJobType, CacheAssumption DEF Init, CleanInv, CleanEntries, CleanCall, NoJob
<1>2. TypeOK /\ CacheInv /\ CleanInv /\ [Next]_vars => CleanInv'
  <2> SUFFICES ASSUME TypeOK, CacheInv, CleanInv, [Next]_vars PROVE CleanInv'
    OBVIOUS
  <2>1. ASSUME NEW p \in Processes, Process(p) PROVE CleanInv'
    BY <2>1, CleanProcess
  <2>2. ASSUME NEW i \in Parts, Update(i) PROVE CleanInv'
    BY <2>2 DEF Update, files, CleanInv, CleanEntries, CleanCall, Request
  <2>3. CASE UpdateDriver \/ UNCHANGED vars
    BY <2>3 DEF UpdateDriver, vars, files, CleanInv, CleanEntries, CleanCall, Request
  <2>4. CASE Damage
    BY <2>4 DEF Damage, CleanInv, TypeOK
  <2> QED
    BY <2>1, <2>2, <2>3, <2>4 DEF Next
<1>3. CleanInv => NeverInvalidUndamaged
  BY DEF CleanInv, CleanCall, NeverInvalidUndamaged
<1> QED
  BY <1>1, <1>2, <1>3, CacheCorrect, PTL DEF Spec

\* compile_cached returns only what was compiled from its request, which was current.
THEOREM ReturnedCorrect == Spec => []ReturnedRight
BY ReturnedMatchesCorrect, ReturnedWasCurrentCorrect, PTL DEF ReturnedRight

-----------------------------------------------------------------------------
(***************************************************************************)
(* The temporary files.  At most one exists at a time: the one of the      *)
(* program between its mkstemp and its rename, then the one of the         *)
(* metadata; the finally clause is on every way from them to the return.   *)
(***************************************************************************)

TempsCall(p) ==
  /\ pc[p] = "publish" => temps[p] \subseteq {"program"}
  /\ pc[p] = "enter" => temps[p] \subseteq {"metadata"}
  /\ pc[p] \notin {"publish", "enter", "cleanup"} => temps[p] = {}

TempsInv == "unlink" \notin Faults => \A p \in Processes : TempsCall(p)

\* A step of the process itself keeps the account of its temporary files.
LEMMA TempsOwn ==
  ASSUME TypeOK, NEW p \in Processes, Process(p), TempsCall(p), "unlink" \notin Faults
  PROVE  TempsCall(p)'
<1> USE DEF Go, environment, files, TypeOK, TempsCall
<1>1. CASE Start(p) \/ HashPart(p) \/ QueryProvenance(p) \/ Raise(p) \/ Exists(p)
  BY <1>1 DEF Start, HashPart, QueryProvenance, Raise, Exists
<1>2. CASE ReadMetadata(p) \/ CheckProgram(p) \/ OpenProgram(p) \/ ReadFails(p)
  BY <1>2 DEF ReadMetadata, CheckProgram, OpenProgram, ReadFails, Invalid
<1>3. CASE Prepare(p) \/ Build(p)
  BY <1>3 DEF Prepare, Build
<1>4. CASE RehashPart(p)
  <2>1. pc[p] = "rehash" /\ temps' = temps /\ pc'[p] \in {"rehash", "export", "raised"}
    BY <1>4 DEF RehashPart
  <2> QED
    BY <2>1
<1>5. CASE ExportProgram(p) \/ WriteMetadata(p)
  BY <1>5 DEF ExportProgram, WriteMetadata, Temp
<1>6. CASE PublishProgram(p) \/ PublishMetadata(p)
  BY <1>6 DEF PublishProgram, PublishMetadata, Renamed
<1>7. CASE StoreFails(p)
  BY <1>7 DEF StoreFails
<1>8. CASE CleanUp(p) \/ Crash(p)
  BY <1>8 DEF CleanUp, Crash, Leftover
<1> QED
  BY <1>1, <1>2, <1>3, <1>4, <1>5, <1>6, <1>7, <1>8 DEF Process

\* A process makes and removes only temporary files of its own.
LEMMA TempsOthers ==
  ASSUME TypeOK, NEW p \in Processes, Process(p), NEW q \in Processes \ {p}
  PROVE  temps'[q] = temps[q] /\ pc'[q] = pc[q]
<1>1. temps'[q] = temps[q]
  <2>1. UNCHANGED temps \/ \E x : temps' = [temps EXCEPT ![p] = x]
    BY DEF Process, Start, HashPart, QueryProvenance, Raise, Exists, ReadMetadata,
           CheckProgram, OpenProgram, ReadFails, Prepare, Build, RehashPart,
           ExportProgram, PublishProgram, WriteMetadata, PublishMetadata, StoreFails,
           CleanUp, Crash, Temp, Renamed, environment, files
  <2> QED
    BY <2>1 DEF TypeOK
<1> QED
  BY <1>1, ProcessFrame

\* Wherever the store fails, a call that returns has removed its temporary files.
THEOREM NoTemporariesCorrect == Spec => []NoTemporariesLeft
<1>1. Init => TempsInv
  BY DEF Init, TempsInv, TempsCall
<1>2. TypeOK /\ TempsInv /\ [Next]_vars => TempsInv'
  <2> SUFFICES ASSUME TypeOK, TempsInv, [Next]_vars, "unlink" \notin Faults,
                      NEW q \in Processes
               PROVE  TempsCall(q)'
    BY DEF TempsInv
  <2>0. \A p \in Processes : TempsCall(p)
    BY DEF TempsInv
  <2>1. ASSUME NEW p \in Processes, Process(p) PROVE TempsCall(q)'
    <3>1. CASE q = p
      BY <2>0, <2>1, <3>1, TempsOwn
    <3>2. CASE q # p
      BY <2>0, <2>1, <3>2, TempsOthers DEF TempsCall
    <3> QED
      BY <3>1, <3>2
  <2>2. ASSUME UNCHANGED <<temps, pc>> PROVE TempsCall(q)'
    BY <2>0, <2>2 DEF TempsCall
  <2> QED
    BY <2>1, <2>2 DEF Next, Update, UpdateDriver, Damage, files, environment, vars
<1>3. TempsInv => NoTemporariesLeft
  BY DEF TempsInv, TempsCall, NoTemporariesLeft
<1> QED
  BY <1>1, <1>2, <1>3, TypeCorrect, PTL DEF Spec
=============================================================================
