---------------------------- MODULE CompileCache ----------------------------
(***************************************************************************)
(* compile_cached of python/npunlock/__init__.py and the ProgramCache of   *)
(* python/npunlock/cache.py: processes that compile through one cache      *)
(* directory.                                                              *)
(*                                                                         *)
(* A call hashes the compiler and runtime files, asks the driver for its   *)
(* provenance, looks for an entry of this exact request, and otherwise     *)
(* compiles, hashes the files again and stores the result: first the       *)
(* bundle under the name of its content, then the metadata of the request  *)
(* that names the bundle, each by a rename of a temporary file.            *)
(*                                                                         *)
(* Between any two steps other processes run, the files and the driver     *)
(* may be updated, a process may be killed, and files of the cache may be  *)
(* damaged or deleted.  Nothing is synced to disk, so a crash of the       *)
(* machine is the crash of every process with damage to any of the files.  *)
(*                                                                         *)
(* A hash stands for the content it was taken from: a digest is the bundle *)
(* itself, the version of a file its size and hash.  Files are updated to  *)
(* new versions and never back: two equal hashes of a file mean that it    *)
(* did not change between them.                                            *)
(***************************************************************************)
EXTENDS Integers, FiniteSets

CONSTANTS
  Processes,     \* processes that share the directory
  Sources,       \* graphs with their kernels, flags and contracts
  PartCount,     \* the dependency files, hashed in the order 1 .. PartCount
  MaxVersion,    \* bound on the versions of a file
  Provenances,   \* driver and compiler identities
  Blobs,         \* what compilations produce
  Compile(_, _), \* the blobs a source and the dependencies may compile to
  Faults,        \* what may fail: "raise", "read", "write", "unlink"
  Crashes,       \* whether processes may be killed
  MaxDamage      \* bound on damaged files

CONSTANTS Absent, Torn, None

Parts    == 1 .. PartCount
Versions == 1 .. MaxVersion
Depends  == [Parts -> Versions]
Bundles  == [blob : Blobs, provenance : Provenances]
Requests == [source : Sources, depend : Depends, provenance : Provenances]

ASSUME CacheAssumption ==
  /\ PartCount \in Nat \ {0}
  /\ MaxVersion \in Nat \ {0}
  /\ Faults \subseteq {"raise", "read", "write", "unlink"}
  /\ Crashes \in BOOLEAN
  /\ MaxDamage \in Nat
  /\ Sources # {} /\ Provenances # {}
  /\ Absent \notin Bundles /\ Torn \notin Bundles /\ None \notin Bundles /\ Absent # Torn

ASSUME CompileAssumption == \A s \in Sources, d \in Depends : Compile(s, d) \subseteq Blobs

VARIABLES
  depend,    \* the dependency files as they are now
  driver,    \* the driver as it is now
  program,   \* program-<digest>.npu, by its content: "absent", "whole" or "torn"
  metadata,  \* request-<hash>.json: Absent, Torn or the digest it names
  temps,     \* the temporary files of the call of each process
  damage,    \* how many files of the cache were damaged
  pc, job,   \* each process: where it is in its call, and its local variables
  witnessed, \* history: the dependencies that were current during each call
  past       \* history: all dependencies that ever were current

files == <<program, metadata, temps, damage>>
vars  == <<depend, driver, files, pc, job, witnessed, past>>

\* The local variables of a call.  `again` is the second hash of the dependencies; `used`
\* is what the first half of the compilation saw.
NoJob == [request |-> [source |-> CHOOSE s \in Sources : TRUE,
                       depend |-> [i \in Parts |-> 1],
                       provenance |-> CHOOSE v \in Provenances : TRUE],
          at |-> 1,
          again |-> [i \in Parts |-> 1],
          used |-> [depend |-> [i \in Parts |-> 1],
                    provenance |-> CHOOSE v \in Provenances : TRUE],
          digest |-> None, result |-> None, status |-> "miss"]

Init ==
  /\ depend = [i \in Parts |-> 1]
  /\ driver \in Provenances
  /\ program = [b \in Bundles |-> "absent"]
  /\ metadata = [r \in Requests |-> Absent]
  /\ temps = [p \in Processes |-> {}]
  /\ damage = 0
  /\ pc = [p \in Processes |-> "idle"]
  /\ job = [p \in Processes |-> NoJob]
  /\ witnessed = [p \in Processes |-> {}]
  /\ past = {depend}

Go(p, where) == pc' = [pc EXCEPT ![p] = where]

environment == <<depend, driver, witnessed, past>>

\* What the call is about, once it is known.
Request(p) == job[p].request

-----------------------------------------------------------------------------
(***************************************************************************)
(* The identity of the request.                                            *)
(***************************************************************************)

\* A process calls compile_cached with a cache directory, for the first time or again.
Start(p) ==
  /\ pc[p] \in {"idle", "returned", "raised"}
  /\ \E s \in Sources : job' = [job EXCEPT ![p] = [NoJob EXCEPT !.request.source = s]]
  /\ temps' = [temps EXCEPT ![p] = {}]
  /\ witnessed' = [witnessed EXCEPT ![p] = {depend}]
  /\ Go(p, "hash")
  /\ UNCHANGED <<depend, driver, past, program, metadata, damage>>

NextPart_past(at) == at + 1

NextPart(at) == IF at = PartCount THEN 1 ELSE at + 1

\* _cache_dependency_json: one file after the other.
HashPart(p) ==
  /\ pc[p] = "hash"
  /\ LET at == job[p].at
     IN  /\ job' = [job EXCEPT ![p].request.depend[at] = depend[at],
                               ![p].at = NextPart(at)]
         /\ Go(p, IF at = PartCount THEN "query" ELSE "hash")
  /\ UNCHANGED <<environment, files>>

\* query_ir_provenance.
QueryProvenance(p) ==
  /\ pc[p] = "query"
  /\ job' = [job EXCEPT ![p].request.provenance = driver]
  /\ Go(p, "exists")
  /\ UNCHANGED <<environment, files>>

\* A file is missing or changes while it is hashed, a worker fails, a contract does not
\* hold, the build fails: the exception leaves compile_cached.  A program is closed first.
Raise(p) ==
  /\ "raise" \in Faults
  /\ pc[p] \in {"hash", "query", "prepare", "build", "rehash"}
  /\ job' = [job EXCEPT ![p].result = None]
  /\ Go(p, "raised")
  /\ UNCHANGED <<environment, files>>

-----------------------------------------------------------------------------
(***************************************************************************)
(* ProgramCache.load.                                                      *)
(***************************************************************************)

Exists(p) ==
  /\ pc[p] = "exists"
  /\ Go(p, IF metadata[Request(p)] = Absent THEN "prepare" ELSE "read")
  /\ UNCHANGED <<environment, files, job>>

Invalid(p) ==
  /\ job' = [job EXCEPT ![p].status = "invalid"]
  /\ Go(p, "prepare")

\* The metadata is read, decoded and compared with the request.
ReadMetadata(p) ==
  /\ pc[p] = "read"
  /\ \/ /\ metadata[Request(p)] \notin {Absent, Torn}
        /\ job' = [job EXCEPT ![p].digest = metadata[Request(p)]]
        /\ Go(p, "check")
     \/ /\ metadata[Request(p)] \in {Absent, Torn}
        /\ Invalid(p)
  /\ UNCHANGED <<environment, files>>

\* Size and hash of the bundle file.
CheckProgram(p) ==
  /\ pc[p] = "check"
  /\ \/ /\ program[job[p].digest] = "whole"
        /\ Go(p, "open")
        /\ UNCHANGED job
     \/ /\ program[job[p].digest] # "whole"
        /\ Invalid(p)
  /\ UNCHANGED <<environment, files>>

Opens_unverified(digest, request) == TRUE

\* load() verifies the members of the archive against its manifest, and the provenance is
\* compared with the one of the request.
Opens(digest, request) ==
  program[digest] = "whole" /\ digest.provenance = request.provenance

\* The file is read a second time.
OpenProgram(p) ==
  /\ pc[p] = "open"
  /\ LET digest == job[p].digest
     IN  \/ /\ Opens(digest, Request(p))
            /\ job' = [job EXCEPT ![p].status = "hit",
                                  ![p].result = IF program[digest] = "whole"
                                                  THEN digest ELSE Torn]
            /\ Go(p, "returned")
         \/ ~Opens(digest, Request(p)) /\ Invalid(p)
  /\ UNCHANGED <<environment, files>>

\* Any of the reads may fail, or the contract of the program may not hold: an invalid entry
\* as well.
ReadFails(p) ==
  /\ "read" \in Faults
  /\ pc[p] \in {"read", "check", "open"}
  /\ Invalid(p)
  /\ UNCHANGED <<environment, files>>

-----------------------------------------------------------------------------
(***************************************************************************)
(* Compilation.                                                            *)
(***************************************************************************)

ProvenanceKept_unchecked(p) == TRUE

\* The provenance that compile_ir itself reported is the one of the request.
ProvenanceKept(p) == driver = Request(p).provenance

\* prepare() compiles the carrier with the driver and the runtime as they are now.
Prepare(p) ==
  /\ pc[p] = "prepare"
  /\ job' = [job EXCEPT ![p].used = [depend |-> depend, provenance |-> driver]]
  /\ Go(p, IF ProvenanceKept(p) THEN "build" ELSE "raised")
  /\ UNCHANGED <<environment, files>>

\* build() compiles the kernels and patches them in.  Anything may come out when a file
\* changed between the two halves of the compilation.
Build(p) ==
  /\ pc[p] = "build"
  /\ \E blob \in IF job[p].used.depend = depend THEN Compile(Request(p).source, depend)
                                                ELSE Blobs :
       job' = [job EXCEPT ![p].result = [blob |-> blob,
                                         provenance |-> job[p].used.provenance],
                          ![p].at = 1]
  /\ Go(p, "rehash")
  /\ UNCHANGED <<environment, files>>

DependenciesKept_last(request, again) == again[PartCount] = request.depend[PartCount]

DependenciesKept(request, again) == again = request.depend

\* The second _cache_dependency_json, and the comparison of the two.
RehashPart(p) ==
  /\ pc[p] = "rehash"
  /\ LET at == job[p].at
         again == [job[p].again EXCEPT ![at] = depend[at]]
         kept == DependenciesKept(Request(p), again)
     IN  IF at < PartCount
           THEN /\ job' = [job EXCEPT ![p].again = again, ![p].at = NextPart(at)]
                /\ Go(p, "rehash")
           ELSE /\ job' = [job EXCEPT ![p].again = again,
                                      ![p].result = IF kept THEN @ ELSE None]
                /\ Go(p, IF kept THEN "export" ELSE "raised")
  /\ UNCHANGED <<environment, files>>

-----------------------------------------------------------------------------
(***************************************************************************)
(* ProgramCache.store.                                                     *)
(***************************************************************************)

Temp(p, kind) == temps' = [temps EXCEPT ![p] = @ \cup {kind}]
Renamed(p, kind) == temps' = [temps EXCEPT ![p] = @ \ {kind}]

\* mkstemp, and the program is exported into the file.
ExportProgram(p) ==
  /\ pc[p] = "export"
  /\ Temp(p, "program")
  /\ Go(p, "publish")
  /\ UNCHANGED <<environment, program, metadata, damage, job>>

PublishProgram_ignoresFailure(p) ==
  /\ pc[p] = "publish"
  /\ \/ program' = [program EXCEPT ![job[p].result] = "whole"] /\ Renamed(p, "program")
     \/ "write" \in Faults /\ UNCHANGED <<program, temps>>
  /\ Go(p, "describe")
  /\ UNCHANGED <<environment, metadata, damage, job>>

\* The temporary is hashed and renamed to the name of its content.
PublishProgram(p) ==
  /\ pc[p] = "publish"
  /\ program' = [program EXCEPT ![job[p].result] = "whole"]
  /\ Renamed(p, "program")
  /\ Go(p, "describe")
  /\ UNCHANGED <<environment, metadata, damage, job>>

\* mkstemp and the text of the metadata.
WriteMetadata(p) ==
  /\ pc[p] = "describe"
  /\ Temp(p, "metadata")
  /\ Go(p, "enter")
  /\ UNCHANGED <<environment, program, metadata, damage, job>>

\* The rename that makes the entry visible.
PublishMetadata(p) ==
  /\ pc[p] = "enter"
  /\ metadata' = [metadata EXCEPT ![Request(p)] = job[p].result]
  /\ Renamed(p, "metadata")
  /\ job' = [job EXCEPT ![p].status = IF @ = "invalid" THEN "refreshed" ELSE "stored"]
  /\ Go(p, "cleanup")
  /\ UNCHANGED <<environment, program, damage>>

\* A step of store fails, before or after it made its temporary file.
StoreFails(p) ==
  /\ "write" \in Faults
  /\ pc[p] \in {"export", "publish", "describe", "enter"}
  /\ \/ UNCHANGED temps
     \/ pc[p] = "export" /\ Temp(p, "program")
     \/ pc[p] = "describe" /\ Temp(p, "metadata")
  /\ job' = [job EXCEPT ![p].status = "write-error"]
  /\ Go(p, "cleanup")
  /\ UNCHANGED <<environment, program, metadata, damage>>

Leftover_metadata(p) == temps[p] \ {"program"}

\* What the finally clause leaves when it can unlink.
Leftover(p) == {}

\* The program is returned whether or not it could be stored.
CleanUp(p) ==
  /\ pc[p] = "cleanup"
  /\ \/ temps' = [temps EXCEPT ![p] = Leftover(p)]
     \/ "unlink" \in Faults /\ UNCHANGED temps
  /\ Go(p, "returned")
  /\ UNCHANGED <<environment, program, metadata, damage, job>>

-----------------------------------------------------------------------------
(***************************************************************************)
(* What happens to the processes and to the files.                         *)
(***************************************************************************)

\* A file of the compiler or of the runtime is updated.
Update(i) ==
  /\ depend[i] < MaxVersion
  /\ depend' = [depend EXCEPT ![i] = @ + 1]
  /\ witnessed' = [p \in Processes |->
       IF pc[p] \in {"idle", "returned", "raised"} THEN witnessed[p]
                                                   ELSE witnessed[p] \cup {depend'}]
  /\ past' = past \cup {depend'}
  /\ UNCHANGED <<driver, files, pc, job>>

UpdateDriver ==
  /\ driver' \in Provenances \ {driver}
  /\ UNCHANGED <<depend, files, pc, job, witnessed, past>>

\* The process is killed; its temporary files stay in the directory.
Crash(p) ==
  /\ Crashes
  /\ pc[p] \notin {"idle", "returned", "raised"}
  /\ job' = [job EXCEPT ![p] = NoJob]
  /\ temps' = [temps EXCEPT ![p] = {}]
  /\ witnessed' = [witnessed EXCEPT ![p] = {}]
  /\ Go(p, "idle")
  /\ UNCHANGED <<depend, driver, past, program, metadata, damage>>

\* A file is deleted, truncated or overwritten, or was never completely on disk.
Damage ==
  /\ damage < MaxDamage
  /\ damage' = damage + 1
  /\ \/ \E b \in Bundles :
          /\ program[b] # "absent"
          /\ program' = [program EXCEPT ![b] = "torn"] \/ program' = [program EXCEPT ![b] = "absent"]
          /\ UNCHANGED metadata
     \/ \E r \in Requests :
          /\ metadata[r] # Absent
          /\ metadata' = [metadata EXCEPT ![r] = Torn] \/ metadata' = [metadata EXCEPT ![r] = Absent]
          /\ UNCHANGED program
  /\ UNCHANGED <<environment, temps, pc, job>>

Process(p) == \/ Start(p) \/ HashPart(p) \/ QueryProvenance(p) \/ Raise(p)
              \/ Exists(p) \/ ReadMetadata(p) \/ CheckProgram(p) \/ OpenProgram(p)
              \/ ReadFails(p) \/ Prepare(p) \/ Build(p) \/ RehashPart(p)
              \/ ExportProgram(p) \/ PublishProgram(p) \/ WriteMetadata(p)
              \/ PublishMetadata(p) \/ StoreFails(p) \/ CleanUp(p) \/ Crash(p)

Next == \/ \E p \in Processes : Process(p)
        \/ \E i \in Parts : Update(i)
        \/ UpdateDriver
        \/ Damage

Spec == Init /\ [][Next]_vars

-----------------------------------------------------------------------------
(***************************************************************************)
(* Properties.                                                             *)
(***************************************************************************)

Places == {"idle", "hash", "query", "exists", "read", "check", "open", "prepare", "build",
           "rehash", "export", "publish", "describe", "enter", "cleanup", "returned", "raised"}

Jobs == [request : Requests, at : Parts, again : Depends,
         used : [depend : Depends, provenance : Provenances],
         digest : Bundles \cup {None}, result : Bundles \cup {None, Torn},
         status : {"miss", "invalid", "hit", "stored", "refreshed", "write-error"}]

\* Every variable has its type.
TypeOK ==
  /\ depend \in Depends
  /\ driver \in Provenances
  /\ program \in [Bundles -> {"absent", "whole", "torn"}]
  /\ metadata \in [Requests -> Bundles \cup {Absent, Torn}]
  /\ temps \in [Processes -> SUBSET {"program", "metadata"}]
  /\ damage \in Nat
  /\ pc \in [Processes -> Places]
  /\ job \in [Processes -> Jobs]
  /\ witnessed \in [Processes -> SUBSET Depends]
  /\ past \subseteq Depends

\* The bundle is one that compiling this request can produce.
Matches(bundle, request) ==
  /\ bundle \in Bundles
  /\ bundle.blob \in Compile(request.source, request.depend)
  /\ bundle.provenance = request.provenance

\* What compile_cached returns, from the cache or newly built, is a program compiled from the
\* source with exactly the dependencies and the driver that the request identifies, however
\* files are updated during the call, entries damaged and calls interleaved: a corrupt or
\* stale entry is a miss.
ReturnedMatchesRequest ==
  \A p \in Processes : pc[p] = "returned" => Matches(job[p].result, Request(p))

\* The dependencies a returned program was compiled with were all current together at one
\* moment of the call, although the hashes are taken file by file and a hit hashes only
\* once: a mixture of old and new files is never served.
ReturnedWasCurrent ==
  \A p \in Processes : pc[p] = "returned" => Request(p).depend \in witnessed[p]

\* What is returned was compiled from the request, and the request was true at one moment.
ReturnedRight == ReturnedMatchesRequest /\ ReturnedWasCurrent

\* No reader ever meets a half-made entry: while nothing damages the files and reads do not
\* fail, no process finds an entry invalid, whatever stores are under way, fail or are
\* killed.
NeverInvalidUndamaged ==
  damage = 0 /\ "read" \notin Faults
    => \A p \in Processes : job[p].status \notin {"invalid", "refreshed"}

\* A call that returns leaves no temporary file behind, wherever the store failed, unless
\* the unlink itself fails.
NoTemporariesLeft ==
  "unlink" \notin Faults => \A p \in Processes : pc[p] = "returned" => temps[p] = {}
=============================================================================
