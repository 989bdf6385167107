--------------------------- MODULE GraphqlArtifacts --------------------------
(***************************************************************************)
(* The catalog of a deployment on its way to the runtime: GraphqlArtifact- *)
(* Compiler writes the four artifact files, and may crash at any point; a  *)
(* process that starts, possibly meanwhile, takes its catalog from them or *)
(* from the source (GraphqlRuntimePlugin.validate), and is stopped again.  *)
(*                                                                         *)
(* A generation of the source stands for the catalog built from it.        *)
(* write_text empties a file before it fills it.                           *)
(***************************************************************************)
EXTENDS Naturals, Sequences

CONSTANTS
  Generation,  \* generations of the source, 1, 2, ...
  Digest,      \* the source digest of each
  Invalid,     \* generations whose schema does not build
  MaxCompiles, \* bound: runs of the compiler
  Missing, Torn

ASSUME ArtifactsAssumption ==
  /\ Generation \subseteq Nat /\ MaxCompiles \in Nat
  /\ Missing \notin Generation /\ Torn \notin Generation /\ Missing # Torn
  /\ Missing \notin [generation : Generation, origin : {"artifacts", "source"}]

VARIABLES
  source,    \* current generation
  files,     \* the generation in each artifact file, or Missing or Torn
  compiler,  \* what the compiler has in hand and the files it has begun
  compiles,  \* runs so far
  runtime,   \* the process that starts and serves
  lock,      \* what it read from catalog.lock, and the digest it asked for
  serving    \* the catalog of `ready`, and where it came from

artifactVars == <<source, files, compiler, compiles, runtime, lock, serving>>
storage == <<source, files, compiler, compiles>>

(* The order in which the files are written.  diagnostics.json and         *)
(* schema.graphql come after them and are never read.                      *)
FileOrder == <<"catalog.json", "catalog.lock">>
Idle == [generation |-> Missing, begun |-> 0, open |-> FALSE]

ArtifactsInit ==
  /\ source \in Generation
  /\ files = [k \in DOMAIN FileOrder |-> Missing]
  /\ compiler = Idle /\ compiles = 0
  /\ runtime = "off" /\ lock = Missing /\ serving = Missing

SourceChanges ==
  /\ source' \in Generation /\ source' > source
  /\ UNCHANGED <<files, compiler, compiles, runtime, lock, serving>>

------------------------------------------------------------------------------
(* write_to_directory: the bundle is written whether or not its catalog    *)
(* has blocking diagnostics; the error is raised afterwards.               *)
Compile ==
  /\ compiler = Idle /\ compiles < MaxCompiles
  /\ compiler' = [generation |-> source, begun |-> 0, open |-> FALSE]
  /\ compiles' = compiles + 1
  /\ UNCHANGED <<source, files, runtime, lock, serving>>

OpenFile ==
  /\ compiler # Idle /\ ~compiler.open /\ compiler.begun < Len(FileOrder)
  /\ compiler' = [compiler EXCEPT !.begun = @ + 1, !.open = TRUE]
  /\ files' = [files EXCEPT ![compiler.begun + 1] = Torn]
  /\ UNCHANGED <<source, compiles, runtime, lock, serving>>

FillFile ==
  /\ compiler.open
  /\ files' = [files EXCEPT ![compiler.begun] = compiler.generation]
  /\ compiler' = IF compiler.begun = Len(FileOrder) THEN Idle ELSE [compiler EXCEPT !.open = FALSE]
  /\ UNCHANGED <<source, compiles, runtime, lock, serving>>

Crash ==
  /\ compiler # Idle
  /\ compiler' = Idle
  /\ UNCHANGED <<source, files, compiles, runtime, lock, serving>>

------------------------------------------------------------------------------
Catalog == 1
Lock == 2
Served(generation, origin) == [generation |-> generation, origin |-> origin]

(* A whole file has every field the reader requires; of a catalog nothing  *)
(* is lost between writing and reading.                                    *)
Readable(file) == file # Torn
Loaded(file) == Served(file, "artifacts")

(* validate: the digest of the source, which the application answers or    *)
(* raises, and then the lock.  No file, or another digest, and the catalog *)
(* is built from the source.                                               *)
AskDigest ==
  /\ runtime = "off"
  /\ \/ runtime' = "asked" /\ lock' = [digest |-> Digest[source], generation |-> Missing]
     \/ runtime' = "failed" /\ UNCHANGED lock
  /\ UNCHANGED <<storage, serving>>

ReadLock ==
  /\ runtime = "asked"
  /\ lock' = [lock EXCEPT !.generation = files[Lock]]
  /\ runtime' = IF Missing \in {files[Catalog], files[Lock]} THEN "building"
                ELSE IF ~Readable(files[Lock]) THEN "failed"
                ELSE IF Digest[files[Lock]] # lock.digest THEN "building"
                ELSE "loading"
  /\ UNCHANGED <<storage, serving>>

(* Mutant: the digest of the lock is taken for that of the catalog.        *)
ReadCatalogUnchecked ==
  /\ runtime = "loading"
  /\ IF ~Readable(files[Catalog]) THEN runtime' = "failed" /\ UNCHANGED serving
     ELSE runtime' = "checked" /\ serving' = Loaded(files[Catalog])
  /\ UNCHANGED <<storage, lock>>

(* The catalog file, which may have changed since: it must agree with the  *)
(* lock.                                                                   *)
ReadCatalog ==
  /\ runtime = "loading"
  /\ IF ~Readable(files[Catalog]) THEN runtime' = "failed" /\ UNCHANGED serving
     ELSE IF Digest[files[Catalog]] = Digest[lock.generation]
       THEN runtime' = "checked" /\ serving' = Loaded(files[Catalog])
     ELSE runtime' = "building" /\ UNCHANGED serving
  /\ UNCHANGED <<storage, lock>>

(* The catalog factory of the application answers or raises.               *)
BuildFromSource ==
  /\ runtime = "building"
  /\ \/ runtime' = "checked" /\ serving' = Served(source, "source")
     \/ runtime' = "failed" /\ UNCHANGED serving
  /\ UNCHANGED <<storage, lock>>

(* The schema is generated and built; only then is the state ready.        *)
BecomeReady ==
  /\ runtime = "checked"
  /\ runtime' = IF serving.generation \in Invalid THEN "failed" ELSE "ready"
  /\ UNCHANGED <<storage, lock, serving>>

(* Startup that failed is tried again.                                     *)
Restart ==
  /\ runtime \in {"failed", "stopped"}
  /\ runtime' = "off" /\ lock' = Missing /\ serving' = Missing
  /\ UNCHANGED storage

(* shutdown leaves `ready` set.                                            *)
Shutdown ==
  /\ runtime = "ready"
  /\ runtime' = "stopped"
  /\ UNCHANGED <<storage, lock, serving>>

Deploy ==
  \/ SourceChanges
  \/ Compile \/ OpenFile \/ FillFile \/ Crash
  \/ AskDigest \/ ReadLock \/ ReadCatalog \/ BuildFromSource \/ BecomeReady \/ Restart

ArtifactsNext == Deploy \/ Shutdown

ArtifactsSpec == ArtifactsInit /\ [][ArtifactsNext]_artifactVars

------------------------------------------------------------------------------
(* However the compiler and the start interleave and wherever the compiler *)
(* crashes, a catalog that is served from the artifacts is one that was    *)
(* compiled whole, and its digest is the one the source had when it was    *)
(* asked for; one with a schema that does not build is not served.         *)
ArtifactsAreCurrent ==
  /\ serving # Missing /\ serving.origin = "artifacts" =>
       serving.generation \in Generation /\ Digest[serving.generation] = lock.digest
  /\ runtime = "ready" => serving # Missing /\ serving.generation \notin Invalid
==============================================================================
