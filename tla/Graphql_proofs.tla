------------------------ MODULE Graphql_proofs --------------------------------
(***************************************************************************)
(* The catalog: what is built from any database and any sidecar is sound   *)
(* when no error is reported, for every reason to reject a thing reports   *)
(* one (ParsedOK, BuiltOK), and the scopes of a schema that builds tell    *)
(* its resolvers apart.                                                    *)
(*                                                                         *)
(* The artifacts: for any number of generations and of runs of the         *)
(* compiler, a catalog served from the artifacts has the digest the source *)
(* had when asked.                                                         *)
(*                                                                         *)
(* The digest of the lock is compared when the lock is read and that of    *)
(* the catalog with the lock's later, the compiler writing in between.     *)
(* What carries over is that the generation kept from the lock has the     *)
(* digest asked for (Agreed), and that a catalog file, once there, is      *)
(* never missing again.                                                    *)
(*                                                                         *)
(* The requests: however many there are and whatever becomes of them, each *)
(* is reported as it is answered, and none disturbs the artifacts.         *)
(***************************************************************************)
EXTENDS GraphqlCatalog, GraphqlService, SequenceTheorems, TLAPS

File == Generation \cup {Missing, Torn}
Origins == {"artifacts", "source"}

StorageOK ==
  /\ source \in Generation
  /\ files \in [1 .. 2 -> File]
  /\ compiler \in [generation : Generation \cup {Missing}, begun : 0 .. 2, open : BOOLEAN]
  /\ compiler # Idle => compiler.generation \in Generation
  /\ compiler.open => compiler # Idle /\ compiler.begun \in 1 .. 2

(* What a start has read so far.                                           *)
Agreed ==
  /\ runtime \in {"off", "asked", "loading", "building"} => serving = Missing
  /\ runtime = "asked" => \E d : lock = [digest |-> d, generation |-> Missing]
  /\ runtime = "loading" =>
       /\ lock.generation \in Generation /\ Digest[lock.generation] = lock.digest
       /\ files[Catalog] # Missing

ServingOK ==
  /\ serving # Missing => serving \in [generation : Generation, origin : Origins]
  /\ runtime = "checked" => serving # Missing

ArtifactsInv == StorageOK /\ Agreed /\ ServingOK /\ ArtifactsAreCurrent

USE DEF Catalog, Lock, FileOrder, File, Origins

LEMMA ArtifactsStart ==
  ArtifactsInit => ArtifactsInv
<1>. SUFFICES ASSUME ArtifactsInit PROVE ArtifactsInv
  OBVIOUS
<1>1. DOMAIN FileOrder = 1 .. 2
  OBVIOUS
<1>2. StorageOK
  BY <1>1 DEF ArtifactsInit, StorageOK, Idle
<1>. QED
  BY <1>2 DEF ArtifactsInit, ArtifactsInv, Agreed, ServingOK, ArtifactsAreCurrent

(* The compiler and the source move; what a start has read does not.       *)
LEMMA StorageMoves ==
  ASSUME ArtifactsInv, UNCHANGED <<runtime, lock, serving>>, StorageOK',
         files[1] # Missing => files'[1] # Missing
  PROVE  ArtifactsInv'
BY DEF ArtifactsInv, Agreed, ServingOK, ArtifactsAreCurrent

LEMMA CompilerStep ==
  ASSUME ArtifactsInv, SourceChanges \/ Compile \/ OpenFile \/ FillFile \/ Crash
  PROVE  ArtifactsInv'
<1>. USE DEF ArtifactsInv
<1>0. Len(FileOrder) = 2
  OBVIOUS
<1>1. CASE SourceChanges
  BY <1>1, StorageMoves DEF SourceChanges, StorageOK
<1>2. CASE Compile
  <2>1. compiler' \in [generation : Generation, begun : 0 .. 2, open : BOOLEAN] /\ ~compiler'.open
    BY <1>2 DEF Compile, StorageOK
  <2>2. StorageOK'
    BY <1>2, <2>1 DEF Compile, StorageOK
  <2>. QED
    BY <1>2, <2>2, StorageMoves DEF Compile
<1>3. CASE OpenFile
  <2>1. compiler.begun \in 0 .. 1 /\ compiler.generation \in Generation
    BY <1>3, <1>0 DEF OpenFile, StorageOK
  <2>2. compiler' = [generation |-> compiler.generation, begun |-> compiler.begun + 1, open |-> TRUE]
    BY <1>3 DEF OpenFile, StorageOK
  <2>3. files' \in [1 .. 2 -> File] /\ (files[1] # Missing => files'[1] # Missing)
    BY <1>3, <2>1, ArtifactsAssumption DEF OpenFile, StorageOK
  <2>4. /\ compiler' \in [generation : Generation \cup {Missing}, begun : 0 .. 2, open : BOOLEAN]
        /\ compiler'.generation \in Generation /\ compiler'.begun \in 1 .. 2 /\ compiler' # Idle
    BY <2>1, <2>2, ArtifactsAssumption DEF Idle
  <2>5. StorageOK'
    BY <1>3, <2>3, <2>4 DEF OpenFile, StorageOK
  <2>. QED
    BY <1>3, <2>3, <2>5, StorageMoves DEF OpenFile
<1>4. CASE FillFile
  <2>1. compiler.begun \in 1 .. 2 /\ compiler.generation \in Generation
    BY <1>4 DEF FillFile, StorageOK
  <2>2. files' \in [1 .. 2 -> File] /\ (files[1] # Missing => files'[1] # Missing)
    BY <1>4, <2>1, ArtifactsAssumption DEF FillFile, StorageOK
  <2>3. \/ compiler' = Idle
        \/ compiler' = [generation |-> compiler.generation, begun |-> compiler.begun, open |-> FALSE]
    BY <1>4 DEF FillFile, StorageOK
  <2>4. /\ compiler' \in [generation : Generation \cup {Missing}, begun : 0 .. 2, open : BOOLEAN]
        /\ compiler' # Idle => compiler'.generation \in Generation
        /\ ~compiler'.open
    <3>1. CASE compiler' = Idle
      BY <3>1 DEF Idle
    <3>2. CASE compiler' = [generation |-> compiler.generation, begun |-> compiler.begun, open |-> FALSE]
      BY <2>1, <3>2
    <3>. QED
      BY <2>3, <3>1, <3>2
  <2>5. StorageOK'
    BY <1>4, <2>2, <2>4 DEF FillFile, StorageOK
  <2>. QED
    BY <1>4, <2>2, <2>5, StorageMoves DEF FillFile
<1>5. CASE Crash
  <2>1. StorageOK'
    BY <1>5 DEF Crash, StorageOK, Idle
  <2>. QED
    BY <1>5, <2>1, StorageMoves DEF Crash
<1>. QED
  BY <1>1, <1>2, <1>3, <1>4, <1>5

LEMMA StartStep ==
  ASSUME ArtifactsInv,
         AskDigest \/ ReadLock \/ ReadCatalog \/ BuildFromSource \/ BecomeReady \/ Restart \/ Shutdown
  PROVE  ArtifactsInv'
<1>. USE DEF ArtifactsInv, storage
<1>0. StorageOK'
  BY DEF AskDigest, ReadLock, ReadCatalog, BuildFromSource, BecomeReady, Restart, Shutdown, StorageOK, Idle
<1>1. CASE AskDigest
  BY <1>0, <1>1 DEF AskDigest, Agreed, ServingOK, ArtifactsAreCurrent
<1>2. CASE ReadLock
  <2>1. PICK d : lock = [digest |-> d, generation |-> Missing]
    BY <1>2 DEF ReadLock, Agreed
  <2>2. lock' = [digest |-> d, generation |-> files[2]]
    BY <1>2, <2>1 DEF ReadLock
  <2>3. /\ files' = files /\ serving' = Missing /\ serving = Missing
        /\ runtime' \in {"building", "failed", "loading"}
    BY <1>2 DEF ReadLock, Agreed
  <2>4. runtime' = "loading" =>
          files[1] # Missing /\ files[2] \in Generation /\ Digest[files[2]] = d
    BY <1>2, <2>1 DEF ReadLock, Readable, StorageOK
  <2>. QED
    BY <1>0, <2>2, <2>3, <2>4 DEF Agreed, ServingOK, ArtifactsAreCurrent
<1>3. CASE ReadCatalog
  <2>1. lock' = lock /\ files' = files /\ serving = Missing
    BY <1>3 DEF ReadCatalog, Agreed
  <2>2. CASE runtime' # "checked"
    <3>1. serving' = Missing /\ runtime' \in {"failed", "building"}
      BY <1>3, <2>1, <2>2 DEF ReadCatalog
    <3>. QED
      BY <1>0, <2>1, <3>1 DEF Agreed, ServingOK, ArtifactsAreCurrent
  <2>3. CASE runtime' = "checked"
    <3>1. /\ runtime' = "checked" /\ serving' = [generation |-> files[1], origin |-> "artifacts"]
          /\ files[1] \in Generation /\ Digest[files[1]] = lock.digest
      BY <1>3, <2>3 DEF ReadCatalog, Agreed, Readable, Loaded, Served, StorageOK
    <3>. QED
      BY <1>0, <2>1, <3>1, ArtifactsAssumption DEF Agreed, ServingOK, ArtifactsAreCurrent
  <2>. QED
    BY <2>2, <2>3
<1>4. CASE BuildFromSource
  BY <1>0, <1>4, ArtifactsAssumption
  DEF BuildFromSource, Served, StorageOK, Agreed, ServingOK, ArtifactsAreCurrent
<1>5. CASE BecomeReady
  BY <1>0, <1>5 DEF BecomeReady, Agreed, ServingOK, ArtifactsAreCurrent
<1>6. CASE Restart
  BY <1>0, <1>6 DEF Restart, Agreed, ServingOK, ArtifactsAreCurrent
<1>7. CASE Shutdown
  BY <1>0, <1>7 DEF Shutdown, Agreed, ServingOK, ArtifactsAreCurrent
<1>. QED
  BY <1>1, <1>2, <1>3, <1>4, <1>5, <1>6, <1>7

(* The inductive invariant of the compiler and the start: what is kept of  *)
(* the lock has the digest that was asked for.                             *)
THEOREM ArtifactsInvariant ==
  ArtifactsSpec => []ArtifactsInv
<1>1. ArtifactsInit => ArtifactsInv
  BY ArtifactsStart
<1>2. ArtifactsInv /\ [ArtifactsNext]_artifactVars => ArtifactsInv'
  <2>. SUFFICES ASSUME ArtifactsInv, [ArtifactsNext]_artifactVars PROVE ArtifactsInv'
    OBVIOUS
  <2>1. CASE UNCHANGED artifactVars
    BY <2>1 DEF artifactVars, ArtifactsInv, StorageOK, Idle, Agreed, ServingOK, ArtifactsAreCurrent
  <2>2. CASE ArtifactsNext
    BY <2>2, CompilerStep, StartStep DEF ArtifactsNext, Deploy
  <2>. QED
    BY <2>1, <2>2
<1>. QED
  BY <1>1, <1>2, PTL DEF ArtifactsSpec

(* However the compiler and the start interleave and wherever the compiler *)
(* crashes, what is served from the artifacts was compiled whole and has   *)
(* the digest the source had when it was asked (write_to_directory and     *)
(* try_load_graphql_catalog_artifacts).                                    *)
THEOREM ArtifactsStayCurrent ==
  ArtifactsSpec => []ArtifactsAreCurrent
<1>1. ArtifactsInv => ArtifactsAreCurrent
  BY DEF ArtifactsInv
<1>. QED
  BY <1>1, ArtifactsInvariant, PTL
------------------------------------------------------------------------------
(* The requests of a runtime.  A request without events has no answer yet, *)
(* so one that is received is not yet answered; what an answered one has   *)
(* been reported as is never touched again, for a request is open only     *)
(* with its start and nothing else reported.                               *)
Reported(r) ==
  /\ events[r] = << >> => response[r] = Missing
  /\ response[r] # Missing =>
       \/ response[r].status = Missing /\ events[r] \in {<<Started>>, <<Started, Completed(200)>>}
       \/ events[r] = <<Started, Completed(response[r].status)>>

TrafficInv ==
  /\ events = [r \in Request |-> events[r]]
  /\ response = [r \in Request |-> response[r]]
  /\ \A r \in Request : Reported(r)

LEMMA Pairs ==
  ASSUME NEW x, NEW y
  PROVE  Append(<<x>>, y) = <<x, y>> /\ Head(<<x>>) = x /\ Head(<<x, y>>) = x
<1>. DEFINE S == {x, y}
<1>1. <<x>> \in Seq(S) /\ y \in S /\ x \in S
  OBVIOUS
<1>2. Append(<<x>>, y) = <<x, y>>
  <2>1. Append(<<x>>, y) \in Seq(S) /\ <<x, y>> \in Seq(S)
    BY <1>1
  <2>2. Len(Append(<<x>>, y)) = 2 /\ Append(<<x>>, y)[1] = x /\ Append(<<x>>, y)[2] = y
    BY <1>1
  <2>3. Len(<<x, y>>) = 2 /\ <<x, y>>[1] = x /\ <<x, y>>[2] = y
    OBVIOUS
  <2>4. ASSUME NEW s \in Seq(S), NEW t \in Seq(S), Len(s) = 2, Len(t) = 2, s[1] = t[1], s[2] = t[2]
        PROVE  s = t
    <3>1. \A i \in 1 .. Len(s) : s[i] = t[i]
      BY <2>4
    <3>. QED
      BY <3>1, <2>4, SeqEqual
  <2>. QED
    BY <2>1, <2>2, <2>3, <2>4
<1>3. Head(<<x>>) = x
  OBVIOUS
<1>4. Head(<<x, y>>) = x
  OBVIOUS
<1>. QED
  BY <1>2, <1>3, <1>4

LEMMA TrafficStart ==
  ServiceInit => TrafficInv
BY DEF ServiceInit, TrafficInv, Reported

LEMMA TrafficRests ==
  TrafficInv /\ UNCHANGED traffic => TrafficInv'
BY DEF TrafficInv, Reported, traffic

(* A step that leaves the other requests alone.                            *)
LEMMA OneRequest ==
  ASSUME TrafficInv, NEW r \in Request, NEW e, NEW a,
         events' = [events EXCEPT ![r] = e], response' = [response EXCEPT ![r] = a],
         e = << >> => a = Missing,
         a # Missing =>
           \/ a.status = Missing /\ e \in {<<Started>>, <<Started, Completed(200)>>}
           \/ e = <<Started, Completed(a.status)>>
  PROVE  TrafficInv'
<1>1. /\ events' = [q \in Request |-> events'[q]]
      /\ response' = [q \in Request |-> response'[q]]
  BY DEF TrafficInv
<1>2. events'[r] = e /\ response'[r] = a
  BY DEF TrafficInv
<1>3. ASSUME NEW q \in Request, q # r PROVE events'[q] = events[q] /\ response'[q] = response[q]
  BY <1>3 DEF TrafficInv
<1>4. Reported(r)'
  BY <1>2 DEF Reported
<1>5. ASSUME NEW q \in Request, q # r PROVE Reported(q)'
  <2>1. Reported(q)
    BY DEF TrafficInv
  <2>. QED
    BY <2>1, <1>3, <1>5 DEF Reported
<1>. QED
  BY <1>1, <1>4, <1>5 DEF TrafficInv

LEMMA Responded ==
  ASSUME TrafficInv, NEW r \in Request, Open(r),
         NEW status, NEW asked, NEW executed, Respond(r, status, asked, executed)
  PROVE  TrafficInv'
<1>. DEFINE a == [status |-> status, asked |-> asked, executed |-> executed]
<1>. DEFINE e == <<Started, Completed(status)>>
<1>1. Append(events[r], Completed(status)) = e
  BY Pairs DEF Open
<1>2. events' = [events EXCEPT ![r] = e] /\ response' = [response EXCEPT ![r] = a]
  BY <1>1 DEF Respond
<1>3. e # << >> /\ a.status = status
  OBVIOUS
<1>4. e = <<Started, Completed(a.status)>>
  BY <1>3
<1>. HIDE DEF a, e
<1>. QED
  BY <1>2, <1>3, <1>4, OneRequest

LEMMA CancelledIsReported ==
  ASSUME TrafficInv, NEW r \in Request, Cancelled(r)
  PROVE  TrafficInv'
<1>. DEFINE a == [status |-> Missing, asked |-> Missing, executed |-> FALSE]
<1>1. events[r] = <<Started>>
  BY DEF Cancelled, Open
<1>2. Append(events[r], Completed(200)) = <<Started, Completed(200)>>
  BY <1>1, Pairs
<1>3. events = [events EXCEPT ![r] = <<Started>>]
  BY <1>1 DEF TrafficInv
<1>4. PICK e \in {<<Started>>, <<Started, Completed(200)>>} : events' = [events EXCEPT ![r] = e]
  BY <1>2, <1>3 DEF Cancelled
<1>5. response' = [response EXCEPT ![r] = a] /\ a.status = Missing /\ e # << >>
  BY DEF Cancelled
<1>. HIDE DEF a
<1>. QED
  BY <1>4, <1>5, OneRequest

LEMMA TrafficStep ==
  ASSUME TrafficInv, [ServiceNext]_serviceVars
  PROVE  TrafficInv'
<1>1. CASE UNCHANGED traffic
  BY <1>1, TrafficRests
<1>2. ASSUME NEW r \in Request, ReceiveRequest(r) PROVE TrafficInv'
  <2>1. response[r] = Missing /\ response' = [response EXCEPT ![r] = Missing]
    BY <1>2 DEF ReceiveRequest, TrafficInv, Reported
  <2>2. events' = [events EXCEPT ![r] = <<Started>>] /\ <<Started>> # << >>
    BY <1>2 DEF ReceiveRequest
  <2>. QED
    BY <2>1, <2>2, OneRequest
<1>3. ASSUME NEW r \in Request, Raises(r) PROVE TrafficInv'
  BY <1>3, Responded DEF Raises
<1>4. ASSUME NEW r \in Request, NEW asked, Refuse(r, asked) PROVE TrafficInv'
  BY <1>4, Responded DEF Refuse
<1>5. ASSUME NEW r \in Request, NEW asked, Execute(r, asked) PROVE TrafficInv'
  BY <1>5, Responded DEF Execute
<1>6. CASE UNCHANGED serviceVars
  BY <1>6, <1>1 DEF serviceVars, traffic
<1>7. CASE ServiceNext
  BY <1>7, <1>1, <1>2, <1>3, <1>4, <1>5, CancelledIsReported DEF ServiceNext, StopServing
<1>. QED
  BY <1>6, <1>7

(* Whatever becomes of a request, and whatever the compiler and the other  *)
(* requests do meanwhile, on_event hears of its start once and of its end  *)
(* with the status it is answered with; a cancelled one may end unheard    *)
(* (_handle_graphql_request).                                              *)
THEOREM EventsArePairedAlways ==
  ServiceSpec => []EventsArePaired
<1>1. ServiceInit => TrafficInv
  BY TrafficStart
<1>2. TrafficInv /\ [ServiceNext]_serviceVars => TrafficInv'
  BY TrafficStep
<1>3. TrafficInv => EventsArePaired
  <2>1. ASSUME NEW r \in Request, Reported(r), response[r] # Missing
        PROVE  IF response[r].status = Missing
                 THEN Head(events[r]) = Started /\ Len(events[r]) <= 2
                 ELSE events[r] = <<Started, Completed(response[r].status)>>
    <3>1. ASSUME NEW e, e \in {<<Started>>, <<Started, Completed(200)>>}
          PROVE  Head(e) = Started /\ Len(e) <= 2
      <4>1. CASE e = <<Started>>
        BY <4>1, Pairs
      <4>2. CASE e = <<Started, Completed(200)>>
        BY <4>2, Pairs
      <4>. QED
        BY <3>1, <4>1, <4>2
    <3>2. ASSUME NEW status, events[r] = <<Started, Completed(status)>>
          PROVE  Head(events[r]) = Started /\ Len(events[r]) <= 2
      BY <3>2, Pairs
    <3>. QED
      BY <2>1, <3>1, <3>2 DEF Reported
  <2>. QED
    BY <2>1 DEF TrafficInv, EventsArePaired
<1>. QED
  BY <1>1, <1>2, <1>3, PTL DEF ServiceSpec

(* The requests do not disturb it: while they are served, and the runtime  *)
(* is stopped only when they are over, the artifacts are as current as in  *)
(* a deployment without requests.                                          *)
THEOREM ServiceKeepsArtifactsCurrent ==
  ServiceSpec => []ArtifactsAreCurrent
<1>1. ServiceInit => ArtifactsInit
  BY DEF ServiceInit
<1>2. [ServiceNext]_serviceVars => [ArtifactsNext]_artifactVars
  BY DEF ServiceNext, StopServing, ReceiveRequest, Raises, Cancelled, Refuse, Execute, Respond,
         ArtifactsNext, serviceVars
<1>3. ServiceSpec => ArtifactsSpec
  BY <1>1, <1>2, PTL DEF ServiceSpec, ArtifactsSpec
<1>. QED
  BY <1>3, ArtifactsStayCurrent, PTL

------------------------------------------------------------------------------
(* The catalog.                                                            *)
Steps == {"connect"} \cup Queries \cup {"parse", "build", "schema", "ready", "failed"}

(* What the parser read, for the objects the sidecar allows.               *)
ParsedOK ==
  /\ document # Malformed
  /\ DOMAIN metadata.objects = Allowed
  /\ \A o \in Allowed : metadata.objects[o] = ParsedEntry(document.objects[o])
  /\ metadata.limit = Optional(document.limit, Absent)
  /\ ~HasErrors => /\ ~LimitWrong(document.limit)
                   /\ \A o \in Allowed : ~LimitWrong(document.objects[o].limit)

(* What the builder published, every reason to reject it being reported.   *)
BuiltOK ==
  /\ catalog = [o \in Published |-> Object(o)]
  /\ BuildErrors(catalog) \subseteq diagnostics

CatalogInv ==
  /\ database \in Databases /\ document \in Documents
  /\ step \in Steps
  /\ \A o \in DOMAIN physical : NameOf[o] \in Name
  /\ step \in {"build", "schema", "ready"} => ParsedOK
  /\ step \in {"schema", "ready"} => BuiltOK
  /\ step = "ready" => SchemaBuilds

LEMMA CatalogStart == ASSUME CatalogInit PROVE CatalogInv
<1>. DEFINE none == << >>
<1>1. physical = none /\ DOMAIN none = {}
  BY DEF CatalogInit
<1>2. step = "connect" /\ step \in Steps
  BY DEF CatalogInit, Steps
<1>. HIDE DEF none
<1>3. DOMAIN physical = {}
  BY <1>1
<1>. QED
  BY <1>2, <1>3 DEF CatalogInit, CatalogInv

(* The steps before the sidecar is read leave nothing to be shown.         *)
LEMMA IntrospectionStep ==
  ASSUME CatalogAssumption, CatalogInv,
         \/ SchemaChanges \/ Connect \/ QueryFails
         \/ LoadObjects \/ LoadFields \/ LoadIdentityFields \/ LoadRelations
  PROVE  CatalogInv'
<1>1. /\ database' \in Databases /\ document' \in Documents
      /\ step' \in {"objects", "fields", "identity", "relations", "parse", "failed"}
  <2>1. CASE SchemaChanges
    BY <2>1 DEF SchemaChanges, CatalogInv, outputs, Queries
  <2>2. CASE Connect \/ QueryFails
    BY <2>2 DEF Connect, QueryFails, IntrospectionRaises, CatalogInv, inputs, outputs
  <2>3. CASE LoadObjects
    BY <2>3 DEF LoadObjects, CatalogInv, inputs, outputs
  <2>4. CASE LoadFields \/ LoadIdentityFields \/ LoadRelations
    BY <2>4 DEF LoadFields, LoadIdentityFields, LoadRelations, LoadRows, IntrospectionRaises,
                CatalogInv, inputs, outputs
  <2>. QED
    BY <2>1, <2>2, <2>3, <2>4
<1>2. DOMAIN physical' = DOMAIN physical \/ DOMAIN physical' = DOMAIN database
  <2>1. CASE SchemaChanges \/ Connect \/ QueryFails
    BY <2>1 DEF SchemaChanges, Connect, QueryFails, IntrospectionRaises
  <2>2. CASE LoadObjects
    BY <2>2 DEF LoadObjects
  <2>3. CASE LoadFields
    BY <2>3 DEF LoadFields, LoadRows, IntrospectionRaises
  <2>4. CASE LoadIdentityFields
    BY <2>4 DEF LoadIdentityFields, LoadRows, IntrospectionRaises
  <2>5. CASE LoadRelations
    BY <2>5 DEF LoadRelations, LoadRows, IntrospectionRaises
  <2>. QED
    BY <2>1, <2>2, <2>3, <2>4, <2>5
<1>3. \A o \in DOMAIN physical' : NameOf[o] \in Name
  BY <1>2 DEF CatalogInv, CatalogAssumption
<1>4. step' \in Steps /\ step' \notin {"build", "schema", "ready"}
  BY <1>1 DEF Steps, Queries
<1>. QED
  BY <1>1, <1>3, <1>4 DEF CatalogInv

(* An allowed entry whose limit is wrong is an error.                      *)
LEMMA ParseDocumentInv ==
  ASSUME CatalogInv, ParseDocument
  PROVE  CatalogInv'
<1>1. /\ step' \in {"build", "failed"} /\ step' \in Steps
      /\ UNCHANGED <<database, document, physical>>
  BY DEF ParseDocument, inputs, Steps
<1>2. ASSUME step' = "build" PROVE ParsedOK'
  <2>1. /\ document # Malformed
        /\ metadata' = [objects |-> [o \in Allowed |-> ParsedEntry(document.objects[o])],
                        limit |-> Optional(document.limit, Absent)]
    BY <1>2 DEF ParseDocument
  <2>2. /\ (IF document.version = 1 /\ ~LimitWrong(document.limit) THEN {}
              ELSE {Error("metadata_invalid_shape", Absent)}) \subseteq diagnostics'
        /\ \A o \in Allowed : EntryErrors(o, document.objects[o]) \subseteq diagnostics'
    BY <1>2, <2>1 DEF ParseDocument
  <2>3. /\ DOMAIN metadata'.objects = Allowed
        /\ \A o \in Allowed : metadata'.objects[o] = ParsedEntry(document.objects[o])
        /\ metadata'.limit = Optional(document.limit, Absent)
    <3>. DEFINE read == [o \in Allowed |-> ParsedEntry(document.objects[o])]
                limit == Optional(document.limit, Absent)
    <3>1. DOMAIN read = Allowed /\ \A o \in Allowed : read[o] = ParsedEntry(document.objects[o])
      OBVIOUS
    <3>2. metadata' = [objects |-> read, limit |-> limit]
      BY <2>1
    <3>. HIDE DEF read, limit
    <3>3. metadata'.objects = read /\ metadata'.limit = limit
      BY <3>2
    <3>. QED
      BY <3>1, <3>3 DEF limit
  <2>4. ASSUME ~HasErrors' PROVE ~LimitWrong(document.limit)
    <3>1. Error("metadata_invalid_shape", Absent) \notin diagnostics'
      BY <2>4 DEF HasErrors, Error, Finding
    <3>. QED
      BY <2>2, <3>1
  <2>5. ASSUME ~HasErrors', NEW o \in Allowed PROVE ~LimitWrong(document.objects[o].limit)
    <3>1. Error("metadata_invalid_shape", o) \notin diagnostics'
      BY <2>5 DEF HasErrors, Error, Finding
    <3>2. LimitWrong(document.objects[o].limit) =>
            Error("metadata_invalid_shape", o) \in EntryErrors(o, document.objects[o])
      BY DEF EntryErrors
    <3>. QED
      BY <2>2, <3>1, <3>2
  <2>6. Allowed' = Allowed
    BY <1>1 DEF Allowed
  <2>. QED
    BY <1>1, <2>1, <2>3, <2>4, <2>5, <2>6 DEF ParsedOK
<1>. QED
  BY <1>1, <1>2 DEF CatalogInv

LEMMA BuildCatalogInv ==
  ASSUME CatalogInv, BuildCatalog
  PROVE  CatalogInv'
<1>1. /\ step = "build" /\ step' = "schema" /\ step' \in Steps
      /\ UNCHANGED <<database, document, physical, metadata>>
      /\ diagnostics \subseteq diagnostics'
  BY DEF BuildCatalog, inputs, Steps
<1>2. ParsedOK'
  <2>1. ParsedOK
    BY <1>1 DEF CatalogInv
  <2>2. ~HasErrors' => ~HasErrors
    BY <1>1 DEF HasErrors
  <2>3. Allowed' = Allowed
    BY <1>1 DEF Allowed
  <2>. QED
    BY <1>1, <2>1, <2>2, <2>3 DEF ParsedOK
<1>3. BuiltOK'
  <2>1. catalog' = [o \in Published |-> Object(o)] /\ BuildErrors(catalog') \subseteq diagnostics'
    BY DEF BuildCatalog
  <2>2. Published' = Published
    BY <1>1 DEF Published
  <2>3. \A o \in Published : Object(o)' = Object(o)
    BY <1>1 DEF Object, Identity, TypeName, Fields, Field, Relation, Declared, Usable, Published, Pagination
  <2>4. BuildErrors(catalog)' = BuildErrors(catalog')
    BY <1>1 DEF BuildErrors, Published, Identity, Declared, Usable
  <2>. QED
    BY <2>1, <2>2, <2>3, <2>4 DEF BuiltOK
<1>. QED
  BY <1>1, <1>2, <1>3 DEF CatalogInv

LEMMA BuildSchemaInv ==
  ASSUME CatalogInv, BuildSchema \/ FactoryRejects \/ UNCHANGED catalogVars
  PROVE  CatalogInv'
<1>1. UNCHANGED <<database, document, physical, metadata, catalog, diagnostics>>
  BY DEF BuildSchema, FactoryRejects, catalogVars, inputs, outputs
<1>2. /\ step' \in Steps
      /\ \/ step' = "failed"
         \/ step' = step
         \/ step = "schema" /\ step' = "ready" /\ SchemaBuilds
  BY DEF BuildSchema, FactoryRejects, catalogVars, Steps, CatalogInv
<1>3. (ParsedOK <=> ParsedOK') /\ (BuiltOK <=> BuiltOK') /\ (SchemaBuilds <=> SchemaBuilds')
  <2>1. (ParsedOK <=> ParsedOK')
    BY <1>1 DEF ParsedOK, Allowed, HasErrors
  <2>2. (BuiltOK <=> BuiltOK')
    BY <1>1 DEF BuiltOK, BuildErrors, Published, Object, Identity, TypeName, Fields, Field, Relation,
                Declared, Usable, Pagination, Shared
  <2>3. (SchemaBuilds <=> SchemaBuilds')
    BY <1>1 DEF SchemaBuilds, QueryScope, TypeScope, ObjectScope, OrderScope, FilterScope, KeyScope,
                Public, Sortable, Filterable, KeyFields, Related
  <2>. QED
    BY <2>1, <2>2, <2>3
<1>. QED
  BY <1>1, <1>2, <1>3 DEF CatalogInv

(* What is read of an entry as it stands.                                  *)
LEMMA EntryRead ==
  ASSUME NEW e
  PROVE  /\ ParsedEntry(e).name = Optional(e.name, Absent)
         /\ ParsedEntry(e).limit = Optional(e.limit, Absent)
<1>. DEFINE columns == Optional(e.fields, << >>)
            read == {c \in DOMAIN columns : columns[c] # Malformed}
            name == Optional(e.name, Absent)
            key == Optional(e.key, << >>)
            fields == [c \in read |-> ParsedField(columns[c])]
            relations == Optional(e.relations, {}) \ {Malformed}
            limit == Optional(e.limit, Absent)
<1>1. ParsedEntry(e) =
        [name |-> name, key |-> key, fields |-> fields, relations |-> relations, limit |-> limit]
  BY DEF ParsedEntry
<1>. HIDE DEF name, key, fields, relations, limit
<1>2. ParsedEntry(e).name = name /\ ParsedEntry(e).limit = limit
  BY <1>1
<1>. QED
  BY <1>2 DEF name, limit

(* Type names are names, so that no object is without one.                 *)
LEMMA TypeNamed ==
  ASSUME CatalogAssumption, CatalogInv, ParsedOK, NEW o \in Published
  PROVE  TypeName(o) \in Name
<1>1. o \in Allowed /\ o \in DOMAIN physical
  BY DEF Published, ParsedOK
<1>2. metadata.objects[o].name = Optional(document.objects[o].name, Absent)
  BY <1>1, EntryRead DEF ParsedOK
<1>3. document.objects[o].name \in Name \cup {Absent, Malformed}
  <2>1. document \in Documents /\ document # Malformed
    BY DEF CatalogInv, ParsedOK
  <2>2. o \in DOMAIN document.objects /\ document.objects[o] # Malformed
    BY <1>1 DEF Allowed
  <2>. QED
    BY <2>1, <2>2 DEF CatalogAssumption
<1>4. Pascal(NameOf[o]) \in Name
  BY <1>1 DEF CatalogInv, Name, Pascal, Named
<1>. QED
  BY <1>2, <1>3, <1>4 DEF TypeName, Optional

LEMMA LimitFits ==
  ASSUME CatalogAssumption, CatalogInv, ParsedOK, ~HasErrors, NEW o \in Published
  PROVE  Pagination(o).default <= Pagination(o).max
<1>. DEFINE own == metadata.objects[o].limit
            common == metadata.limit
            standard == [default |-> 50, max |-> 200]
            Fits(limit) == limit.default <= limit.max
<1>1. o \in Allowed
  BY DEF Published, ParsedOK
<1>2. own = Optional(document.objects[o].limit, Absent) /\ common = Optional(document.limit, Absent)
  BY <1>1, EntryRead DEF ParsedOK
<1>3. /\ document.objects[o].limit \in Limit \cup {Absent, Malformed}
      /\ document.limit \in Limit \cup {Absent, Malformed}
  <2>1. document \in Documents /\ document # Malformed
    BY DEF CatalogInv, ParsedOK
  <2>2. o \in DOMAIN document.objects /\ document.objects[o] # Malformed
    BY <1>1 DEF Allowed
  <2>. QED
    BY <2>1, <2>2 DEF CatalogAssumption
<1>4. own # Absent => Fits(own)
  BY <1>1, <1>2, <1>3 DEF ParsedOK, LimitWrong, Optional, Limit
<1>5. common # Absent => Fits(common)
  BY <1>2, <1>3 DEF ParsedOK, LimitWrong, Optional, Limit
<1>6. Fits(standard)
  OBVIOUS
<1>7. \/ Pagination(o) = own /\ own # Absent
      \/ Pagination(o) = common /\ common # Absent
      \/ Pagination(o) = standard
  BY DEF Pagination, FirstOf
<1>. HIDE DEF own, common, standard
<1>. QED
  BY <1>4, <1>5, <1>6, <1>7

(* A fact the builder would have reported does not hold.                   *)
LEMMA NothingReported ==
  ASSUME BuiltOK, ~HasErrors
  PROVE  /\ \A o \in Published \cap View : Identity(o) # << >>
         /\ \A o \in Published : \A r \in Declared(o) : Usable(o, r)
         /\ \A o \in Published : ~Repeated(catalog[o].fields) /\ ~Shared(catalog, o)
<1>1. ASSUME NEW code, NEW o PROVE Error(code, o) \notin BuildErrors(catalog)
  BY DEF BuiltOK, HasErrors, Error, Finding
<1>2. ASSUME NEW o \in Published \cap View PROVE Identity(o) # << >>
  <2>1. Identity(o) = << >> => Error("view_missing_identity", o) \in BuildErrors(catalog)
    BY DEF BuildErrors
  <2>. QED
    BY <1>1, <2>1
<1>3. ASSUME NEW o \in Published, NEW r \in Declared(o) PROVE Usable(o, r)
  <2>1. ~Usable(o, r) => Error("relation_target_unknown", o) \in BuildErrors(catalog)
    BY DEF BuildErrors
  <2>. QED
    BY <1>1, <2>1
<1>4. ASSUME NEW o \in Published PROVE ~Repeated(catalog[o].fields) /\ ~Shared(catalog, o)
  <2>1. Repeated(catalog[o].fields) \/ Shared(catalog, o) =>
          Error("duplicate_public_name", o) \in BuildErrors(catalog)
    BY DEF BuildErrors
  <2>. QED
    BY <1>1, <2>1
<1>. QED
  BY <1>2, <1>3, <1>4

LEMMA HiddenIsUnused ==
  ASSUME NEW o, NEW c, Field(o, c).hidden
  PROVE  ~Field(o, c).filterable /\ ~Field(o, c).sortable
<1>. DEFINE annotated == metadata.objects[o].fields
            flags == IF c \in DOMAIN annotated THEN annotated[c].flags ELSE {}
            scalar == Scalar[physical[o].columns[c].type]
            usable == "hidden" \notin flags /\ scalar # "Json"
            name == IF c \in DOMAIN annotated /\ annotated[c].name # Absent
                      THEN annotated[c].name ELSE Camel(NameOf[c])
            nullable == physical[o].columns[c].nullable
            hidden == "hidden" \in flags
            filterable == usable /\ "noFilter" \notin flags
            sortable == usable /\ "noSort" \notin flags
<1>1. Field(o, c) = [column |-> c, name |-> name, type |-> scalar, nullable |-> nullable,
                     hidden |-> hidden, filterable |-> filterable, sortable |-> sortable]
  BY DEF Field
<1>2. hidden => ~filterable /\ ~sortable
  OBVIOUS
<1>. HIDE DEF name, scalar, nullable, hidden, filterable, sortable
<1>3. /\ Field(o, c).hidden = hidden
      /\ Field(o, c).filterable = filterable
      /\ Field(o, c).sortable = sortable
  BY <1>1
<1>. QED
  BY <1>2, <1>3

LEMMA SoundWhenBuilt ==
  ASSUME CatalogAssumption, CatalogInv
  PROVE  CatalogIsSound
<1>. SUFFICES ASSUME step \in {"schema", "ready"}, ~HasErrors
              PROVE  /\ \A o \in DOMAIN catalog : document.objects[o].publish
                     /\ \A o \in DOMAIN catalog :
                          /\ catalog[o].item = Absent <=> catalog[o].identity = << >>
                          /\ o \in View => catalog[o].identity # << >>
                          /\ catalog[o].relations = Related(o)
                          /\ catalog[o].limit.default <= catalog[o].limit.max
                          /\ \A f, g \in catalog[o].fields : f.name = g.name => f = g
                          /\ \A f \in catalog[o].fields : f.hidden => ~f.filterable /\ ~f.sortable
                     /\ \A o, p \in DOMAIN catalog : o # p =>
                          /\ catalog[o].type # catalog[p].type
                          /\ catalog[o].collection # catalog[p].collection
  BY DEF CatalogIsSound
<1>1. ParsedOK /\ BuiltOK
  BY DEF CatalogInv
<1>2. DOMAIN catalog = Published /\ \A o \in Published : catalog[o] = Object(o)
  BY <1>1 DEF BuiltOK
<1>3. \A o \in Published :
        /\ catalog[o].type = TypeName(o)
        /\ catalog[o].item = (IF Identity(o) = << >> THEN Absent ELSE ItemField(TypeName(o)))
        /\ catalog[o].collection = CollectionField(TypeName(o))
        /\ catalog[o].identity = Identity(o)
        /\ catalog[o].fields = Fields(o)
        /\ catalog[o].relations = {Relation(o, r) : r \in {d \in Declared(o) : Usable(o, d)}}
        /\ catalog[o].limit = Pagination(o)
  BY <1>2 DEF Object
<1>4. \A o \in Published : document.objects[o].publish
  BY <1>1 DEF ParsedOK, Published, Allowed
<1>5. ASSUME NEW o \in Published PROVE catalog[o].item = Absent <=> catalog[o].identity = << >>
  <2>. DEFINE type == TypeName(o)
  <2>1. type \in Name
    BY <1>1, TypeNamed
  <2>. HIDE DEF type
  <2>m. ItemField(type) \in Name
    BY <2>1 DEF ItemField, Camel, Named, Name
  <2>2. ItemField(TypeName(o)) # Absent
    BY <2>m DEF CatalogAssumption, type
  <2>. QED
    BY <1>3, <2>2
<1>6. \A o \in Published \cap View : catalog[o].identity # << >>
  BY <1>1, <1>3, NothingReported
<1>7. ASSUME NEW o \in Published PROVE catalog[o].relations = Related(o)
  <2>1. ASSUME NEW r \in catalog[o].relations PROVE r.target \in Published
    BY <1>3, <2>1 DEF Usable, Relation
  <2>. QED
    BY <1>2, <2>1 DEF Related
<1>8. \A o \in Published : catalog[o].limit.default <= catalog[o].limit.max
  BY <1>1, <1>3, LimitFits
<1>9. \A o \in Published : \A f, g \in catalog[o].fields : f.name = g.name => f = g
  BY <1>1, NothingReported DEF Repeated
<1>10. ASSUME NEW o \in Published, NEW f \in catalog[o].fields, f.hidden
       PROVE  ~f.filterable /\ ~f.sortable
  <2>1. PICK c \in DOMAIN physical[o].columns : f = Field(o, c)
    BY <1>3 DEF Fields
  <2>. QED
    BY <1>10, <2>1, HiddenIsUnused
<1>11. ASSUME NEW o \in Published, NEW p \in Published, o # p
       PROVE  catalog[o].type # catalog[p].type /\ catalog[o].collection # catalog[p].collection
  <2>1. ~Shared(catalog, o) /\ p \in DOMAIN catalog \ {o}
    BY <1>1, <1>2, <1>11, NothingReported
  <2>. QED
    BY <2>1 DEF Shared
<1>. QED
  BY <1>2, <1>4, <1>5, <1>6, <1>7, <1>8, <1>9, <1>10, <1>11

(* Names that tell the types of the schema apart ...                       *)
LEMMA TypesApart ==
  ASSUME SchemaBuilds
  PROVE  /\ \A o \in DOMAIN catalog : QueryRoot # catalog[o].type
         /\ \A o \in DOMAIN catalog : QueryRoot # Suffixed(catalog[o].type, "list")
         /\ \A o, p \in DOMAIN catalog :
              /\ Suffixed(catalog[o].type, "list") # catalog[p].type
              /\ catalog[o].type = catalog[p].type => o = p
              /\ Suffixed(catalog[o].type, "list") = Suffixed(catalog[p].type, "list") => o = p
<1>. DEFINE Suffixes == {"list", "filter input", "order input", "order field"}
            Derived(o, s) == Owned(<<o, s>>, Suffixed(catalog[o].type, s))
            Envelopes == {Derived(o, s) : o \in DOMAIN catalog, s \in Suffixes}
            Types == {Owned(<<o, "">>, catalog[o].type) : o \in DOMAIN catalog}
            Roots == {Owned(<<"root">>, QueryRoot)}
            Rest == {Owned(<<o, "key">>, Suffixed(catalog[o].type, "key input")) :
                       o \in {o \in DOMAIN catalog : catalog[o].item # Absent}}
<1>1. \A a, b \in TypeScope : a.name = b.name => a = b
  BY DEF SchemaBuilds, Unambiguous
<1>2. TypeScope = Roots \cup Types \cup Envelopes \cup Rest
  BY DEF TypeScope
<1>3. /\ Owned(<<"root">>, QueryRoot) \in Roots
      /\ \A o \in DOMAIN catalog : Owned(<<o, "">>, catalog[o].type) \in Types
  OBVIOUS
<1>4. ASSUME NEW o \in DOMAIN catalog
      PROVE  Owned(<<o, "list">>, Suffixed(catalog[o].type, "list")) \in Envelopes
  <2>1. "list" \in Suffixes
    OBVIOUS
  <2>. HIDE DEF Suffixes, Derived
  <2>2. Derived(o, "list") \in Envelopes
    BY <2>1
  <2>. QED
    BY <2>2 DEF Derived
<1>. HIDE DEF Envelopes, Types, Roots, Rest
<1>5. /\ Owned(<<"root">>, QueryRoot) \in TypeScope
      /\ \A o \in DOMAIN catalog :
           /\ Owned(<<o, "">>, catalog[o].type) \in TypeScope
           /\ Owned(<<o, "list">>, Suffixed(catalog[o].type, "list")) \in TypeScope
  BY <1>2, <1>3, <1>4
<1>6. ASSUME NEW x, NEW y, NEW n, Owned(x, n) \in TypeScope, Owned(y, n) \in TypeScope
      PROVE  x = y
  <2>1. Owned(x, n).name = n /\ Owned(y, n).name = n /\ Owned(x, n).owner = x /\ Owned(y, n).owner = y
    BY DEF Owned
  <2>2. Owned(x, n) = Owned(y, n)
    BY <1>1, <1>6, <2>1
  <2>. QED
    BY <2>1, <2>2
<1>7. ASSUME NEW o \in DOMAIN catalog PROVE QueryRoot # catalog[o].type
  <2>1. QueryRoot = catalog[o].type => <<"root">> = <<o, "">>
    BY <1>5, <1>6
  <2>. QED
    BY <2>1
<1>8. ASSUME NEW o \in DOMAIN catalog PROVE QueryRoot # Suffixed(catalog[o].type, "list")
  <2>1. QueryRoot = Suffixed(catalog[o].type, "list") => <<"root">> = <<o, "list">>
    BY <1>5, <1>6
  <2>. QED
    BY <2>1
<1>9. ASSUME NEW o \in DOMAIN catalog, NEW p \in DOMAIN catalog
      PROVE  /\ Suffixed(catalog[o].type, "list") # catalog[p].type
             /\ catalog[o].type = catalog[p].type => o = p
             /\ Suffixed(catalog[o].type, "list") = Suffixed(catalog[p].type, "list") => o = p
  <2>1. Suffixed(catalog[o].type, "list") = catalog[p].type => <<o, "list">> = <<p, "">>
    BY <1>5, <1>6
  <2>2. catalog[o].type = catalog[p].type => <<o, "">> = <<p, "">>
    BY <1>5, <1>6
  <2>3. Suffixed(catalog[o].type, "list") = Suffixed(catalog[p].type, "list") => <<o, "list">> = <<p, "list">>
    BY <1>5, <1>6
  <2>4. <<o, "list">> # <<p, "">> /\ (<<o, "">> = <<p, "">> => o = p) /\ (<<o, "list">> = <<p, "list">> => o = p)
    OBVIOUS
  <2>. QED
    BY <2>1, <2>2, <2>3, <2>4
<1>. QED
  BY <1>7, <1>8, <1>9

(* ... and within a type its members, tell the resolvers apart.            *)
LEMMA ResolversApart ==
  ASSUME SchemaBuilds
  PROVE  Unambiguous(Resolvers)
<1>. DEFINE Lists == DOMAIN catalog
            TotalCount == Named(<<"total", "count">>, "camel")
            Root(q) == Owned(q.owner, <<QueryRoot, q.name>>)
            Total(o) == Owned(<<o, "total">>, <<Suffixed(catalog[o].type, "list"), TotalCount>>)
            Member(o, m) == Owned(<<o, m.owner>>, <<catalog[o].type, m.name>>)
<1>1. \A a \in Resolvers :
        \/ \E q \in QueryScope : a = Root(q)
        \/ \E o \in Lists : a = Total(o)
        \/ \E o \in Lists : \E m \in ObjectScope(o) : a = Member(o, m)
  BY DEF Resolvers
<1>2. /\ \A q : Root(q).owner = q.owner /\ Root(q).name = <<QueryRoot, q.name>>
      /\ \A o : /\ Total(o).owner = <<o, "total">>
               /\ Total(o).name = <<Suffixed(catalog[o].type, "list"), TotalCount>>
      /\ \A o, m : Member(o, m).owner = <<o, m.owner>> /\ Member(o, m).name = <<catalog[o].type, m.name>>
  BY DEF Owned
<1>3. /\ \A q, r \in QueryScope : q.name = r.name => q = r
      /\ \A o \in Lists : \A m, n \in ObjectScope(o) : m.name = n.name => m = n
  BY DEF SchemaBuilds, WellFormed, Unambiguous
<1>4. \A s, t, x, y : <<s, x>> = <<t, y>> => s = t /\ x = y
  OBVIOUS
<1>. HIDE DEF Root, Total, Member, TotalCount
<1>. SUFFICES ASSUME NEW a \in Resolvers, NEW b \in Resolvers, a.name = b.name
              PROVE  a = b
  BY DEF Unambiguous
<1>5. CASE \E q \in QueryScope : a = Root(q)
  <2>1. PICK q \in QueryScope : a = Root(q)
    BY <1>5
  <2>2. ~\E o \in Lists : b = Total(o)
    BY <1>2, <1>4, <2>1, TypesApart
  <2>3. ~\E o \in Lists : \E m \in ObjectScope(o) : b = Member(o, m)
    BY <1>2, <1>4, <2>1, TypesApart
  <2>4. PICK r \in QueryScope : b = Root(r)
    BY <1>1, <2>2, <2>3
  <2>5. q.name = r.name
    BY <1>2, <1>4, <2>1, <2>4
  <2>. QED
    BY <1>3, <2>1, <2>4, <2>5
<1>6. CASE \E o \in Lists : a = Total(o)
  <2>1. PICK o \in Lists : a = Total(o)
    BY <1>6
  <2>2. ~\E q \in QueryScope : b = Root(q)
    BY <1>2, <1>4, <2>1, TypesApart
  <2>3. ~\E p \in Lists : \E m \in ObjectScope(p) : b = Member(p, m)
    BY <1>2, <1>4, <2>1, TypesApart
  <2>4. PICK p \in Lists : b = Total(p)
    BY <1>1, <2>2, <2>3
  <2>5. o = p
    BY <1>2, <1>4, <2>1, <2>4, TypesApart
  <2>. QED
    BY <2>1, <2>4, <2>5
<1>7. CASE \E o \in Lists : \E m \in ObjectScope(o) : a = Member(o, m)
  <2>1. PICK o \in Lists : \E m \in ObjectScope(o) : a = Member(o, m)
    BY <1>7
  <2>2. PICK m \in ObjectScope(o) : a = Member(o, m)
    BY <2>1
  <2>3. ~\E q \in QueryScope : b = Root(q)
    BY <1>2, <1>4, <2>2, TypesApart
  <2>4. ~\E p \in Lists : b = Total(p)
    BY <1>2, <1>4, <2>2, TypesApart
  <2>5. PICK p \in Lists : \E n \in ObjectScope(p) : b = Member(p, n)
    BY <1>1, <2>3, <2>4
  <2>6. PICK n \in ObjectScope(p) : b = Member(p, n)
    BY <2>5
  <2>7. o = p /\ m.name = n.name
    BY <1>2, <1>4, <2>2, <2>6, TypesApart
  <2>. QED
    BY <1>3, <2>2, <2>6, <2>7
<1>. QED
  BY <1>1, <1>5, <1>6, <1>7

LEMMA CatalogNextInv ==
  ASSUME CatalogAssumption, CatalogInv, [CatalogNext]_catalogVars
  PROVE  CatalogInv'
BY IntrospectionStep, ParseDocumentInv, BuildCatalogInv, BuildSchemaInv DEF CatalogNext

(* Whatever the engine holds, the sidecar says and the schema changes that *)
(* fall between the queries: a catalog without errors keeps what the       *)
(* builder promises of it (GraphqlCatalogBuilder.build).                   *)
THEOREM CatalogKeepsPromises == CatalogSpec => []CatalogIsSound
<1>1. CatalogInit => CatalogInv
  BY CatalogStart
<1>2. CatalogInv /\ [CatalogNext]_catalogVars => CatalogInv'
  BY CatalogAssumption, CatalogNextInv
<1>3. CatalogInv => CatalogIsSound
  BY CatalogAssumption, SoundWhenBuilt
<1>. QED
  BY <1>1, <1>2, <1>3, PTL DEF CatalogSpec

(* In a schema that build_schema accepted no resolver replaces another,    *)
(* with errors in the catalog or without (resolver registry of             *)
(* GraphqlRuntimePlugin).                                                  *)
THEOREM ResolversAreKeptApart == CatalogSpec => []ResolversAreUnambiguous
<1>1. CatalogInit => CatalogInv
  BY CatalogStart
<1>2. CatalogInv /\ [CatalogNext]_catalogVars => CatalogInv'
  BY CatalogAssumption, CatalogNextInv
<1>3. CatalogInv => ResolversAreUnambiguous
  BY ResolversApart DEF CatalogInv, ResolversAreUnambiguous
<1>. QED
  BY <1>1, <1>2, <1>3, PTL DEF CatalogSpec
==============================================================================
