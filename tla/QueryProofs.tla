----------------------------- MODULE QueryProofs -----------------------------
(***************************************************************************)
(* Proofs about Query, for any files, clients, settings and bounds.  They  *)
(* use of the pipeline only what FileLifecycle promises, which Ingestion   *)
(* has been proved to implement (ImplementsLifecycle of IngestionProofs).  *)
(***************************************************************************)
EXTENDS Query, FiniteSetTheorems, TLAPS

Statuses == {"UNREGISTERED", "PENDING", "PROCESSING", "LOADED", "FAILED"}
Answers == {"none", "no documents", "fallback", "generated"}
ChunkIds == Files \X (1 .. MaxStored)
RequestType ==
  [at : Ats, loaded : SUBSET Files, server : {"none", "local", "prod"},
   sources : SUBSET (ChunkIds \cup {Elsewhere}), answer : Answers]

ProcessOK ==
  /\ dotenv \in DotEnvs /\ restarts \in 0 .. MaxRestarts
  /\ loop \in Clients \cup {Free}
  /\ \A q \in Clients : loop = q <=> request[q].at = "retrieving"

\* Only a file that was picked up has chunks, and a LOADED one has some.
PipelineOK ==
  /\ status \in [Files -> Statuses]
  /\ stored \in [Files -> 0 .. MaxStored]
  /\ \A f \in Files : /\ stored[f] > 0 => Pipeline!Begun(f)
                      /\ status[f] = "LOADED" => stored[f] > 0

\* A request that was not begun is blank, and one that was begun goes on with
\* the settings it began with.  What its client saw LOADED has chunks still,
\* and its sources are chunks that are there.
RequestOK(r) ==
  /\ r \in RequestType
  /\ Cardinality(r.sources) <= MaxResults
  /\ \A f \in r.loaded : stored[f] > 0
  /\ r.at = "received" => r.answer = "none" /\ r.sources = {}
  /\ r.at = "retrieving" => r.server = Server
  /\ r.server = PipelineServer => r.sources \subseteq Chunks
  /\ r.answer = "no documents" /\ r.server = PipelineServer => r.loaded = {}

IInv ==
  /\ ProcessOK /\ PipelineOK
  /\ request = [q \in Clients |-> request[q]]
  /\ \A q \in Clients : RequestOK(request[q])

\* NoRequest, and what Ask and the failures make of it.
Blank == [at : {"none", "received", "error", "dropped"}, loaded : SUBSET Files,
          server : {"none"}, sources : {{}}, answer : {"none"}]

LEMMA BlankOK ==
  ASSUME NEW r \in Blank, \A f \in r.loaded : stored[f] > 0
  PROVE  RequestOK(r)
<1>1. r \in RequestType
  BY DEF Blank, RequestType, Ats, Answers
<1>2. Cardinality({}) = 0 /\ 0 <= MaxResults
  BY QueryAssumption, FS_EmptySet
<1>. QED
  BY <1>1, <1>2, QueryAssumption DEF RequestOK, Blank

\* Settings and chunks that stay do not disturb a request.
LEMMA RequestStays ==
  ASSUME NEW r, RequestOK(r), UNCHANGED dotenv,
         stored \in [Files -> 0 .. MaxStored], stored' \in [Files -> 0 .. MaxStored],
         \A f \in Files : stored'[f] >= stored[f]
  PROVE  RequestOK(r)'
<1>1. Chunks \subseteq Chunks'
  <2>1. ASSUME NEW c \in Chunks PROVE c \in Chunks'
    <3>1. /\ c \in Files \X (1 .. MaxStored) /\ c[1] \in Files
          /\ c[2] \in Int /\ c[2] <= stored[c[1]]
      BY QueryAssumption DEF Chunks
    <3>2. stored'[c[1]] >= stored[c[1]] /\ stored[c[1]] \in Int /\ stored'[c[1]] \in Int
      BY <3>1, QueryAssumption
    <3>. QED
      BY <3>1, <3>2 DEF Chunks
  <2>. QED
    BY <2>1
<1>2. Server' = Server
  BY DEF Server
<1>3. ASSUME NEW f \in r.loaded PROVE stored'[f] > 0
  <2>1. f \in Files /\ stored[f] > 0
    BY DEF RequestOK, RequestType
  <2>2. stored[f] \in Int /\ stored'[f] \in Int /\ stored'[f] >= stored[f]
    BY <2>1, QueryAssumption
  <2>. QED
    BY <2>1, <2>2
<1>. QED
  BY <1>1, <1>2, <1>3 DEF RequestOK

\* A step of one client alone.
LEMMA ClientStep ==
  ASSUME IInv, NEW q \in Clients, NEW r, RequestOK(r), Becomes(q, r),
         UNCHANGED <<pipeline, process>>,
         \/ UNCHANGED loop /\ r.at # "retrieving" /\ request[q].at # "retrieving"
         \/ loop = Free /\ loop' = q /\ r.at = "retrieving"
         \/ request[q].at = "retrieving" /\ loop' = Free /\ r.at # "retrieving"
  PROVE  IInv'
<1>1. /\ request' = [p \in Clients |-> request'[p]]
      /\ request'[q] = r
      /\ \A p \in Clients \ {q} : request'[p] = request[p]
  BY DEF IInv, Becomes
<1>2. PipelineOK'
  BY DEF IInv, PipelineOK, Pipeline!Begun, pipeline
<1>3. ProcessOK'
  BY <1>1, FreeAssumption DEF IInv, ProcessOK, process
<1>4. \A p \in Clients : RequestOK(request'[p])
  BY <1>1 DEF IInv
<1>5. ASSUME NEW p \in Clients PROVE RequestOK(request[p])'
  <2>. DEFINE s == request'[p]
  <2>1. RequestOK(s)
    BY <1>4
  <2>2. Server' = Server /\ Chunks' = Chunks /\ stored' = stored
    BY DEF Server, Chunks, process, pipeline
  <2>. QED
    BY <2>1, <2>2 DEF RequestOK
<1>. QED
  BY <1>1, <1>2, <1>3, <1>5 DEF IInv

LEMMA InitIInv == Init => IInv
<1>. SUFFICES ASSUME Init PROVE IInv
  OBVIOUS
<1>1. ProcessOK
  BY QueryAssumption, FreeAssumption DEF Init, ProcessOK, NoRequest
<1>2. PipelineOK
  BY QueryAssumption DEF Init, Pipeline!Init, PipelineOK, Statuses
<1>3. RequestOK(NoRequest)
  BY BlankOK DEF NoRequest, Blank
<1>. QED
  BY <1>1, <1>2, <1>3 DEF IInv, Init

\* A search finds chunks of the collection, no more than it was asked for, and
\* nothing only if there is nothing.
LEMMA NearestFinds ==
  ASSUME NEW n \in 1 .. MaxResults, NEW found \in Nearest(n)
  PROVE  /\ found \subseteq Chunks
         /\ Cardinality(found) <= MaxResults
         /\ found = {} => Chunks = {}
<1>1. IsFiniteSet(1 .. MaxStored)
  BY QueryAssumption, FS_Interval
<1>2. IsFiniteSet(ChunkIds)
  BY <1>1, QueryAssumption, FS_Product DEF ChunkIds
<1>3. Chunks \subseteq ChunkIds
  BY DEF Chunks, ChunkIds
<1>4. IsFiniteSet(Chunks) /\ Cardinality(Chunks) \in Nat
  BY <1>2, <1>3, FS_Subset, FS_CardinalityType
<1>5. found \subseteq Chunks
      /\ Cardinality(found) = IF n < Cardinality(Chunks) THEN n ELSE Cardinality(Chunks)
  BY DEF Nearest
<1>6. found = {} => Cardinality(found) = 0
  BY FS_EmptySet
<1>7. Cardinality(Chunks) = 0 => Chunks = {}
  BY <1>4, FS_EmptySet
<1>. QED
  BY <1>4, <1>5, <1>6, <1>7, QueryAssumption

\* The pipeline takes no chunk away and forgets no file it has begun.
LEMMA IngestStep ==
  ASSUME PipelineOK, Ingest
  PROVE  PipelineOK' /\ \A f \in Files : stored'[f] >= stored[f]
<1>. USE QueryAssumption DEF PipelineOK, Statuses, Pipeline!Begun
<1>1. ASSUME NEW f \in Files, Pipeline!Register(f) \/ Pipeline!Begin(f) \/ Pipeline!Fail(f)
      PROVE  PipelineOK' /\ \A g \in Files : stored'[g] >= stored[g]
  BY <1>1 DEF Pipeline!Register, Pipeline!Begin, Pipeline!Fail
<1>2. ASSUME NEW s \in [Files -> 0 .. MaxStored], stored' = s, Pipeline!Store
      PROVE  PipelineOK' /\ \A g \in Files : stored'[g] >= stored[g]
  BY <1>2 DEF Pipeline!Store
<1>3. ASSUME NEW f \in Files, NEW n \in 1 .. MaxStored,
             chunkCount' = [chunkCount EXCEPT ![f] = n], Pipeline!Load(f)
      PROVE  PipelineOK' /\ \A g \in Files : stored'[g] >= stored[g]
  BY <1>3 DEF Pipeline!Load
<1>. QED
  BY <1>1, <1>2, <1>3 DEF Ingest

LEMMA StepIInv == IInv /\ [Next]_vars => IInv'
<1>. SUFFICES ASSUME IInv, [Next]_vars PROVE IInv'
  OBVIOUS
<1>. USE DEF IInv
<1>1. CASE Ingest
  <2>1. PipelineOK' /\ (\A f \in Files : stored'[f] >= stored[f])
        /\ UNCHANGED <<process, loop, request>>
    BY <1>1, IngestStep DEF Ingest
  <2>2. ProcessOK'
    BY <2>1 DEF ProcessOK, process
  <2>3. ASSUME NEW q \in Clients PROVE RequestOK(request[q])'
    <3>. DEFINE r == request[q]
    <3>1. RequestOK(r)
      OBVIOUS
    <3>2. r' = r /\ UNCHANGED dotenv
      BY <2>1 DEF process
    <3>3. stored \in [Files -> 0 .. MaxStored] /\ stored' \in [Files -> 0 .. MaxStored]
      BY <2>1 DEF PipelineOK
    <3>. QED
      BY <2>1, <3>1, <3>2, <3>3, RequestStays
  <2>. QED
    BY <2>1, <2>2, <2>3
<1>2. CASE StartAPI
  <2>1. /\ request' = [q \in Clients |-> request'[q]]
        /\ \A q \in Clients : request'[q] = IF InProcess(q) THEN [NoRequest EXCEPT !.at = "dropped"]
                                                            ELSE request[q]
    BY <1>2 DEF StartAPI
  <2>2. PipelineOK'
    BY <1>2 DEF StartAPI, pipeline, PipelineOK, Pipeline!Begun
  <2>3. ProcessOK'
    BY <1>2, <2>1, QueryAssumption, FreeAssumption DEF StartAPI, ProcessOK, InProcess, NoRequest
  <2>4. ASSUME NEW q \in Clients PROVE RequestOK(request[q])'
    <3>1. CASE InProcess(q)
      <4>. DEFINE r == [NoRequest EXCEPT !.at = "dropped"]
      <4>1. r \in Blank /\ r.loaded = {} /\ r.at = "dropped"
        BY DEF NoRequest, Blank
      <4>2. RequestOK(r) /\ request'[q] = r
        BY <2>1, <3>1, <4>1, BlankOK
      <4>. QED
        BY <1>2, <4>1, <4>2 DEF RequestOK, StartAPI, pipeline, Chunks
    <3>2. CASE ~InProcess(q)
      <4>1. RequestOK(request[q]) /\ request'[q] = request[q]
        BY <2>1, <3>2
      <4>. QED
        BY <1>2, <3>2, <4>1 DEF RequestOK, StartAPI, pipeline, Chunks, InProcess
    <3>. QED
      BY <3>1, <3>2
  <2>. QED
    BY <2>1, <2>2, <2>3, <2>4
<1>3. ASSUME NEW q \in Clients, Ask(q) PROVE IInv'
  <2>. DEFINE r == [NoRequest EXCEPT !.at = "received", !.loaded = Loaded]
  <2>1. RequestOK(r) /\ r.at = "received"
    <3>1. Loaded \subseteq Files /\ \A f \in Loaded : stored[f] > 0
      BY DEF PipelineOK, Loaded
    <3>2. r \in Blank /\ r.loaded = Loaded /\ r.at = "received"
      BY <3>1 DEF NoRequest, Blank
    <3>. QED
      BY <3>1, <3>2, BlankOK
  <2>2. Becomes(q, r) /\ UNCHANGED <<pipeline, process, loop>> /\ request[q].at # "retrieving"
    BY <1>3 DEF Ask
  <2>. HIDE DEF r
  <2>. QED
    BY <2>1, <2>2, ClientStep
<1>4. ASSUME NEW q \in Clients, ServiceRaises(q) \/ ChromaFails(q) PROVE IInv'
  <2>. DEFINE r == [NoRequest EXCEPT !.at = "error"]
  <2>1. RequestOK(r) /\ r.at = "error"
    <3>1. r \in Blank /\ r.loaded = {} /\ r.at = "error"
      BY DEF NoRequest, Blank
    <3>. QED
      BY <3>1, BlankOK
  <2>2. /\ Becomes(q, r) /\ UNCHANGED <<pipeline, process>>
        /\ \/ UNCHANGED loop /\ request[q].at # "retrieving"
           \/ request[q].at = "retrieving" /\ loop' = Free
    BY <1>4 DEF ServiceRaises, ChromaFails
  <2>. HIDE DEF r
  <2>. QED
    BY <2>1, <2>2, ClientStep
<1>5. ASSUME NEW q \in Clients, Query(q) PROVE IInv'
  <2>. DEFINE r == [request[q] EXCEPT !.at = "retrieving", !.server = Server]
  <2>1. RequestOK(r) /\ r.at = "retrieving"
    <3>1. /\ request[q].at = "received" /\ RequestOK(request[q])
      BY <1>5 DEF Query
    <3>2. r \in RequestType
      BY <3>1 DEF RequestOK, RequestType, Server, Ats
    <3>3. /\ r.at = "retrieving" /\ r.server = Server
          /\ r.loaded = request[q].loaded /\ r.sources = {} /\ r.answer = "none"
          /\ request[q].sources = {}
      BY <3>1 DEF RequestOK, RequestType
    <3>. QED
      BY <3>1, <3>2, <3>3 DEF RequestOK
  <2>2. Becomes(q, r) /\ UNCHANGED <<pipeline, process>> /\ loop = Free /\ loop' = q
    BY <1>5 DEF Query
  <2>. HIDE DEF r
  <2>. QED
    BY <2>1, <2>2, ClientStep
<1>6. ASSUME NEW q \in Clients, NEW answer \in {"generated", "fallback"}, Generates(q, answer)
      PROVE  IInv'
  <2>. DEFINE r == [request[q] EXCEPT !.at = "answered", !.answer = answer]
  <2>1. RequestOK(r) /\ r.at = "answered"
    <3>1. RequestOK(request[q])
      OBVIOUS
    <3>2. r \in RequestType
      BY <3>1 DEF RequestOK, RequestType, Ats, Answers
    <3>3. /\ r.at = "answered" /\ r.answer = answer /\ r.server = request[q].server
          /\ r.loaded = request[q].loaded /\ r.sources = request[q].sources
      BY <3>1 DEF RequestOK, RequestType
    <3>. QED
      BY <3>1, <3>2, <3>3 DEF RequestOK
  <2>2. /\ Becomes(q, r) /\ UNCHANGED <<pipeline, process, loop>>
        /\ request[q].at # "retrieving"
    BY <1>6 DEF Generates
  <2>. HIDE DEF r
  <2>. QED
    BY <2>1, <2>2, ClientStep
<1>7. ASSUME NEW q \in Clients, ChromaAnswers(q) PROVE IInv'
  <2>1. PICK results \in SUBSET (ChunkIds \cup {Elsewhere}) :
          /\ Retrieved(q, results) /\ Cardinality(results) <= MaxResults
          /\ Server = PipelineServer =>
               results \subseteq Chunks /\ (results = {} => Chunks = {})
    <3>1. CASE Server = PipelineServer
      <4>. PICK n \in 1 .. MaxResults : \E found \in Nearest(n) : Retrieved(q, Results(found))
        BY <1>7, <3>1 DEF ChromaAnswers
      <4>1. PICK found \in Nearest(n) : Retrieved(q, Results(found))
        OBVIOUS
      <4>2. /\ found \subseteq Chunks /\ Cardinality(found) <= MaxResults
            /\ found = {} => Chunks = {}
        BY <4>1, NearestFinds
      <4>3. Results(found) = found
        BY DEF Results
      <4>. QED
        BY <4>1, <4>2, <4>3 DEF Chunks, ChunkIds
    <3>2. CASE Server # PipelineServer
      <4>1. PICK found \in {{}, {Elsewhere}} : Retrieved(q, found)
        BY <1>7, <3>2 DEF ChromaAnswers
      <4>2. Cardinality({}) = 0
        BY FS_EmptySet
      <4>3. Cardinality({Elsewhere}) = 1
        BY FS_Singleton
      <4>4. CASE found = {}
        BY <3>2, <4>1, <4>2, <4>4, QueryAssumption
      <4>5. CASE found = {Elsewhere}
        BY <3>2, <4>1, <4>3, <4>5, QueryAssumption
      <4>. QED
        BY <4>4, <4>5
    <3>. QED
      BY <3>1, <3>2
  <2>. DEFINE got == [request[q] EXCEPT !.sources = results]
  <2>2. PICK r : /\ Becomes(q, r)
                 /\ \/ r = [got EXCEPT !.at = "answered", !.answer = "no documents"] /\ results = {}
                    \/ r = [got EXCEPT !.at = "answered", !.answer = "fallback"]
                    \/ r = [got EXCEPT !.at = "generating"]
    BY <2>1, Zenon DEF Retrieved
  <2>3. /\ RequestOK(request[q]) /\ request[q].at = "retrieving"
        /\ UNCHANGED <<pipeline, process>> /\ loop' = Free
    BY <1>7 DEF ChromaAnswers
  <2>4. /\ r \in RequestType /\ r.at \in {"answered", "generating"}
        /\ r.loaded = request[q].loaded /\ r.server = request[q].server /\ r.sources = results
        /\ r.answer = "no documents" => results = {} \/ request[q].answer = "no documents"
    BY <2>1, <2>2, <2>3 DEF RequestOK, RequestType, Ats, Answers
  <2>5. results = {} /\ Server = PipelineServer => r.loaded = {}
    <3>1. ASSUME NEW f \in r.loaded, Chunks = {} PROVE FALSE
      <4>1. f \in Files /\ stored[f] > 0 /\ stored[f] \in 0 .. MaxStored
        BY <2>3, <2>4, <3>1 DEF RequestOK, RequestType, PipelineOK
      <4>2. <<f, 1>> \in Chunks
        BY <4>1, QueryAssumption DEF Chunks
      <4>. QED
        BY <3>1, <4>2
    <3>. QED
      BY <2>1, <3>1
  <2>6. RequestOK(r)
    BY <2>1, <2>3, <2>4, <2>5 DEF RequestOK
  <2>. QED
    BY <2>2, <2>3, <2>4, <2>6, ClientStep
<1>8. CASE UNCHANGED vars
  <2>1. ProcessOK' /\ PipelineOK'
    BY <1>8 DEF vars, process, pipeline, ProcessOK, PipelineOK, Pipeline!Begun
  <2>2. ASSUME NEW q \in Clients PROVE RequestOK(request[q])'
    <3>1. RequestOK(request[q])
      OBVIOUS
    <3>. QED
      BY <1>8, <3>1 DEF vars, process, pipeline, RequestOK, Server, Chunks
  <2>. QED
    BY <1>8, <2>1, <2>2 DEF vars
<1>. QED
  BY <1>1, <1>2, <1>3, <1>4, <1>5, <1>6, <1>7, <1>8
  DEF Next, Begins, Retrieval, ModelAnswers, ModelFails

\* The inductive invariant holds whatever the pipeline, the clients and ChromaDB do.
THEOREM Invariance == Spec => []IInv
  BY InitIInv, StepIInv, PTL DEF Spec

\* The settings, the event loop and the requests keep their types, and no
\* response has more sources than were asked for (query_documents).
THEOREM TypeCorrect == Spec => []TypeOK
<1>1. IInv => TypeOK
  BY DEF IInv, ProcessOK, RequestOK, RequestType, ChunkIds, Answers, TypeOK
<1>. QED
  BY <1>1, Invariance, PTL

\* Once a file was shown as LOADED, no later query of its ChromaDB answers
\* "No relevant documents found", whatever the pipeline does meanwhile.
THEOREM LoadedIsAlwaysFindable == Spec => []LoadedIsFindable
<1>1. IInv => LoadedIsFindable
  BY DEF IInv, RequestOK, LoadedIsFindable
<1>. QED
  BY <1>1, Invariance, PTL

\* The sources of a response stand while the model is awaited and after it:
\* chunks that are in ChromaDB, of files that have been picked up.
THEOREM SourcesDoStand == Spec => []SourcesStand
<1>1. ASSUME IInv PROVE SourcesStand
  <2>1. ASSUME NEW q \in Clients, request[q].server = PipelineServer,
               NEW c \in request[q].sources
        PROVE  c \in Chunks /\ Pipeline!Begun(c[1])
    <3>1. c \in Chunks
      BY <1>1, <2>1 DEF IInv, RequestOK
    <3>2. c[1] \in Files /\ c[2] \in Int /\ c[2] >= 1 /\ c[2] <= stored[c[1]]
      BY <3>1, QueryAssumption DEF Chunks
    <3>3. stored[c[1]] \in Int /\ stored[c[1]] > 0
      BY <1>1, <3>2, QueryAssumption DEF IInv, PipelineOK
    <3>. QED
      BY <1>1, <3>1, <3>2, <3>3 DEF IInv, PipelineOK
  <2>. QED
    BY <2>1 DEF SourcesStand
<1>. QED
  BY <1>1, Invariance, PTL
==============================================================================
