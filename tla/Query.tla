-------------------------------- MODULE Query --------------------------------
(***************************************************************************)
(* POST /query: a process of the API reads the ChromaDB collection while   *)
(* the ingestion DAG goes on writing it, and then awaits a language model. *)
(* The pipeline is the environment: it does whatever FileLifecycle allows, *)
(* which is what the ingestion DAG has been shown to implement.            *)
(* The handler is a coroutine, but the retrieval is a synchronous call: it *)
(* holds the event loop, and with it every other request of the process.   *)
(***************************************************************************)
EXTENDS Integers, Sequences, FiniteSets

CONSTANTS
  Files,
  Clients,     \* each has one request at a time
  Elsewhere,   \* stands for a chunk of a ChromaDB the pipeline does not write
  AppEnvs,     \* values of APP_ENV, as sets of their parts in lower case
  KeySets,     \* which of the variables of LLMKeys an operator's .env may set
  Compose,     \* whether the API runs in its container of docker-compose.yaml
  PipelineServer, \* the ChromaDB that APP_ENV selects for the Airflow workers
  MaxResults,  \* bound of n_results
  MaxStored,   \* bound: chunks of a file
  MaxRestarts  \* bound: restarts of the API

LLMKeys == {"GROQ_API_KEY", "GEMMA_API_KEY", "GEMMA_BASE_URL", "OPENAI_API_KEY", "LLM_BASE_URL"}

ASSUME QueryAssumption ==
  /\ IsFiniteSet(Files) /\ Elsewhere \notin Files \X Nat
  /\ KeySets \subseteq SUBSET LLMKeys
  /\ Compose \in BOOLEAN
  /\ PipelineServer \in {"local", "prod"}
  /\ MaxResults \in Nat \ {0} /\ MaxStored \in Nat \ {0} /\ MaxRestarts \in Nat

Free == "free"
ASSUME FreeAssumption == Free \notin Clients

VARIABLES
  status, chunkCount, errorMessage, stored, \* of FileLifecycle
  dotenv,    \* the operator's .env when the API was started
  restarts,
  loop,      \* the event loop: the client whose retrieval holds it
  request    \* each client's request, and the response it got

pipeline == <<status, chunkCount, errorMessage, stored>>
process == <<dotenv, restarts>>
vars == <<pipeline, process, loop, request>>

Pipeline == INSTANCE FileLifecycle

------------------------------------------------------------------------------
(* The settings of a process, fixed when it starts.                        *)

\* Only a value that is "prod" and nothing else selects all the services.
IsFullProd(appEnv) == appEnv = {"prod"}
UseProdChroma(appEnv) == IsFullProd(appEnv) \/ "prod_chroma" \in appEnv
UseProdLLM(appEnv) == IsFullProd(appEnv) \/ "prod_llm" \in appEnv

\* The container sees the variables that docker-compose.yaml names for it: its
\* image holds no .env.
PassedKeys == IF Compose THEN {"GROQ_API_KEY", "OPENAI_API_KEY"} ELSE LLMKeys
Keys == dotenv.keys \cap PassedKeys

Server == IF UseProdChroma(dotenv.appEnv) THEN "prod" ELSE "local"

\* LLMClient._initialize_client, once per process: it raises, and is tried
\* again by every request, when Gemma has a key and no URL.
Provider ==
  CASE UseProdLLM(dotenv.appEnv) /\ "GEMMA_API_KEY" \in Keys ->
         IF "GEMMA_BASE_URL" \in Keys THEN "gemma" ELSE "raises"
    [] ~UseProdLLM(dotenv.appEnv) /\ "GROQ_API_KEY" \in Keys -> "groq"
    [] OTHER -> IF "OPENAI_API_KEY" \notin Keys THEN "none"
                ELSE IF "LLM_BASE_URL" \in Keys THEN "custom" ELSE "openai"

DotEnvs == [appEnv : AppEnvs, keys : KeySets]
NoRequest == [at |-> "none", loaded |-> {}, server |-> "none", sources |-> {}, answer |-> "none"]

Init ==
  /\ Pipeline!Init
  /\ dotenv \in DotEnvs /\ restarts = 0
  /\ loop = Free
  /\ request = [q \in Clients |-> NoRequest]

InProcess(q) == request[q].at \in {"received", "retrieving", "generating"}

\* The operator changes .env and restarts the API: its requests are lost.
StartAPI ==
  /\ restarts < MaxRestarts
  /\ restarts' = restarts + 1
  /\ dotenv' \in DotEnvs
  /\ loop' = Free
  /\ request' = [q \in Clients |-> IF InProcess(q) THEN [NoRequest EXCEPT !.at = "dropped"]
                                                   ELSE request[q]]
  /\ UNCHANGED pipeline

------------------------------------------------------------------------------
(* The pipeline, within the bound.                                         *)

Ingest ==
  /\ \/ \E f \in Files : Pipeline!Register(f) \/ Pipeline!Begin(f) \/ Pipeline!Fail(f)
     \/ \E s \in [Files -> 0 .. MaxStored] : stored' = s /\ Pipeline!Store
     \/ \E f \in Files, n \in 1 .. MaxStored :
          chunkCount' = [chunkCount EXCEPT ![f] = n] /\ Pipeline!Load(f)
  /\ UNCHANGED <<process, loop, request>>

Loaded == {f \in Files : status[f] = "LOADED"}
Chunks == {c \in Files \X (1 .. MaxStored) : c[2] <= stored[c[1]]}

------------------------------------------------------------------------------
(* The handler.                                                            *)

Becomes(q, new) == request' = [request EXCEPT ![q] = new]

\* history: which files were LOADED when the client asked.
Ask(q) ==
  /\ request[q].at \in {"none", "answered", "error", "dropped"}
  /\ Becomes(q, [NoRequest EXCEPT !.at = "received", !.loaded = Loaded])
  /\ UNCHANGED <<pipeline, process, loop>>

\* get_rag_service raises in a process whose client cannot be made.
ServiceRaises(q) ==
  /\ request[q].at = "received" /\ loop = Free
  /\ Provider = "raises"
  /\ Becomes(q, [NoRequest EXCEPT !.at = "error"])
  /\ UNCHANGED <<pipeline, process, loop>>

Query(q) ==
  /\ request[q].at = "received" /\ loop = Free
  /\ Provider # "raises"
  /\ loop' = q
  /\ Becomes(q, [request[q] EXCEPT !.at = "retrieving", !.server = Server])
  /\ UNCHANGED <<pipeline, process>>

\* Mutated form of Nearest: the number of results is off by one.
NearestButOne(n) ==
  {found \in SUBSET Chunks :
     Cardinality(found) = IF n <= Cardinality(Chunks) THEN n - 1 ELSE Cardinality(Chunks)}

\* collection.query: the n chunks nearest to the query, whichever these are,
\* or all of them if there are fewer.
Nearest(n) ==
  {found \in SUBSET Chunks :
     Cardinality(found) = IF n < Cardinality(Chunks) THEN n ELSE Cardinality(Chunks)}

\* Mutated form of Results: a document gets the metadata of the one after it.
ResultsMispaired(found) == {<<c[1], c[2] + 1>> : c \in found}

\* query_documents zips the documents with their metadata.
Results(found) == found

\* Without results, or without a model, the handler answers at once.
Retrieved(q, results) ==
  LET got == [request[q] EXCEPT !.sources = results]
  IN  Becomes(q, CASE results = {} -> [got EXCEPT !.at = "answered", !.answer = "no documents"]
                   [] results # {} /\ Provider = "none" ->
                        [got EXCEPT !.at = "answered", !.answer = "fallback"]
                   [] OTHER -> [got EXCEPT !.at = "generating"])

ChromaAnswers(q) ==
  /\ request[q].at = "retrieving"
  /\ \/ /\ Server = PipelineServer
        /\ \E n \in 1 .. MaxResults : \E found \in Nearest(n) : Retrieved(q, Results(found))
     \/ /\ Server # PipelineServer
        /\ \E found \in {{}, {Elsewhere}} : Retrieved(q, found)
  /\ loop' = Free
  /\ UNCHANGED <<pipeline, process>>

\* Mutated form of ChromaFails: what was taken is not given back.
ChromaFailsHolding(q) ==
  /\ request[q].at = "retrieving"
  /\ Becomes(q, [NoRequest EXCEPT !.at = "error"])
  /\ UNCHANGED <<pipeline, process, loop>>

\* ChromaDB or the embedding raises: nothing catches it.
ChromaFails(q) ==
  /\ request[q].at = "retrieving"
  /\ Becomes(q, [NoRequest EXCEPT !.at = "error"])
  /\ loop' = Free
  /\ UNCHANGED <<pipeline, process>>

Generates(q, answer) ==
  /\ request[q].at = "generating" /\ loop = Free
  /\ Becomes(q, [request[q] EXCEPT !.at = "answered", !.answer = answer])
  /\ UNCHANGED <<pipeline, process, loop>>

ModelAnswers(q) == Generates(q, "generated")

\* Mutated form of ModelFails: the handler asks the model again and again.
ModelIsRetried(q) == request[q].at = "generating" /\ loop = Free /\ UNCHANGED vars

\* The model raises, or does not answer in time: the caught exception still
\* gives the client its sources.
ModelFails(q) == Generates(q, "fallback")

------------------------------------------------------------------------------
Begins(q) == ServiceRaises(q) \/ Query(q)
Retrieval(q) == ChromaAnswers(q) \/ ChromaFails(q)

Next ==
  \/ StartAPI \/ Ingest
  \/ \E q \in Clients : \/ Ask(q) \/ Begins(q) \/ Retrieval(q)
                        \/ ModelAnswers(q) \/ ModelFails(q)

Spec == Init /\ [][Next]_vars

\* The event loop resumes what is ready in the order in which it became ready,
\* so nobody is overtaken for ever.  ChromaDB answers or its connection
\* breaks.  The model may stay silent, but the client library gives up then.
Fairness ==
  \A q \in Clients : /\ SF_vars(Begins(q)) /\ WF_vars(Retrieval(q))
                     /\ SF_vars(ModelFails(q))

FairSpec == Spec /\ Fairness

------------------------------------------------------------------------------
Ats == {"none", "received", "retrieving", "generating", "answered", "error", "dropped"}

\* The process and the requests have their types, no response has more sources
\* than asked for, and the event loop is held by the one that retrieves.
TypeOK ==
  /\ dotenv \in DotEnvs /\ restarts \in 0 .. MaxRestarts
  /\ loop \in Clients \cup {Free}
  /\ \A q \in Clients :
       /\ request[q].at \in Ats
       /\ request[q].loaded \subseteq Files
       /\ request[q].server \in {"none", "local", "prod"}
       /\ request[q].sources \subseteq (Files \X (1 .. MaxStored)) \cup {Elsewhere}
       /\ Cardinality(request[q].sources) <= MaxResults
       /\ request[q].answer \in {"none", "no documents", "fallback", "generated"}
       /\ loop = q <=> request[q].at = "retrieving"

\* Once /admin/list_files has shown a file as LOADED, no later query of the
\* ChromaDB it was loaded into answers "No relevant documents found" (rag.py:47),
\* though ingestion, failures and repeated ingestion go on meanwhile.
LoadedIsFindable ==
  \A q \in Clients :
    request[q].answer = "no documents" /\ request[q].server = PipelineServer
      => request[q].loaded = {}

\* The sources of a response stand: although the collection was written, files
\* failed and were ingested again while the model was awaited, each source is
\* a chunk that is in ChromaDB, of a file whose row says it was picked up.
SourcesStand ==
  \A q \in Clients :
    request[q].server = PipelineServer
      => \A c \in request[q].sources : c \in Chunks /\ Pipeline!Begun(c[1])

\* Every request ends, although the retrieval of one holds up all the others
\* and the model may never answer.
QueryEnds ==
  \A q \in Clients :
    InProcess(q) ~> request[q].at \in {"answered", "error", "dropped"}

\* With APP_ENV=prod or a prod_llm part, and the key and the URL of Gemma in
\* .env, "LLM" is "Gemma" (README.md:152).
ProdUsesGemma ==
  UseProdLLM(dotenv.appEnv) /\ {"GEMMA_API_KEY", "GEMMA_BASE_URL"} \subseteq dotenv.keys
    => Provider = "gemma"
==============================================================================
