# A TLA+ model of the document ingestion pipeline

The repository is a document pipeline. Files in S3 or in a local directory get
a row in PostgreSQL, an Airflow DAG parses them, cuts them into chunks and
stores the chunks with their embeddings in ChromaDB, and a FastAPI service
triggers the DAG, lists what happened and answers questions over the chunks.
The work is spread over processes that share three stores and nothing else, so
what is hard is not any one function. It is what the stores say about each
other while tasks interleave, die, and are retried.

Paths below are relative to `src/`. Line numbers of each definition are in
`PROJECT.json` under `map`.

## 1. Inventory

| Component | State it keeps | Operations | Talks to |
|---|---|---|---|
| ingestion DAG, `dags/ingestion_dag/` | Airflow's task states and XComs per run | `get_file_ids`, mapped `fetch_and_parse`, `aggregate_chunks`, `embed_and_store`, `update_metadata`, `summarize` | `file_records`, `dead_queue`, ChromaDB, storage |
| chunker, `task_chunk.py` | locals | `chunk_text` | – |
| registration DAG, `dags/registration_dag/` | locals of one task | hourly scan, `print_summary` | storage, `file_records` |
| ingest endpoints, `api/routers/ingest.py` | none | `load_file`, `register_files`, `ingest_pending` | `file_records`, storage, Airflow |
| Airflow client, `api/services/airflow.py`, `api/config.py` | cached settings, cached JWT | `_get_token`, `trigger_dag` | Airflow |
| admin listings, `api/routers/admin.py` | none | `list_files`, `dead_queue`, `chroma_list`, `chroma_stats` | `file_records`, `dead_queue`, ChromaDB |
| database, `packages/db` | tables `file_records`, `dead_queue` | one transaction per `get_session()` block | PostgreSQL |
| vector store, `packages/vectordb` | the collection | `add_documents`, `query_documents`, `list_documents` | ChromaDB |
| storage, `packages/storage` | files | list, read, exists | S3 or a directory |
| RAG query, `api/services/rag.py`, `llm.py` | cached clients, the event loop it holds | `query` | ChromaDB, a model service |
| environment mode, `packages/utils/.../settings.py` | cached settings | which file, bucket, model | – |
| Airflow (external) | runs, task states, password, tokens | schedules, retries, `POST dagRuns`, `POST /auth/token` | all of the above |

### Hard behaviours, and what must hold

* **Interleaving.** Three DAG runs may be active, over the same files
  (`max_active_runs=3`). A mapped task of one run sets PROCESSING or FAILED while
  another run's `update_metadata` sets LOADED and clears the dead queue. Each is
  a transaction of its own. *A LOADED row must be backed by chunks, and a
  PROCESSING row must have somebody who will settle it.*
* **Crash and retry.** Every task has retries and starts from its beginning.
  `embed_and_store` may die after the chunks are committed, `update_metadata`
  between two files. *Retries must not store a chunk twice or lose a count.*
* **Partial failure.** One failing file must not stop the batch; a failing
  insert into `dead_queue` is swallowed.
* **Lost and late answers.** Airflow may accept a trigger and its answer may
  never come. *What is reported as triggered has exactly one run.*
* **Stale state.** Pending ids, registered names, the JWT and the password are
  read once and used later. *Reports must be true all the same.*
* **Paging over a moving order.** The lists are ordered by a column that every
  update changes, and a session takes the time before it commits the row with it, so
  that a late commit can put a row back. *What a listing misses or repeats must be
  bounded.*
* **Reading beside the writer.** `POST /query` reads the collection while the DAG
  writes it, holds the event loop during the retrieval, and awaits a model that may
  never answer. *A file shown as LOADED must be found, sources must stand when the
  client gets them, and every request must end.*
* **A listing is not a snapshot.** A bucket is listed page by page and a directory is
  walked, while files come and go. *A scan must still account for what stayed.*
* **Settings fixed at the start.** APP_ENV, keys, password and clients are read
  once per process, and each container sees only what its compose entry passes.
* **Boundaries.** The chunker cuts at sentence ends and steps back by the
  overlap. *It must lose nothing and end.*

`PROJECT.json` lists each of these as a hazard, at its line.

## 2. Modules

| Module | Models | Stands on |
|---|---|---|
| `Ingestion` | the ingestion DAG, triggers, `file_records`, `dead_queue`, the collection | – |
| `FileLifecycle` | abstract: what one row promises to its readers | implemented by `Ingestion`, environment of `Query` |
| `IngestionProofs`, `DeadQueueProofs` | theorems about `Ingestion`; those of runs that keep apart | `Ingestion` |
| `Chunking`, `ChunkingProofs` | `chunk_text`, and theorems about it | – |
| `AirflowClient`, `AirflowClientProofs` | token, password, the two calls of a trigger, and theorems | – |
| `TriggerService` | abstract: what the API promises about a trigger request | implemented by `AirflowClient` |
| `Registration`, `RegistrationProofs` | the scan and `POST /ingest/register`, and theorems | – |
| `Query`, `QueryProofs` | `POST /query`, the choice of ChromaDB and of the model, and theorems | `FileLifecycle` |
| `Listing`, `ListingProofs` | the admin endpoints, page by page, and theorems | – |
| `MC*` | small instances for TLC | each extends its module |

The two abstract modules are where the parts meet. `Query` does not know how the
DAG works: its environment is any pipeline that keeps `FileLifecycle`, and the DAG
has been shown to be one. `Ingestion` does not know how a trigger travels: it may
start a second run over the same files at any time, which is exactly what
`TriggerService` leaves open for a client that got no answer and asks again.

### Ingestion

One row per file name: `status`, `createdAt`, `chunkCount`, `errorMessage`. A
record's UUID stands for its name, since rows are never deleted. `deadQueue` is a
set of entries, each known by the run, slot and try that wrote it. `chroma` is a
set of chunks. A chunk's UUID is made when the file is chunked (`task_chunk.py:66`),
so it is the run, slot, try and index of the chunking, and a retry of
`embed_and_store`, which gets the same chunks from its XCom, adds the same ids.
ChromaDB's `add` ignores an id it already has, hence the union.

A run goes through `stage`: `queued`, `select` (`get_file_ids`), `fetch` (the
mapped instances), `aggregate`, `embed`, `stored` (chunks committed, result not
yet recorded), `publish` (`update_metadata` beside `summarize`), then `success`
or `failed`. A mapped instance goes through `fetch[r][i]`: `scheduled`,
`processing` after it set PROCESSING, then `parsed`, or `failing` after it set
FAILED, `recorded` after the dead-queue insert, and `failed` when it returned.
These are the points between its transactions, where anything else may happen
or the instance may die (`FetchDies`). With tries left it is scheduled again,
otherwise it is `dead` and the run fails. `update_metadata` alternates
`UpdateLoaded` and `RemoveFromDeadQueue` per file, two transactions of the same
loop pass. `get_file_record_by_id` and the update that follows it are merged into
one step: rows are never deleted, so the lookup cannot become stale. `errorMessage`
is whether the row has a message: `update_file_status` writes one only when there
is one, so it is never taken away.

### FileLifecycle

The promise to a reader of a row: no row ever goes back to PENDING, only files
that have been picked up have chunks, chunks are never taken away, a file
becomes LOADED only with a count of chunks that it really has, and a row has an
error message if and only if its file has failed once, so that a LOADED row may
show the message of an earlier attempt. `Ingestion`
implements it with `stored` mapped to the number of chunks of each file in
`chroma`. TLC checks it in `ingestion_concurrent`; `ImplementsLifecycle` proves it.

### Chunking

A text is a function from positions to white space, one of the `Letters` with a
meaning to `chunk_text` ('.', '!', ...) or an ordinary character. `Cut` is one turn
of the loop; `Finish` assigns `total_chunks`. A chunk is the piece of the text that is
stored, after `strip`: `Stores` takes the first and the last character of the window
that are no white space. The loop itself goes by the window, so the overlap it steps
back by is not quite the one of the stored chunks.

### AirflowClient

A request logs in if the process has no token, posts, and answers. Airflow's
side of each call (`HandleLogin`, `HandlePost`) is a step of its own and may come
after the client has given up. `StartAPI` restarts the process, which reads the
password file then and only then. The coroutines switch at the awaits alone.

`TriggerService` is what a caller may rely on: one run at most, "triggered" only
when the run exists, one final outcome per request. The mapping takes `outcome` from
the request's place in the handler (`pc`) and its own `runs`. The fair specification
of the service is a property of `airflow_client`, so the outcome comes in the end.

### Registration

`rows[n]` names who registered `n`. The scan lists the storage name by name, in any
order and while files come and go, reads the registered names and loops over the
files in sorted order, one transaction each. It may die at any point and be
retried. `print_summary` is a task of its own, with tries of its own (`tries` starts
again at `Reporting`): it may die before or after it has printed (`PrintDies`), and a
retry prints the same statistics again. `stayed` is history: the files that were there ever since the listing
began, the only ones a listing that is not a snapshot has to find. A request does the same for the names it was given. Its
handler awaits nothing, so requests do not interleave with each other in the one
uvicorn worker, but they do with the scan. `Inserts` is refused by the unique
index, which is how both learn that the other was faster.

### Query

A request is received, retrieves, awaits the model and is answered. `loop` is the
event loop: the retrieval is a synchronous call in a coroutine, so from `Query` to
`ChromaAnswers` no other request of the process moves. A retrieval returns any
`n` chunks of the collection (all of them if there are fewer): which are nearest is
a matter of numbers that no property is about. The model answers, raises or never
answers; the handler turns the last two into an answer without the model that still
has its sources. `loaded` is history: the files that were LOADED when the client
asked. The process has the settings of the `.env` it was started with, cut down to
the variables `docker-compose.yaml` names when it runs in its container (`Compose`).
`Server` and `Provider` are the choices of `get_chroma_client` and `_initialize_client`;
when the API selected another ChromaDB than the Airflow workers, it finds nothing
or what others stored there (`Elsewhere`).

### Listing

One table at a time is written by the pipeline's own operations and read by a
client, page by page; the tables do not affect each other's listing. A write is two
steps. A session takes the time (`MakesRow`, `FindsRecord`; `updated_at` is assigned in
`task_file_records.py:114`, the defaults of `models.py` are taken when the row is made),
and later it commits the row with that time, or rolls back. Until then the time is a
`Stamp` in the order. The order is `ahead`, which gives for each row and stamp those
that come before it: a stamp is the newest when it is taken (`ToFront`), a row takes
the place of its session's stamp (`TakesPlace`), an added chunk is the last (`ToEnd`).
A session that took its time early and commits late thus puts its row behind rows
written meanwhile, or, if the row had a newer time already, back behind where it was:
such a row has sunk. Two clocks or two calls that give the same microsecond are not
modelled. SQLAlchemy sends the columns that changed; that a status equal to the one
read is not sent is covered by the free choice of the status. A page is a set of
places in the order, and `shown` counts what the pages held. An
endpoint counts and reads in two statements. PostgreSQL's default isolation
gives each its own snapshot, and ChromaDB's `count` and `get` are two calls. The
client pages until a page is not full. A client that stopped at `total` could
miss a row even if none leaves the list: a row inserted between the two
statements pushes the last one off the page.

## 3. Runs

| Run | Shows | Bounds and why they suffice |
|---|---|---|
| `ingestion_concurrent` | type, `LoadedBacked`, `CountIsOfOneRun`, `ProcessingHasOwner`, `RetryDoesNotDuplicate`, refinement of `FileLifecycle` | 1 file, 2 runs at once, 2 tries, up to 2 chunks: two writers of a row meet in every order, each dies once and recovers or fails for good |
| `ingestion_batch` | `LoadedBacked`, `CountIsOfOneRun`, the dead queue agrees with the rows at rest, and every step uses up what is left of the run (`RunsAdvance`) | 1 run, 2 slots: two files, one file twice, an unknown id; the pending list and its limit; a dead queue that works |
| `ingestion_liveness` | `RunEnds`, `ProcessingSettles`, and the dead queue at rest over runs one after the other | 2 runs compete for 1 place; no symmetry, which would be unsound |
| `chunking` | five properties of the loop and of what it stores | chunk 9, overlap 4, all texts up to 12 characters: up to three chunks, and room for a boundary of each kind on both sides of the middle |
| `airflow_client` | `TriggeredHasRun`, `AtMostOneRun`, `EveryRequestEnds`, refinement of `TriggerService` with its fairness | 2 requests share a token, 3 passwords, 2 restarts |
| `registration` | reports are true, a file is reported by one scan or request only, files that stay get registered | 2 names, 1 request of up to 2 names (or one twice), 2 tries, 2 deaths, 1 failing insert |
| `query` | `LoadedIsFindable`, `SourcesStand`, `QueryEnds` | 2 clients share one event loop, 1 file of up to 2 chunks, 1 restart, 3 values of APP_ENV and 3 sets of keys: every choice of server, and models present, absent and raising |
| `listing` | bounds on what is missed and repeated; exact pages of the collection; `chroma_stats` | 2 sessions at once, 2 files, pages of 1 and 2 of up to 3 rows, 3 commits in a listing: a row can sink, and cross a page boundary in either direction more than once |
| `dead_queue_race` | finding | 2 active runs, nothing dies |
| `any_stage` | finding | 1 run, 1 file |
| `password_stale` | finding | 1 request, 1 new password |
| `gemma_keys` | finding | the container of `docker-compose.yaml`, `.env` with Gemma's key and URL |

`CHECK_DEADLOCK FALSE` stands where the bounded system really stops: all runs or
requests the bound allows have ended, or `chunk_text` has returned. `Registration`,
`Query` and `Listing` go on for ever and are checked for deadlock.

### Findings

* **Dead queue race.** With two active runs of a file, run A sets LOADED, run B
  sets FAILED and inserts its entry, and A's clean-up then removes it. The row
  says FAILED and the dead queue is empty, although nothing died
  (`ingestion_dag.py:380` against line 55). Runs one after the other are safe
  (`ingestion_liveness`), and so are runs at the same time that have no file in
  common (`DeadQueueProofs`, for any bounds): a file in two lists is what it takes.
* **Dead queue "at any stage".** Only `fetch_and_parse` writes it; a file whose
  run fails later is not in it (`task_dead_queue.py:14`).
* **Password "loaded dynamically".** It is read once per process
  (`docker-compose.yaml:191` against `config.py:129`).
* **Gemma in production.** "`prod` ... Gemma" (`README.md:152`), but the api service of
  `docker-compose.yaml` (lines 178-207) passes no variable of Gemma and its image
  holds no `.env`: `_initialize_client` falls through to OpenAI or to no model.

Two more disagreements with a text have no run of their own, since properties that pass
say what holds instead:

* **Overlap of stored chunks.** `chunk_overlap` is the "number of overlapping characters
  between chunks" (`task_chunk.py:23`), but a chunk is stripped when it is stored
  (line 62): one that is cut behind a space loses it, one that begins on a space loses
  that. Neighbours have up to two characters less in common (`ChunksAdvance`).
* **`chunk_count` after a second ingestion.** It is the "number of chunks in ChromaDB"
  (`models.py:52`, `responses.py:83`), but each ingestion makes new chunk ids and removes
  nothing: `chunk_count` counts the batch of one run (`CountIsOfOneRun`), and ChromaDB
  holds those of all. It is the number in ChromaDB while one run only has stored the file.

Observations that are no disagreement with a text, so no finding:

* A listing may miss a row that nothing has touched although none has left the list: a
  session that took its time early overwrites a newer `updated_at` of its row, the row
  sinks, and another moves up past the offset (`MissedAtMostLeftOrSunk` counts these).
* A `print_summary` that dies after printing prints again: the logs may report a file as
  newly registered once per try (`ReportedByOne`).
* The answer without a model says "LLM not configured" also when the model raised
  (`llm.py:163`), and `_initialize_client` raises `ValueError` for a Gemma key without URL
  although its docstring speaks of a fallback.
* `POST /ingest/register` looks in the local directory and stores a local path also
  in S3 mode (the contract of `PLAN.md:614-628`); fetching goes by the file name, not by
  the path of the row.
* An APP_ENV such as `prod:s3` selects the local ChromaDB and model, since only a value
  that is `prod` and nothing else selects all the services (`settings.py:37`).
* `task_parse` tries latin-1 before cp1252; latin-1 decodes anything, so cp1252 is
  never reached.

## 4. Fairness

* `Ingestion`: weak fairness of each run's scheduling, of each mapped instance, of
  `update_metadata` and of `summarize`. The scheduler keeps queueing what is due and a
  worker goes on with a task it has begun. Registration, triggers and deaths are
  not fair: nobody has to do them, and retries bound the deaths.
* `AirflowClient`: weak fairness of an open request, because httpx is given a
  timeout (10 s for the login, 30 s for the POST) and a timeout is a step of the
  client. Nothing is assumed of Airflow.
* `Query`: strong fairness of a request's beginning and of the model's failure, weak
  fairness of the retrieval. Strong, because another request's retrieval closes the
  event loop again and again, and asyncio resumes what is ready in the order in which
  it became ready. ChromaDB answers or its connection breaks. The model may stay silent:
  then the client library gives up, which is `ModelFails`. Nobody has to ask.
* `Registration`: weak fairness of the scan's steps, which the `@hourly` schedule
  and the worker justify. `EventuallyRegistered` also uses the bounds on deaths and on
  failing inserts: a database that never recovers registers nothing.

## 5. Proofs

**`IngestionProofs`**, for any files, runs, tries, batch sizes and chunk counts,
from the named assumptions of `Ingestion` (finite files and runs, positive bounds,
`PendingLimit` within the batch). The invariants are not inductive. The
strengthening `IInv` says in addition:

* `SlotsOK`: a run has instances for its ids only, and all of them are over, none
  dead, once the batch begins;
* `WorkingOK`: the file of an instance at work has been picked up;
* `ParsedOK`: what an instance returned is a non-empty set of chunks of its own
  file, run, slot and try, so that two instances never share a chunk;
* `StoredOK`: from `stored` on, the chunks a run parsed are in `chroma`, and whatever is
  in `chroma` was returned by an instance of a run that has reached the batch;
* `UpdateOK`: where `update_metadata` stands in the list;
* `CountOK`: the count a row reports is that of what one run has returned and stored,
  hence at most what is there;
* `ProcessingHasOwner` itself.

`LoadedBacked`, `RetryDoesNotDuplicate` and `CountIsOfOneRun` follow from
`ParsedOK`, `StoredOK` and `CountOK` by counting; `ImplementsLifecycle` needs them
for the step to LOADED. The proof that `Next` preserves `IInv` goes by conjunct,
and under each by action.

`RunsDoAdvance` is the safety core of `RunEnds`. What is left of a run is a family of
pairs, ordered lexicographically: one for its stage and the tries left in it, one
for each mapped instance, one for `update_metadata` with its place in the list, one
for `summarize`. Every step that changes the run lowers one of them and raises none
(`Nearer`). The pairs are of natural numbers (`LeftIsCounted`, part of the theorem) and the
instances finitely many, so no run goes on for ever, however its tasks die. It needs `IInv`, `SummaryOK` (where
`summarize` stands) and the lemma that no run changes the state of another
(`OthersLeaveRun`). That a run with steps left does take one is fairness, and TLC's.

**`ChunkingProofs`**, for any chunk size above 1, any overlap of at most half a
chunk plus one, and texts of any length. `IInv` is `TypeOK` with the position of
`start` in relation to the last chunk and the fact that all content before `start` is
in a chunk. The loop goes by the window, the chunks by what `strip` leaves of it; that
each chunk still ends behind the one before it (`ChunksDoAdvance`) has the hypothesis
that twice the overlap is less than the chunk size, which keeps what strip takes from
reaching back to it. The assumption on the overlap is the one thing the code does not check:
`chunk_text` takes both numbers as parameters, and a larger overlap lets a cut just
past the middle step back to where it began. The one caller passes 512 and 50.
`LoopProgresses` with the bounded text is what termination rests on.

**`DeadQueueProofs`**, for behaviours in which no two active runs have a file in
common (`Apart`), and whatever number of them is active. At rest LOADED files have no
entry (`ApartLoadedAreNotDeadLettered`), also when inserts into `dead_queue` fail; if
none fails, FAILED files have one (`ApartFailedAreDeadLettered`), whichever tasks died
and were retried. `Apart` is a condition on what clients ask for: nothing in the code
keeps two runs off the same file, and without it both fail (`dead_queue_race`). On top
of `IInv`:

* `FailedOK`: a FAILED file without an entry belongs to an instance that is about to
  write it, or that died in between and is retried or fails the run;
* `LoadedOK`: a LOADED file with an entry is at or after the place of
  `update_metadata` in the list, or that task has died;
* `FetchTouches`, `CleanLoaded`: between its transactions a task finds the status
  that it has set, because no other active run has the file.

**`AirflowClientProofs`**, for any requests, passwords and restarts: `TriggeredHasRun` and
`AtMostOneRun` from `PostOK` (a POST is sent once, after the login, and a request has a
run if and only if its POST was accepted), types with `LoginOK` (a token is left for
every login that waits), and the safety part of the refinement of `TriggerService`.

**`RegistrationProofs`**, for any names, requests, tries and faults. `KnownOK`: what scan
and requests know to be registered is. `RequestOK`: a request has one outcome per name
passed and no name twice in "registered". `ReportsOK`: a name is reported by the one who
registered it: by a request once and not while it is open, by a scan no more often
than tries of `print_summary` have printed (`Printed`). `ScanOK`: what stays is yet to be visited or accounted for.

**`QueryProofs`**, for any clients, files, settings and restarts. Of the pipeline it uses
what `FileLifecycle` says and nothing else: chunks only grow, only files picked up have
any, a LOADED one has some. `RequestOK` carries this into each request: the files that
were LOADED when it was asked still have chunks, and its sources are still there.

**`ListingProofs`**, for tables and pages of any size, any number of writes and any
filter. The first part counts places in an order (`Places`, `WindowSize`): each element
has a place of its own, and `n` places in a row hold `n` rows, or what is left of the
order. `ToFrontOrders`, `ToEndOrders`, `DeletesOrders` and `TakesPlaceOrders` show that the
order of rows and stamps is kept, and `TimingKeepsTable` that a time taken or given up
moves no row. `WriteShifts` says what a commit does to the order of the other rows:
nothing, up to the one that gets another place or those that leave. That a row which
has not sunk is still ahead of those it was ahead of comes from its session's stamp,
which was then ahead of the row. The ledger `IInv` is `TypeOK` and

* `MissedOK`: the rows before the offset that a client has not seen (`EarlyUnseen`), among
  those listed and untouched since it began, are at most as many as have left or sunk.
  A row can only get there by one place for each row ahead of it that does;
* `RepeatedOK`: the repetitions so far, and the rows seen that are still to come
  (`LateSeen`), are together at most as many as were given another place. A row that is
  put behind the offset pushes none of the others there;
* `CollectionOK`, `StatsOK`: the pages of the collection so far are its first `shown` rows,
  since it grows at its end only;
* `ClientOK`: what a request says of where the client stands.

A write moves the two sums by what it adds to `left` or `moved`; reading a page moves
rows from one side of the offset to the other, which the window lemma counts.

Only model-checked: liveness (`RunEnds`, `ProcessingSettles`, `EveryRequestEnds`,
`EventuallyRegistered`, `QueryEnds`) and the fair half of the refinement of
`TriggerService`. Fairness is out of the prover's reach. Every invariant and every action
property that a passing run checks is proved, the two of the dead queue under `Apart` and
`ChunksAdvance` for an overlap of less than half a chunk.

## 6. Not modelled, and why

* Parsers, embeddings, similarity search, the language model: library calls on
  contents; a parse succeeds with some chunks or raises.
* Storage keys, prefixes and which backend is selected: string functions around
  library calls. The walk of a listing and `exists` are modelled.
* A task instance that Airflow takes for dead and that goes on beside its retry.
* Pools, `max_map_length`, task concurrency: they delay steps and add none.
* Repeated parts of APP_ENV: the model takes the value as a set of parts.
* Prompts, previews and distances of `query`, storage and CORS by environment.
* Logging, base models and migrations: they have no state the pipeline reads. The
  unique index of the migration is the guard of `Inserts`.
* The empty answers of the admin endpoints when the DAG package cannot be
  imported: the container's path decides it once.

## 7. Plan

Done: `Ingestion` with `FileLifecycle` and proofs, `Chunking` with proofs,
`AirflowClient` with `TriggerService` and proofs, `Registration` with proofs, `Query`
with proofs, `Listing` with proofs, and the theorems of the dead queue.

Left:

1. A module of the storage backends and of the parse dispatch: keys with their
   prefixes, S3 directory markers, which the listing takes for files, and the
   agreement of what is registered with what can be fetched.
2. In `Query`, the choice of the storage by environment, once 1 exists.
3. Progress measures, like that of `RunsAdvance`, for a trigger request and for a
   scan, so that all of their liveness but the fairness is proved.
