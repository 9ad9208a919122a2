------------------------------ MODULE Ingestion ------------------------------
(***************************************************************************)
(* The ingestion DAG (dags/ingestion_dag) with the two stores it writes:   *)
(* PostgreSQL (file_records, dead_queue) and ChromaDB.  A DAG run selects  *)
(* file ids, maps fetch_and_parse over them, aggregates the chunks, stores *)
(* them in one batch, and then runs update_metadata beside summarize.      *)
(* Airflow may run several DAG runs at once, and retries a task instance   *)
(* that dies from its beginning.  Every get_session() block is one         *)
(* transaction, hence one step; between two steps anything may interleave. *)
(***************************************************************************)
EXTENDS Integers, FiniteSets

CONSTANTS
  Files,           \* file names; a record's UUID stands for its name
  UnknownId,       \* a file id no record has
  Runs,            \* identities of DAG runs
  MaxFileIds,      \* bound: file ids in one run, the mapped task instances
  MaxTries,        \* tries of a task instance, 1 + "retries"
  MaxActiveRuns,   \* max_active_runs of the DAG
  MaxChunks,       \* bound: chunks chunk_text cuts from one file
  PendingLimit,    \* pending_limit of the DAG, limit of the API
  DeadQueueMayFail, \* whether the insert into dead_queue can fail
  TasksMayDie       \* whether a task instance can raise or be killed

ASSUME FilesAssumption == IsFiniteSet(Files) /\ UnknownId \notin Files
ASSUME RunsAssumption == IsFiniteSet(Runs)
ASSUME BoundsAssumption ==
  /\ MaxFileIds \in Nat \ {0}
  /\ MaxTries \in Nat \ {0}
  /\ MaxActiveRuns \in Nat \ {0}
  /\ MaxChunks \in Nat \ {0}
  /\ PendingLimit \in 1 .. MaxFileIds
ASSUME FaultsAssumption == DeadQueueMayFail \in BOOLEAN /\ TasksMayDie \in BOOLEAN

VARIABLES
  \* file_records, one row per file name
  status, createdAt, chunkCount, errorMessage,
  deadQueue,   \* the rows of dead_queue
  chroma,      \* the chunks in the ChromaDB collection
  \* Airflow's metadata database and XComs, per DAG run
  stage,       \* the task the run has reached
  tries,       \* the try of that task
  conf,        \* conf["file_ids"] of the trigger
  ids,         \* what get_file_ids returned
  fetch,       \* the mapped instances of fetch_and_parse
  attempt,     \* the try of each mapped instance
  parsed,      \* the chunks each mapped instance returned
  update, pos, \* update_metadata, and its place in successful_files
  summary      \* summarize

records == <<status, createdAt, chunkCount, errorMessage>>
mapped  == <<fetch, attempt, parsed>>
leaves  == <<update, pos, summary>>
vars == <<records, deadQueue, chroma, stage, tries, conf, ids, mapped, leaves>>

Slots == 1 .. MaxFileIds
FileIds == Files \cup {UnknownId}
FileIdLists == UNION {[1 .. n -> FileIds] : n \in 0 .. MaxFileIds}

Chunk == [file : Files, run : Runs, slot : Slots, try : 1 .. MaxTries,
          index : 0 .. MaxChunks - 1]
DeadQueueItem == [file : Files, run : Runs, slot : Slots, try : 1 .. MaxTries]

Statuses == {"UNREGISTERED", "PENDING", "PROCESSING", "LOADED", "FAILED"}
Ended == {"success", "failed"}
Active == {"select", "fetch", "aggregate", "embed", "stored", "publish"}
Stages == {"none", "queued"} \cup Active \cup Ended
\* An instance that has died is scheduled again while it has tries left.
FetchOpen == {"scheduled", "processing", "failing", "recorded"}
FetchStates == {"idle", "parsed", "failed", "dead"} \cup FetchOpen

Init ==
  /\ status = [f \in Files |-> "UNREGISTERED"]
  /\ createdAt = [f \in Files |-> 0]
  /\ chunkCount = [f \in Files |-> 0]
  /\ errorMessage = [f \in Files |-> FALSE]
  /\ deadQueue = {}
  /\ chroma = {}
  /\ stage = [r \in Runs |-> "none"]
  /\ tries = [r \in Runs |-> 1]
  /\ conf = [r \in Runs |-> <<>>]
  /\ ids = [r \in Runs |-> <<>>]
  /\ fetch = [r \in Runs |-> [i \in Slots |-> "idle"]]
  /\ attempt = [r \in Runs |-> [i \in Slots |-> 1]]
  /\ parsed = [r \in Runs |-> [i \in Slots |-> {}]]
  /\ update = [r \in Runs |-> "idle"]
  /\ pos = [r \in Runs |-> 1]
  /\ summary = [r \in Runs |-> "idle"]

------------------------------------------------------------------------------
(* Registration and triggers: what the API and the operators do.           *)

Registered(f) == f \in Files /\ status[f] # "UNREGISTERED"

\* register_file: the unique index on filename refuses a second row.
RegisterFile(f) ==
  /\ ~Registered(f)
  /\ status' = [status EXCEPT ![f] = "PENDING"]
  /\ createdAt' = [createdAt EXCEPT ![f] = 1 + Cardinality({g \in Files : Registered(g)})]
  /\ UNCHANGED <<chunkCount, errorMessage, deadQueue, chroma, stage, tries,
                 conf, ids, mapped, leaves>>

\* SELECT id ... WHERE status = 'PENDING' ORDER BY created_at LIMIT limit
IsPendingList(list, limit) ==
  LET selected == {list[i] : i \in DOMAIN list}
      pending == {f \in Files : status[f] = "PENDING"}
  IN  /\ selected \subseteq pending
      /\ \A i, j \in DOMAIN list : i < j => createdAt[list[i]] < createdAt[list[j]]
      /\ \A f \in pending \ selected :
           Cardinality(selected) = limit /\ \A g \in selected : createdAt[g] < createdAt[f]

\* POST dagRuns: Airflow queues a run with its conf.
Trigger(r, list) ==
  /\ stage[r] = "none"
  /\ stage' = [stage EXCEPT ![r] = "queued"]
  /\ conf' = [conf EXCEPT ![r] = list]
  /\ UNCHANGED <<records, deadQueue, chroma, tries, ids, mapped, leaves>>

\* POST /ingest/load_file: any registered files, whatever their status, a
\* file named twice twice.  A client that got no answer may ask again.
LoadFile(r) ==
  \E list \in FileIdLists :
    /\ DOMAIN list # {}
    /\ \A i \in DOMAIN list : Registered(list[i])
    /\ Trigger(r, list)

\* POST /ingest/pending: the ids pending now, used whenever the run starts.
IngestPending(r) ==
  \E limit \in 1 .. PendingLimit, list \in FileIdLists :
    /\ IsPendingList(list, limit)
    /\ DOMAIN list # {}
    /\ Trigger(r, list)

\* airflow dags trigger, by hand: no ids at all, or an id no record has.
TriggerByHand(r) == \E list \in {<<>>, <<UnknownId>>} : Trigger(r, list)

------------------------------------------------------------------------------
(* The scheduler, and the tasks of a run before they branch.               *)

StartRun(r) ==
  /\ stage[r] = "queued"
  /\ Cardinality({q \in Runs : stage[q] \in Active}) < MaxActiveRuns
  /\ stage' = [stage EXCEPT ![r] = "select"]
  /\ UNCHANGED <<records, deadQueue, chroma, tries, conf, ids, mapped, leaves>>

\* expand over no ids skips every task after it: the run succeeds.
GetFileIds(r) ==
  /\ stage[r] = "select"
  /\ \E list \in FileIdLists :
       /\ IF conf[r] = <<>> THEN IsPendingList(list, PendingLimit) ELSE list = conf[r]
       /\ ids' = [ids EXCEPT ![r] = list]
       /\ stage' = [stage EXCEPT ![r] = IF list = <<>> THEN "success" ELSE "fetch"]
       /\ fetch' = [fetch EXCEPT ![r] =
                      [i \in Slots |-> IF i \in DOMAIN list THEN "scheduled" ELSE "idle"]]
  /\ tries' = [tries EXCEPT ![r] = 1]
  /\ UNCHANGED <<records, deadQueue, chroma, conf, attempt, parsed, leaves>>

\* Mutated form of TaskDies: the tries of a task are not counted.
TaskDiesUncounted(r) ==
  /\ TasksMayDie
  /\ stage[r] \in {"select", "aggregate", "embed", "stored"}
  /\ stage' = [stage EXCEPT ![r] = IF @ = "stored" THEN "embed" ELSE @]
  /\ UNCHANGED <<records, deadQueue, chroma, tries, conf, ids, mapped, leaves>>

\* A task other than a mapped one raises or is killed: Airflow runs it again
\* from its beginning, MaxTries times in all, and then fails the run.
TaskDies(r) ==
  /\ TasksMayDie
  /\ stage[r] \in {"select", "aggregate", "embed", "stored"}
  /\ IF tries[r] < MaxTries
     THEN /\ tries' = [tries EXCEPT ![r] = @ + 1]
          /\ stage' = [stage EXCEPT ![r] = IF @ = "stored" THEN "embed" ELSE @]
     ELSE /\ stage' = [stage EXCEPT ![r] = "failed"]
          /\ tries' = tries
  /\ UNCHANGED <<records, deadQueue, chroma, conf, ids, mapped, leaves>>

------------------------------------------------------------------------------
(* fetch_and_parse, one mapped instance per file id.                       *)

FetchStep(r, i, from, to) ==
  /\ stage[r] = "fetch"
  /\ fetch[r][i] = from
  /\ fetch' = [fetch EXCEPT ![r][i] = to]
  /\ UNCHANGED <<createdAt, chunkCount, chroma, stage, tries, conf, ids, leaves>>

\* update_file_status: a message is written only when there is one, so an
\* earlier one stays.
SetStatus(f, new) ==
  /\ status' = [status EXCEPT ![f] = new]
  /\ errorMessage' = [errorMessage EXCEPT ![f] = @ \/ new = "FAILED"]

FetchUnknown(r, i) ==
  /\ FetchStep(r, i, "scheduled", "failed")
  /\ ~Registered(ids[r][i])
  /\ UNCHANGED <<status, errorMessage, deadQueue, attempt, parsed>>

\* Mutated form of FetchBegin: the file is not marked PROCESSING.
FetchBeginUnmarked(r, i) ==
  /\ FetchStep(r, i, "scheduled", "processing")
  /\ Registered(ids[r][i])
  /\ UNCHANGED <<status, errorMessage, deadQueue, attempt, parsed>>

FetchBegin(r, i) ==
  /\ FetchStep(r, i, "scheduled", "processing")
  /\ Registered(ids[r][i])
  /\ SetStatus(ids[r][i], "PROCESSING")
  /\ UNCHANGED <<deadQueue, attempt, parsed>>

\* Mutated form of NewChunks: chunk_index counts from 0 to the total.
NewChunksOneTooMany(r, i, n) ==
  {[file |-> ids[r][i], run |-> r, slot |-> i, try |-> attempt[r][i], index |-> k] :
     k \in 0 .. n}

\* The chunks of an instance get fresh UUIDs on every try.
NewChunks(r, i, n) ==
  {[file |-> ids[r][i], run |-> r, slot |-> i, try |-> attempt[r][i], index |-> k] :
     k \in 0 .. n - 1}

\* Mutated form of FetchSucceeds: "if not chunks: raise" is dropped.
FetchSucceedsEmpty(r, i) ==
  /\ FetchStep(r, i, "processing", "parsed")
  /\ \E n \in 0 .. MaxChunks : parsed' = [parsed EXCEPT ![r][i] = NewChunks(r, i, n)]
  /\ UNCHANGED <<status, errorMessage, deadQueue, attempt>>

FetchSucceeds(r, i) ==
  /\ FetchStep(r, i, "processing", "parsed")
  /\ \E n \in 1 .. MaxChunks : parsed' = [parsed EXCEPT ![r][i] = NewChunks(r, i, n)]
  /\ UNCHANGED <<status, errorMessage, deadQueue, attempt>>

\* Mutated form of FetchFails: the except branch forgets the status.
FetchFailsUnmarked(r, i) ==
  /\ FetchStep(r, i, "processing", "failing")
  /\ UNCHANGED <<status, errorMessage, deadQueue, attempt, parsed>>

\* No such file, no parser, no text: the except branch.
FetchFails(r, i) ==
  /\ FetchStep(r, i, "processing", "failing")
  /\ SetStatus(ids[r][i], "FAILED")
  /\ UNCHANGED <<deadQueue, attempt, parsed>>

\* Mutated form of WriteDeadQueue: the call is gone.
WriteNothing(r, i) ==
  /\ FetchStep(r, i, "failing", "recorded")
  /\ UNCHANGED <<status, errorMessage, deadQueue, attempt, parsed>>

\* write_to_dead_queue; the code swallows its failure.
WriteDeadQueue(r, i) ==
  /\ FetchStep(r, i, "failing", "recorded")
  /\ \/ deadQueue' = deadQueue \cup
          {[file |-> ids[r][i], run |-> r, slot |-> i, try |-> attempt[r][i]]}
     \/ DeadQueueMayFail /\ UNCHANGED deadQueue
  /\ UNCHANGED <<status, errorMessage, attempt, parsed>>

FetchReturnsFailure(r, i) ==
  /\ FetchStep(r, i, "recorded", "failed")
  /\ UNCHANGED <<status, errorMessage, deadQueue, attempt, parsed>>

FetchDies(r, i) ==
  /\ TasksMayDie
  /\ \E from \in FetchOpen :
       IF attempt[r][i] < MaxTries
       THEN /\ FetchStep(r, i, from, "scheduled")
            /\ attempt' = [attempt EXCEPT ![r][i] = @ + 1]
       ELSE FetchStep(r, i, from, "dead") /\ UNCHANGED attempt
  /\ UNCHANGED <<status, errorMessage, deadQueue, parsed>>

\* One dead instance makes everything after the map upstream_failed.
FetchEnds(r) ==
  /\ stage[r] = "fetch"
  /\ \A i \in DOMAIN ids[r] : fetch[r][i] \notin FetchOpen
  /\ stage' = [stage EXCEPT ![r] =
                 IF \E i \in DOMAIN ids[r] : fetch[r][i] = "dead" THEN "failed" ELSE "aggregate"]
  /\ UNCHANGED <<records, deadQueue, chroma, tries, conf, ids, mapped, leaves>>

------------------------------------------------------------------------------
(* The batch: aggregate_chunks and embed_and_store.                        *)

SuccessfulSlots(r) == {i \in DOMAIN ids[r] : fetch[r][i] = "parsed"}
AllChunks(r) == UNION {parsed[r][i] : i \in SuccessfulSlots(r)}

\* Mutated forms of FileChunks: the count of the whole batch, and that of the
\* last result for the file.
BatchChunks(r, f) == {c \in AllChunks(r) : f \in Files}
LastResultChunks(r, f) ==
  {c \in AllChunks(r) : c.file = f /\ \A d \in AllChunks(r) : d.file = f => d.slot <= c.slot}

FileChunks(r, f) == {c \in AllChunks(r) : c.file = f}

Aggregate(r) ==
  /\ stage[r] = "aggregate"
  /\ stage' = [stage EXCEPT ![r] = "embed"]
  /\ tries' = [tries EXCEPT ![r] = 1]
  /\ UNCHANGED <<records, deadQueue, chroma, conf, ids, mapped, leaves>>

\* Mutated form of EmbedAndStore: the ids are made when the batch is stored.
EmbedWithFreshIds(r) ==
  /\ stage[r] = "embed"
  /\ stage' = [stage EXCEPT ![r] = "stored"]
  /\ chroma' = chroma \cup {[c EXCEPT !.try = tries[r]] : c \in AllChunks(r)}
  /\ UNCHANGED <<records, deadQueue, tries, conf, ids, mapped, leaves>>

\* collection.add ignores an id it already has, so a second try of the same
\* batch adds nothing.  Without chunks the collection is not touched.
EmbedAndStore(r) ==
  /\ stage[r] = "embed"
  /\ stage' = [stage EXCEPT ![r] = "stored"]
  /\ chroma' = chroma \cup AllChunks(r)
  /\ UNCHANGED <<records, deadQueue, tries, conf, ids, mapped, leaves>>

EmbedReturns(r) ==
  /\ stage[r] = "stored"
  /\ stage' = [stage EXCEPT ![r] = "publish"]
  /\ tries' = [tries EXCEPT ![r] = 1]
  /\ update' = [update EXCEPT ![r] = "status"]
  /\ summary' = [summary EXCEPT ![r] = "running"]
  /\ UNCHANGED <<records, deadQueue, chroma, conf, ids, mapped, pos>>

------------------------------------------------------------------------------
(* The leaves: update_metadata and summarize.                              *)

\* Mutated form of Remaining: the loop starts at the second file.
RemainingAfterFirst(r) == {i \in SuccessfulSlots(r) : i > pos[r]}

Remaining(r) == {i \in SuccessfulSlots(r) : i >= pos[r]}

\* update_file_status(LOADED, chunk_count), a transaction of its own.
UpdateLoaded(r) ==
  /\ stage[r] = "publish" /\ update[r] = "status"
  /\ \E i \in Remaining(r) :
       /\ \A j \in Remaining(r) : i <= j
       /\ SetStatus(ids[r][i], "LOADED")
       /\ chunkCount' = [chunkCount EXCEPT ![ids[r][i]] = Cardinality(FileChunks(r, ids[r][i]))]
       /\ pos' = [pos EXCEPT ![r] = i]
  /\ update' = [update EXCEPT ![r] = "clean"]
  /\ UNCHANGED <<createdAt, deadQueue, chroma, stage, tries, conf, ids, mapped, summary>>

\* Mutated forms of RemoveFromDeadQueue: no entries, and only those of this run.
RemoveNothing(r) ==
  /\ stage[r] = "publish" /\ update[r] = "clean"
  /\ pos' = [pos EXCEPT ![r] = @ + 1]
  /\ update' = [update EXCEPT ![r] = "status"]
  /\ UNCHANGED <<records, deadQueue, chroma, stage, tries, conf, ids, mapped, summary>>
RemoveOwnEntries(r) ==
  /\ stage[r] = "publish" /\ update[r] = "clean"
  /\ deadQueue' = {e \in deadQueue : e.file # ids[r][pos[r]] \/ e.run # r}
  /\ pos' = [pos EXCEPT ![r] = @ + 1]
  /\ update' = [update EXCEPT ![r] = "status"]
  /\ UNCHANGED <<records, chroma, stage, tries, conf, ids, mapped, summary>>

\* remove_from_dead_queue: every entry of the file, whoever wrote it.
RemoveFromDeadQueue(r) ==
  /\ stage[r] = "publish" /\ update[r] = "clean"
  /\ deadQueue' = {e \in deadQueue : e.file # ids[r][pos[r]]}
  /\ pos' = [pos EXCEPT ![r] = @ + 1]
  /\ update' = [update EXCEPT ![r] = "status"]
  /\ UNCHANGED <<records, chroma, stage, tries, conf, ids, mapped, summary>>

UpdateReturns(r) ==
  /\ stage[r] = "publish" /\ update[r] = "status"
  /\ Remaining(r) = {}
  /\ update' = [update EXCEPT ![r] = "done"]
  /\ UNCHANGED <<records, deadQueue, chroma, stage, tries, conf, ids, mapped, pos, summary>>

\* A retry walks successful_files again from the first file.
UpdateDies(r) ==
  /\ TasksMayDie
  /\ stage[r] = "publish" /\ update[r] \in {"status", "clean"}
  /\ IF tries[r] < MaxTries
     THEN /\ tries' = [tries EXCEPT ![r] = @ + 1]
          /\ update' = [update EXCEPT ![r] = "status"]
          /\ pos' = [pos EXCEPT ![r] = 1]
     ELSE /\ update' = [update EXCEPT ![r] = "dead"]
          /\ UNCHANGED <<tries, pos>>
  /\ UNCHANGED <<records, deadQueue, chroma, stage, conf, ids, mapped, summary>>

\* summarize only prints: its retries are not told apart.
Summarize(r) ==
  /\ stage[r] = "publish" /\ summary[r] = "running"
  /\ summary' = [summary EXCEPT ![r] = "done"]
  /\ UNCHANGED <<records, deadQueue, chroma, stage, tries, conf, ids, mapped, update, pos>>

SummarizeDies(r) ==
  /\ TasksMayDie
  /\ stage[r] = "publish" /\ summary[r] = "running"
  /\ summary' = [summary EXCEPT ![r] = "dead"]
  /\ UNCHANGED <<records, deadQueue, chroma, stage, tries, conf, ids, mapped, update, pos>>

\* A run succeeds when all of its leaves did.
EndRun(r) ==
  /\ stage[r] = "publish"
  /\ update[r] \in {"done", "dead"} /\ summary[r] \in {"done", "dead"}
  /\ stage' = [stage EXCEPT ![r] =
                 IF "dead" \in {update[r], summary[r]} THEN "failed" ELSE "success"]
  /\ UNCHANGED <<records, deadQueue, chroma, tries, conf, ids, mapped, leaves>>

------------------------------------------------------------------------------
TriggerRun(r) == LoadFile(r) \/ IngestPending(r) \/ TriggerByHand(r)

FetchWorks(r, i) ==
  \/ FetchUnknown(r, i) \/ FetchBegin(r, i) \/ FetchSucceeds(r, i)
  \/ FetchFails(r, i) \/ WriteDeadQueue(r, i) \/ FetchReturnsFailure(r, i)

\* What the scheduler and the workers do for a run when nothing dies.
RunWorks(r) ==
  \/ StartRun(r) \/ GetFileIds(r) \/ FetchEnds(r) \/ Aggregate(r)
  \/ EmbedAndStore(r) \/ EmbedReturns(r) \/ EndRun(r)

UpdateWorks(r) == UpdateLoaded(r) \/ RemoveFromDeadQueue(r) \/ UpdateReturns(r)

RunDies(r) == TaskDies(r) \/ UpdateDies(r) \/ SummarizeDies(r)

Next ==
  \/ \E f \in Files : RegisterFile(f)
  \/ \E r \in Runs : \/ TriggerRun(r) \/ RunWorks(r) \/ UpdateWorks(r) \/ Summarize(r)
                     \/ RunDies(r)
                     \/ \E i \in Slots : FetchWorks(r, i) \/ FetchDies(r, i)

Spec == Init /\ [][Next]_vars

\* Airflow's scheduler keeps queueing what is due and a worker that has begun
\* a task instance goes on with it; nobody has to register or trigger.
Fairness ==
  \A r \in Runs : /\ WF_vars(RunWorks(r)) /\ WF_vars(UpdateWorks(r)) /\ WF_vars(Summarize(r))
                  /\ \A i \in Slots : WF_vars(FetchWorks(r, i))

FairSpec == Spec /\ Fairness

------------------------------------------------------------------------------
\* The rows, the stores and the state of every run have their types.
TypeOK ==
  /\ status \in [Files -> Statuses]
  /\ createdAt \in [Files -> Nat]
  /\ chunkCount \in [Files -> Nat]
  /\ errorMessage \in [Files -> BOOLEAN]
  /\ deadQueue \subseteq DeadQueueItem
  /\ chroma \subseteq Chunk
  /\ stage \in [Runs -> Stages]
  /\ tries \in [Runs -> 1 .. MaxTries]
  /\ conf \in [Runs -> FileIdLists]
  /\ ids \in [Runs -> FileIdLists]
  /\ fetch \in [Runs -> [Slots -> FetchStates]]
  /\ attempt \in [Runs -> [Slots -> 1 .. MaxTries]]
  /\ parsed \in [Runs -> [Slots -> SUBSET Chunk]]
  /\ update \in [Runs -> {"idle", "status", "clean", "done", "dead"}]
  /\ pos \in [Runs -> 1 .. MaxFileIds + 1]
  /\ summary \in [Runs -> {"idle", "running", "done", "dead"}]

Stored(f) == {c \in chroma : c.file = f}

\* A row that says LOADED is backed by the vector store: the file has chunks
\* there, at least the chunk_count the row reports (tests/e2e/test_ingestion.py
\* reads both), however runs of the same file interleave, fail and are retried.
LoadedBacked ==
  \A f \in Files : status[f] = "LOADED" => chunkCount[f] \in 1 .. Cardinality(Stored(f))

\* The instance (r, i) has set its file to PROCESSING and the run has yet to
\* settle it: it is at work, has died, or update_metadata has not come to it.
Unsettled(r, i) ==
  \/ fetch[r][i] \in {"processing", "dead"}
  \/ fetch[r][i] = "scheduled" /\ attempt[r][i] > 1
  \/ /\ fetch[r][i] = "parsed"
     /\ update[r] # "done"
     /\ i > pos[r] \/ (i = pos[r] /\ update[r] # "clean")

\* A file says PROCESSING only because of a run that is still to settle it or
\* that Airflow shows as failed: a run that succeeds leaves none of its files
\* PROCESSING, although its writes to file_records are spread over many tasks.
ProcessingHasOwner ==
  \A f \in Files : status[f] = "PROCESSING" =>
    \E r \in Runs : /\ stage[r] # "success"
                    /\ \E i \in DOMAIN ids[r] : ids[r][i] = f /\ Unsettled(r, i)

\* Retries of fetch_and_parse and of embed_and_store put no piece of a file
\* into ChromaDB twice: a mapped instance contributes each chunk_index once.
RetryDoesNotDuplicate ==
  \A c, d \in chroma :
    c.run = d.run /\ c.slot = d.slot /\ c.index = d.index => c = d

\* chunk_count is exactly the number of chunks that one of the ingestions of the
\* file has in ChromaDB: with retries, with batches of several files, with the
\* file named twice in the run, and also when runs of the file interleave.  It is
\* all that is there, as db/models.py:52 has it, while no other run has stored it.
CountIsOfOneRun ==
  \A f \in Files : status[f] = "LOADED" =>
    \E r \in Runs : LET batch == {c \in Stored(f) : c.run = r} IN
                    batch # {} /\ chunkCount[f] = Cardinality(batch)

\* No run is at work, and none has failed.
AtRest == \A r \in Runs : stage[r] \in {"none", "queued", "success"}
Entries(f) == {e \in deadQueue : e.file = f}

\* At rest, "failed files are recorded in the dead_queue table"
\* (ingestion_dag.py:55), also when tasks died and were retried before.
FailedIsDeadLettered ==
  AtRest => \A f \in Files : status[f] = "FAILED" => Entries(f) # {}

\* At rest, a file that was ingested after all is no longer listed: whichever
\* run or try wrote the entry, update_metadata cleaned it up (line 379).
LoadedIsNotDeadLettered ==
  AtRest => \A f \in Files : status[f] = "LOADED" => Entries(f) = {}

\* What is left of a run: of its way through the stages, of each mapped instance
\* and of its leaves, each a pair that counts first the tasks or tries to come.
StagesToGo(s) ==
  CASE s = "none" -> 7 [] s = "queued" -> 6 [] s = "select" -> 5 [] s = "fetch" -> 4
    [] s = "aggregate" -> 3 [] s \in {"embed", "stored"} -> 2 [] s = "publish" -> 1
    [] s \in Ended -> 0
StageLeft(r) ==
  <<StagesToGo(stage[r]),
    CASE stage[r] \in {"select", "aggregate", "stored"} -> 2 * (MaxTries - tries[r])
      [] stage[r] = "embed" -> 2 * (MaxTries - tries[r]) + 1
      [] stage[r] \notin {"select", "aggregate", "embed", "stored"} -> 0>>
FetchLeft(r, i) ==
  IF stage[r] \in {"none", "queued", "select"} THEN <<MaxTries, 0>>
  ELSE IF fetch[r][i] \notin FetchOpen THEN <<0, 0>>
  ELSE <<MaxTries - attempt[r][i],
         CASE fetch[r][i] = "scheduled" -> 4 [] fetch[r][i] = "processing" -> 3
           [] fetch[r][i] = "failing" -> 2 [] fetch[r][i] = "recorded" -> 1>>
UpdateLeft(r) ==
  CASE update[r] = "idle" -> <<MaxTries, 0>>
    [] update[r] = "status" -> <<MaxTries - tries[r], 2 * (MaxFileIds + 1 - pos[r]) + 1>>
    [] update[r] = "clean" -> <<MaxTries - tries[r], 2 * (MaxFileIds + 1 - pos[r])>>
    [] update[r] \in {"done", "dead"} -> <<0, 0>>
SummaryLeft(r) ==
  <<0, CASE summary[r] = "idle" -> 2 [] summary[r] = "running" -> 1
         [] summary[r] \in {"done", "dead"} -> 0>>

Less(a, b) == a[1] < b[1] \/ (a[1] = b[1] /\ a[2] < b[2])
AtMost(a, b) == a = b \/ Less(a, b)

RunState(r) ==
  <<stage[r], tries[r], conf[r], ids[r], fetch[r], attempt[r], parsed[r],
    update[r], pos[r], summary[r]>>

\* Something that is left of the run gets less, and nothing more.
Nearer(r) ==
  /\ AtMost(StageLeft(r)', StageLeft(r)) /\ AtMost(UpdateLeft(r)', UpdateLeft(r))
  /\ AtMost(SummaryLeft(r)', SummaryLeft(r))
  /\ \A i \in Slots : AtMost(FetchLeft(r, i)', FetchLeft(r, i))
  /\ \/ Less(StageLeft(r)', StageLeft(r)) \/ Less(UpdateLeft(r)', UpdateLeft(r))
     \/ Less(SummaryLeft(r)', SummaryLeft(r))
     \/ \E i \in Slots : Less(FetchLeft(r, i)', FetchLeft(r, i))

\* No run goes round in circles: whatever dies and is retried, and whatever
\* other runs do, a step that changes a run takes it nearer to its end.
RunsAdvance == [][\A r \in Runs : RunState(r)' # RunState(r) => Nearer(r)]_vars

\* A file that was parsed, and whose run then failed without loading it, is in
\* the dead queue, which is written "when file ingestion fails at any stage"
\* (task_dead_queue.py:14).
AnyStageIsDeadLettered ==
  \A r \in Runs : stage[r] = "failed" =>
    \A i \in SuccessfulSlots(r) : status[ids[r][i]] # "LOADED" => Entries(ids[r][i]) # {}

\* Every status row behaves as its readers may assume (FileLifecycle), the
\* chunks of a file in ChromaDB counted.
Lifecycle == INSTANCE FileLifecycle WITH
               stored <- [f \in Files |-> Cardinality(Stored(f))]
LifecycleSpec == Lifecycle!Spec

\* Every triggered run ends, whatever dies on the way: the retries run out.
RunEnds == \A r \in Runs : stage[r] # "none" ~> stage[r] \in Ended

\* No file stays PROCESSING for ever, unless a run failed.
ProcessingSettles ==
  \A f \in Files : status[f] = "PROCESSING"
    ~> (status[f] # "PROCESSING" \/ \E r \in Runs : stage[r] = "failed")
==============================================================================
