--------------------------- MODULE IngestionProofs ---------------------------
(***************************************************************************)
(* Theorems about Ingestion, for any number of files, runs, tries and      *)
(* chunks, and whether or not tasks die and the dead queue fails.          *)
(***************************************************************************)
EXTENDS Ingestion, FiniteSetTheorems, TLAPS

------------------------------------------------------------------------------
(* Facts about the constants.                                              *)

LEMMA EmptyList == <<>> \in FileIdLists /\ DOMAIN <<>> = {}
<1>1. <<>> \in [1 .. 0 -> FileIds]
  OBVIOUS
<1>2. 0 \in 0 .. MaxFileIds
  BY BoundsAssumption
<1>. QED
  BY <1>1, <1>2 DEF FileIdLists

LEMMA UnknownList == <<UnknownId>> \in FileIdLists
<1>1. <<UnknownId>> \in [1 .. 1 -> FileIds]
  BY DEF FileIds
<1>2. 1 \in 0 .. MaxFileIds
  BY BoundsAssumption
<1>. QED
  BY <1>1, <1>2 DEF FileIdLists

LEMMA ListDomain ==
  ASSUME NEW list \in FileIdLists
  PROVE  DOMAIN list \subseteq Slots /\ \A i \in DOMAIN list : list[i] \in FileIds
<1>1. PICK n \in 0 .. MaxFileIds : list \in [1 .. n -> FileIds]
  BY DEF FileIdLists
<1>. QED
  BY <1>1, BoundsAssumption DEF Slots

\* A chunk is a quintuple of elements of finite sets.
LEMMA ChunkFinite == IsFiniteSet(Chunk)
<1>. DEFINE T == 1 .. MaxTries
            X == 0 .. MaxChunks - 1
            P == Files \X (Runs \X (Slots \X (T \X X)))
            mk == [p \in P |-> [file |-> p[1], run |-> p[2][1], slot |-> p[2][2][1],
                                try |-> p[2][2][2][1], index |-> p[2][2][2][2]]]
<1>1. IsFiniteSet(Slots) /\ IsFiniteSet(T) /\ IsFiniteSet(X)
  BY FS_Interval, BoundsAssumption DEF Slots
<1>2. IsFiniteSet(T \X X)
  BY <1>1, FS_Product
<1>3. IsFiniteSet(Slots \X (T \X X))
  BY <1>1, <1>2, FS_Product
<1>4. IsFiniteSet(Runs \X (Slots \X (T \X X)))
  BY <1>3, FS_Product, RunsAssumption
<1>5. IsFiniteSet(P)
  BY <1>4, FS_Product, FilesAssumption
<1>6. mk \in Surjection(P, Chunk)
  <2>1. mk \in [P -> Chunk]
    BY DEF Chunk
  <2>2. ASSUME NEW c \in Chunk
        PROVE  \E p \in P : mk[p] = c
    <3>. DEFINE q == <<c.file, <<c.run, <<c.slot, <<c.try, c.index>>>>>>>>
    <3>1. q \in P
      BY DEF Chunk
    <3>2. mk[q] = [file |-> c.file, run |-> c.run, slot |-> c.slot, try |-> c.try,
                   index |-> c.index]
      BY <3>1
    <3>3. mk[q] = c
      BY <3>2 DEF Chunk
    <3>. QED
      BY <3>1, <3>3
  <2>. QED
    BY <2>1, <2>2 DEF Surjection
<1>. QED
  BY <1>5, <1>6, FS_Surjection

------------------------------------------------------------------------------
(* The inductive invariant.  It ties what the stores hold to where each run *)
(* stands.                                                                  *)

Before == {"none", "queued", "select"}
Batch == {"aggregate", "embed", "stored", "publish", "success"}
Begun(f) == f \in Files /\ status[f] \notin {"UNREGISTERED", "PENDING"}

\* A run has instances for its ids only, none before it has ids, and all of
\* them are over, none of them dead, once the batch begins.
SlotsOK ==
  \A r \in Runs :
    /\ stage[r] \in Before => ids[r] = <<>>
    /\ \A i \in Slots : fetch[r][i] # "idle" => i \in DOMAIN ids[r]
    /\ stage[r] \in Batch => \A i \in Slots : fetch[r][i] \in {"idle", "parsed", "failed"}

\* An instance past FetchBegin works on a registered file that left PENDING.
WorkingOK ==
  \A r \in Runs, i \in Slots :
    fetch[r][i] \in {"processing", "failing", "recorded", "parsed"} => Begun(ids[r][i])

\* What an instance returned: some chunks of its file, made by its last try.
ParsedOK ==
  \A r \in Runs, i \in Slots : fetch[r][i] = "parsed" =>
    /\ parsed[r][i] # {}
    /\ \A c \in parsed[r][i] : /\ c.file = ids[r][i] /\ c.run = r
                               /\ c.slot = i /\ c.try = attempt[r][i]

\* ChromaDB holds the batches of the runs that are past embed_and_store, and
\* nothing that no run returned.
StoredOK ==
  /\ \A r \in Runs : stage[r] \in {"stored", "publish", "success"} => AllChunks(r) \subseteq chroma
  /\ \A c \in chroma : /\ stage[c.run] \in Batch \cup {"failed"}
                       /\ fetch[c.run][c.slot] = "parsed"
                       /\ c \in parsed[c.run][c.slot]

\* update_metadata runs in the publish stage, over the successful files; a run
\* with files succeeds only after it.
UpdateOK ==
  \A r \in Runs :
    /\ stage[r] \in Before \cup {"fetch", "aggregate", "embed", "stored"}
         => update[r] = "idle" /\ pos[r] = 1
    /\ update[r] = "clean" => pos[r] \in SuccessfulSlots(r)
    /\ stage[r] = "success" => ids[r] = <<>> \/ update[r] = "done"

\* The count of a LOADED file is that of some run's chunks of it, all stored.
CountOK ==
  \A f \in Files : status[f] = "LOADED" =>
    \E r \in Runs : /\ FileChunks(r, f) # {}
                    /\ FileChunks(r, f) \subseteq chroma
                    /\ chunkCount[f] = Cardinality(FileChunks(r, f))

IInv ==
  /\ TypeOK
  /\ SlotsOK
  /\ WorkingOK
  /\ ParsedOK
  /\ StoredOK
  /\ UpdateOK
  /\ CountOK
  /\ ProcessingHasOwner

------------------------------------------------------------------------------
(* Type correctness.                                                       *)

LEMMA InitIInv == Init => IInv
<1>. SUFFICES ASSUME Init
              PROVE  IInv
  OBVIOUS
<1>1. TypeOK
  BY EmptyList, BoundsAssumption DEF Init, TypeOK, Statuses, Stages, FetchStates, Slots
<1>2. SlotsOK /\ WorkingOK /\ ParsedOK /\ UpdateOK
  BY DEF Init, SlotsOK, WorkingOK, ParsedOK, UpdateOK, Before, Batch
<1>3. StoredOK /\ CountOK /\ ProcessingHasOwner
  BY DEF Init, StoredOK, CountOK, ProcessingHasOwner
<1>. QED
  BY <1>1, <1>2, <1>3 DEF IInv

\* The steps of one mapped instance keep the types.
LEMMA TypeFetch ==
  ASSUME TypeOK, WorkingOK, NEW r \in Runs, NEW i \in Slots,
         FetchWorks(r, i) \/ FetchDies(r, i)
  PROVE  TypeOK'
<1>. USE DEF TypeOK, FetchStep, SetStatus, leaves
<1>1. ASSUME NEW from, NEW to, to \in FetchStates, FetchStep(r, i, from, to)
      PROVE  /\ fetch' \in [Runs -> [Slots -> FetchStates]]
             /\ fetch[r][i] = from
  BY <1>1
<1>2. Registered(ids[r][i]) => ids[r][i] \in Files
  BY DEF Registered
<1>3. fetch[r][i] \in {"processing", "failing"} => ids[r][i] \in Files
  BY DEF WorkingOK, Begun
<1>4. CASE FetchUnknown(r, i)
  BY <1>1, <1>4 DEF FetchUnknown, FetchStates
<1>5. CASE FetchBegin(r, i)
  BY <1>1, <1>2, <1>5 DEF FetchBegin, FetchStates, FetchOpen, Statuses
<1>6. CASE FetchSucceeds(r, i)
  <2>1. ids[r][i] \in Files
    BY <1>3, <1>6 DEF FetchSucceeds
  <2>2. ASSUME NEW n \in 1 .. MaxChunks
        PROVE  NewChunks(r, i, n) \in SUBSET Chunk
    BY <2>1, BoundsAssumption DEF NewChunks, Chunk
  <2>3. parsed' \in [Runs -> [Slots -> SUBSET Chunk]]
    BY <2>2, <1>6 DEF FetchSucceeds
  <2>. QED
    BY <1>1, <1>6, <2>3 DEF FetchSucceeds, FetchStates
<1>7. CASE FetchFails(r, i)
  BY <1>1, <1>3, <1>7 DEF FetchFails, FetchStates, FetchOpen, Statuses
<1>8. CASE WriteDeadQueue(r, i)
  <2>1. ids[r][i] \in Files
    BY <1>3, <1>8 DEF WriteDeadQueue
  <2>2. deadQueue' \subseteq DeadQueueItem
    BY <2>1, <1>8 DEF WriteDeadQueue, DeadQueueItem
  <2>. QED
    BY <1>1, <1>8, <2>2 DEF WriteDeadQueue, FetchStates, FetchOpen
<1>9. CASE FetchReturnsFailure(r, i)
  BY <1>1, <1>9 DEF FetchReturnsFailure, FetchStates
<1>10. CASE FetchDies(r, i)
  <2>1. fetch' \in [Runs -> [Slots -> FetchStates]]
    BY <1>1, <1>10 DEF FetchDies, FetchStates, FetchOpen
  <2>2. attempt' \in [Runs -> [Slots -> 1 .. MaxTries]]
    <3>1. CASE attempt[r][i] < MaxTries
      <4>1. attempt[r][i] + 1 \in 1 .. MaxTries
        BY <3>1, BoundsAssumption
      <4>2. attempt' = [attempt EXCEPT ![r][i] = @ + 1]
        BY <3>1, <1>10 DEF FetchDies
      <4>. QED
        BY <4>1, <4>2
    <3>2. CASE ~(attempt[r][i] < MaxTries)
      BY <3>2, <1>10 DEF FetchDies
    <3>. QED
      BY <3>1, <3>2
  <2>. QED
    BY <1>10, <2>1, <2>2 DEF FetchDies
<1>. QED
  BY <1>4, <1>5, <1>6, <1>7, <1>8, <1>9, <1>10 DEF FetchWorks

\* The other steps of a run keep the types.
LEMMA TypeRun ==
  ASSUME TypeOK, UpdateOK, NEW r \in Runs,
         RunWorks(r) \/ UpdateWorks(r) \/ Summarize(r) \/ RunDies(r)
  PROVE  TypeOK'
<1>. USE DEF TypeOK, records, mapped, leaves
<1>1. CASE StartRun(r)
  BY <1>1 DEF StartRun, Stages, Active
<1>2. CASE GetFileIds(r)
  BY <1>2, BoundsAssumption DEF GetFileIds, Stages, Active, Ended, FetchStates, FetchOpen
<1>3. CASE FetchEnds(r)
  BY <1>3 DEF FetchEnds, Stages, Active, Ended
<1>4. CASE Aggregate(r)
  BY <1>4, BoundsAssumption DEF Aggregate, Stages, Active
<1>5. CASE EmbedAndStore(r)
  <2>1. AllChunks(r) \subseteq Chunk
    BY ListDomain DEF AllChunks, SuccessfulSlots
  <2>. QED
    BY <1>5, <2>1 DEF EmbedAndStore, Stages, Active
<1>6. CASE EmbedReturns(r)
  BY <1>6, BoundsAssumption DEF EmbedReturns, Stages, Active
<1>7. CASE EndRun(r)
  BY <1>7 DEF EndRun, Stages, Ended
<1>8. CASE UpdateLoaded(r)
  <2>1. PICK i \in Remaining(r) :
          /\ SetStatus(ids[r][i], "LOADED")
          /\ chunkCount' = [chunkCount EXCEPT ![ids[r][i]] = Cardinality(FileChunks(r, ids[r][i]))]
          /\ pos' = [pos EXCEPT ![r] = i]
    BY <1>8 DEF UpdateLoaded
  <2>2. i \in Slots
    BY ListDomain DEF Remaining, SuccessfulSlots
  <2>3. FileChunks(r, ids[r][i]) \subseteq Chunk
    BY ListDomain DEF FileChunks, AllChunks, SuccessfulSlots
  <2>4. Cardinality(FileChunks(r, ids[r][i])) \in Nat
    BY <2>3, ChunkFinite, FS_Subset, FS_CardinalityType
  <2>5. status' \in [Files -> Statuses] /\ errorMessage' \in [Files -> BOOLEAN]
    BY <2>1 DEF SetStatus, Statuses
  <2>6. chunkCount' \in [Files -> Nat]
    BY <2>1, <2>4
  <2>7. pos' \in [Runs -> 1 .. MaxFileIds + 1]
    BY <2>1, <2>2, BoundsAssumption DEF Slots
  <2>. QED
    BY <1>8, <2>5, <2>6, <2>7 DEF UpdateLoaded
<1>9. CASE RemoveFromDeadQueue(r)
  <2>1. pos[r] \in Slots
    BY <1>9, ListDomain DEF RemoveFromDeadQueue, UpdateOK, SuccessfulSlots
  <2>2. pos' \in [Runs -> 1 .. MaxFileIds + 1]
    BY <1>9, <2>1, BoundsAssumption DEF RemoveFromDeadQueue, Slots
  <2>. QED
    BY <1>9, <2>2 DEF RemoveFromDeadQueue
<1>10. CASE UpdateReturns(r)
  BY <1>10 DEF UpdateReturns
<1>11. CASE Summarize(r)
  BY <1>11 DEF Summarize
<1>12. CASE TaskDies(r)
  <2>1. stage' \in [Runs -> Stages]
    BY <1>12 DEF TaskDies, Stages, Active, Ended
  <2>2. tries' \in [Runs -> 1 .. MaxTries]
    <3>1. CASE tries[r] < MaxTries
      <4>1. tries[r] + 1 \in 1 .. MaxTries
        BY <3>1, BoundsAssumption
      <4>. QED
        BY <3>1, <4>1, <1>12 DEF TaskDies
    <3>2. CASE ~(tries[r] < MaxTries)
      BY <3>2, <1>12 DEF TaskDies
    <3>. QED
      BY <3>1, <3>2
  <2>. QED
    BY <1>12, <2>1, <2>2 DEF TaskDies
<1>13. CASE UpdateDies(r)
  <2>1. CASE tries[r] < MaxTries
    <3>1. tries[r] + 1 \in 1 .. MaxTries /\ 1 \in 1 .. MaxFileIds + 1
      BY <2>1, BoundsAssumption
    <3>. QED
      BY <2>1, <3>1, <1>13 DEF UpdateDies
  <2>2. CASE ~(tries[r] < MaxTries)
    BY <2>2, <1>13 DEF UpdateDies
  <2>. QED
    BY <2>1, <2>2
<1>14. CASE SummarizeDies(r)
  BY <1>14 DEF SummarizeDies
<1>. QED
  BY <1>1, <1>2, <1>3, <1>4, <1>5, <1>6, <1>7, <1>8, <1>9, <1>10, <1>11, <1>12, <1>13, <1>14
  DEF RunWorks, UpdateWorks, RunDies

\* So do registrations and triggers.
LEMMA TypeEnvironment ==
  ASSUME TypeOK, (\E f \in Files : RegisterFile(f)) \/ (\E r \in Runs : TriggerRun(r))
  PROVE  TypeOK'
<1>. USE DEF TypeOK, records, mapped, leaves
<1>1. ASSUME NEW f \in Files, RegisterFile(f)
      PROVE  TypeOK'
  <2>. DEFINE R == {g \in Files : Registered(g)}
  <2>1. Cardinality(R) \in Nat
    BY FS_Subset, FS_CardinalityType, FilesAssumption
  <2>2. createdAt' \in [Files -> Nat]
    BY <1>1, <2>1 DEF RegisterFile
  <2>. QED
    BY <1>1, <2>2 DEF RegisterFile, Statuses
<1>2. ASSUME NEW r \in Runs, NEW list \in FileIdLists, Trigger(r, list)
      PROVE  TypeOK'
  BY <1>2 DEF Trigger, Stages
<1>3. ASSUME NEW r \in Runs, TriggerRun(r)
      PROVE  \E list \in FileIdLists : Trigger(r, list)
  BY <1>3, EmptyList, UnknownList DEF TriggerRun, LoadFile, IngestPending, TriggerByHand
<1>. QED
  BY <1>1, <1>2, <1>3

------------------------------------------------------------------------------
(* Where the runs stand: SlotsOK, WorkingOK and ParsedOK.                  *)

\* What every step of a mapped instance does to Airflow's view of it.
LEMMA FetchEffect ==
  ASSUME TypeOK, NEW r \in Runs, NEW i \in Slots, FetchWorks(r, i) \/ FetchDies(r, i)
  PROVE  /\ stage[r] = "fetch" /\ fetch[r][i] \in FetchOpen
         /\ \E to \in FetchStates \ {"idle"} : fetch' = [fetch EXCEPT ![r][i] = to]
         /\ UNCHANGED <<createdAt, chunkCount, chroma, stage, tries, conf, ids, update, pos,
                        summary>>
  BY DEF FetchWorks, FetchUnknown, FetchBegin, FetchSucceeds, FetchFails, WriteDeadQueue,
         FetchReturnsFailure, FetchDies, FetchStep, FetchStates, FetchOpen, leaves

\* The steps that leave the mapped instances as they are.
LEMMA OtherEffect ==
  ASSUME NEW r \in Runs,
         \/ TriggerRun(r) \/ UpdateWorks(r) \/ Summarize(r) \/ RunDies(r)
         \/ StartRun(r) \/ FetchEnds(r) \/ Aggregate(r) \/ EmbedAndStore(r) \/ EmbedReturns(r)
         \/ EndRun(r)
  PROVE  UNCHANGED <<ids, fetch, attempt, parsed>>
  BY DEF TriggerRun, LoadFile, IngestPending, TriggerByHand, Trigger, UpdateWorks,
         UpdateLoaded, RemoveFromDeadQueue, UpdateReturns, Summarize, RunDies, TaskDies,
         UpdateDies, SummarizeDies, StartRun, FetchEnds, Aggregate, EmbedAndStore,
         EmbedReturns, EndRun, mapped

LEMMA SlotsStep ==
  ASSUME IInv, [Next]_vars
  PROVE  SlotsOK'
<1>. USE DEF IInv, SlotsOK, Before, Batch
<1>1. ASSUME NEW f \in Files, RegisterFile(f)
      PROVE  SlotsOK'
  BY <1>1 DEF RegisterFile, mapped
<1>2. ASSUME NEW r \in Runs, NEW i \in Slots, FetchWorks(r, i) \/ FetchDies(r, i)
      PROVE  SlotsOK'
  <2>1. stage[r] = "fetch" /\ fetch[r][i] # "idle" /\ UNCHANGED <<stage, ids>>
    BY <1>2, FetchEffect DEF FetchOpen
  <2>2. PICK to : fetch' = [fetch EXCEPT ![r][i] = to]
    BY <1>2, FetchEffect
  <2>. QED
    BY <2>1, <2>2 DEF TypeOK
<1>3. ASSUME NEW r \in Runs, GetFileIds(r)
      PROVE  SlotsOK'
  <2>1. PICK list \in FileIdLists :
          /\ ids' = [ids EXCEPT ![r] = list]
          /\ stage' = [stage EXCEPT ![r] = IF list = <<>> THEN "success" ELSE "fetch"]
          /\ fetch' = [fetch EXCEPT ![r] =
                         [i \in Slots |-> IF i \in DOMAIN list THEN "scheduled" ELSE "idle"]]
    BY <1>3 DEF GetFileIds
  <2>2. CASE list = <<>>
    BY <2>1, <2>2, EmptyList DEF TypeOK
  <2>3. CASE list # <<>>
    BY <2>1, <2>3 DEF TypeOK
  <2>. QED
    BY <2>2, <2>3
<1>4. ASSUME NEW r \in Runs, TriggerRun(r)
      PROVE  SlotsOK'
  BY <1>4, OtherEffect DEF TriggerRun, LoadFile, IngestPending, TriggerByHand, Trigger, TypeOK
<1>5. ASSUME NEW r \in Runs, StartRun(r)
      PROVE  SlotsOK'
  BY <1>5, OtherEffect DEF StartRun, TypeOK
<1>6. ASSUME NEW r \in Runs, FetchEnds(r)
      PROVE  SlotsOK'
  <2>1. UNCHANGED <<ids, fetch>>
    BY <1>6, OtherEffect
  <2>2. CASE \E i \in DOMAIN ids[r] : fetch[r][i] = "dead"
    BY <1>6, <2>1, <2>2 DEF FetchEnds, TypeOK
  <2>3. CASE \A i \in DOMAIN ids[r] : fetch[r][i] # "dead"
    <3>1. \A i \in Slots : fetch[r][i] \in {"idle", "parsed", "failed"}
      BY <1>6, <2>3 DEF FetchEnds, TypeOK, FetchStates
    <3>2. stage' = [stage EXCEPT ![r] = "aggregate"]
      BY <1>6, <2>3 DEF FetchEnds
    <3>. QED
      BY <2>1, <3>1, <3>2 DEF TypeOK
  <2>. QED
    BY <2>2, <2>3
<1>7. ASSUME NEW r \in Runs,
             Aggregate(r) \/ EmbedAndStore(r) \/ EmbedReturns(r) \/ EndRun(r) \/ TaskDies(r)
      PROVE  SlotsOK'
  <2>1. UNCHANGED <<ids, fetch>>
    BY <1>7, OtherEffect DEF RunDies
  <2>2. /\ stage[r] \in {"select", "aggregate", "embed", "stored", "publish"}
        /\ \/ stage' = [stage EXCEPT ![r] = "failed"]
           \/ stage[r] = "select" /\ stage' = stage
           \/ /\ stage[r] \in Batch
              /\ \E to \in Batch : stage' = [stage EXCEPT ![r] = to]
    BY <1>7 DEF Aggregate, EmbedAndStore, EmbedReturns, EndRun, TaskDies, TypeOK
  <2>. QED
    BY <2>1, <2>2 DEF TypeOK
<1>8. ASSUME NEW r \in Runs, UpdateWorks(r) \/ Summarize(r) \/ UpdateDies(r) \/ SummarizeDies(r)
      PROVE  SlotsOK'
  <2>1. UNCHANGED <<ids, fetch>>
    BY <1>8, OtherEffect DEF RunDies
  <2>2. UNCHANGED stage
    BY <1>8 DEF UpdateWorks, UpdateLoaded, RemoveFromDeadQueue, UpdateReturns, Summarize,
                UpdateDies, SummarizeDies
  <2>. QED
    BY <2>1, <2>2
<1>9. CASE UNCHANGED vars
  BY <1>9 DEF vars, mapped
<1>. QED
  BY <1>1, <1>2, <1>3, <1>4, <1>5, <1>6, <1>7, <1>8, <1>9 DEF Next, RunWorks, RunDies

\* A file never goes back to PENDING: whoever writes its status.
LEMMA BegunStays ==
  ASSUME TypeOK, [Next]_vars, NEW f \in Files, Begun(f)
  PROVE  Begun(f)'
<1>. USE DEF Begun, TypeOK, SetStatus
<1>1. ASSUME NEW g \in Files, RegisterFile(g)
      PROVE  Begun(f)'
  BY <1>1 DEF RegisterFile, Registered
<1>2. ASSUME NEW r \in Runs, NEW i \in Slots, FetchWorks(r, i) \/ FetchDies(r, i)
      PROVE  Begun(f)'
  BY <1>2 DEF FetchWorks, FetchUnknown, FetchBegin, FetchSucceeds, FetchFails, WriteDeadQueue,
              FetchReturnsFailure, FetchDies
<1>3. ASSUME NEW r \in Runs, RunWorks(r)
      PROVE  Begun(f)'
  BY <1>3 DEF RunWorks, StartRun, GetFileIds, FetchEnds, Aggregate, EmbedAndStore,
              EmbedReturns, EndRun, records
<1>4. ASSUME NEW r \in Runs, UpdateWorks(r) \/ Summarize(r) \/ RunDies(r)
      PROVE  Begun(f)'
  BY <1>4 DEF UpdateWorks, UpdateLoaded, RemoveFromDeadQueue, UpdateReturns, Summarize, RunDies,
              TaskDies, UpdateDies, SummarizeDies, records
<1>5. ASSUME NEW r \in Runs, TriggerRun(r)
      PROVE  Begun(f)'
  BY <1>5 DEF TriggerRun, LoadFile, IngestPending, TriggerByHand, Trigger, records
<1>6. CASE UNCHANGED vars
  BY <1>6 DEF vars, records
<1>. QED
  BY <1>1, <1>2, <1>3, <1>4, <1>5, <1>6 DEF Next

LEMMA WorkingStep ==
  ASSUME IInv, [Next]_vars
  PROVE  WorkingOK'
<1>. USE DEF IInv
<1>1. ASSUME UNCHANGED <<ids, fetch>>
      PROVE  WorkingOK'
  BY <1>1, BegunStays DEF WorkingOK, Begun
<1>2. ASSUME NEW f \in Files, RegisterFile(f)
      PROVE  WorkingOK'
  BY <1>1, <1>2 DEF RegisterFile, mapped
<1>3. ASSUME NEW r \in Runs, NEW i \in Slots, FetchWorks(r, i) \/ FetchDies(r, i)
      PROVE  WorkingOK'
  <2>. DEFINE Working == {"processing", "failing", "recorded", "parsed"}
  <2>1. UNCHANGED ids
    BY <1>3, FetchEffect
  <2>2. PICK to : fetch' = [fetch EXCEPT ![r][i] = to]
    BY <1>3, FetchEffect
  <2>3. ASSUME to \in Working
        PROVE  Begun(ids[r][i])'
    <3>1. CASE FetchBegin(r, i)
      BY <3>1, <2>1 DEF FetchBegin, SetStatus, Registered, Begun, TypeOK
    <3>2. CASE ~FetchBegin(r, i)
      <4>1. fetch[r][i] \in Working
        BY <1>3, <2>2, <2>3, <3>2
        DEF FetchWorks, FetchUnknown, FetchSucceeds, FetchFails, WriteDeadQueue,
            FetchReturnsFailure, FetchDies, FetchStep, TypeOK
      <4>. QED
        BY <4>1, <2>1, BegunStays DEF WorkingOK, Begun
    <3>. QED
      BY <3>1, <3>2
  <2>. QED
    BY <2>1, <2>2, <2>3, BegunStays DEF WorkingOK, TypeOK, Begun
<1>4. ASSUME NEW r \in Runs, GetFileIds(r)
      PROVE  WorkingOK'
  <2>1. PICK list \in FileIdLists :
          /\ ids' = [ids EXCEPT ![r] = list]
          /\ fetch' = [fetch EXCEPT ![r] =
                         [i \in Slots |-> IF i \in DOMAIN list THEN "scheduled" ELSE "idle"]]
    BY <1>4 DEF GetFileIds
  <2>. QED
    BY <2>1, BegunStays DEF WorkingOK, TypeOK, Begun
<1>5. CASE UNCHANGED vars
  BY <1>1, <1>5 DEF vars, mapped
<1>. QED
  BY <1>1, <1>2, <1>3, <1>4, <1>5, OtherEffect DEF Next, RunWorks

LEMMA ParsedStep ==
  ASSUME IInv, [Next]_vars
  PROVE  ParsedOK'
<1>. USE DEF IInv
<1>1. ASSUME UNCHANGED <<ids, fetch, attempt, parsed>>
      PROVE  ParsedOK'
  BY <1>1 DEF ParsedOK
<1>2. ASSUME NEW f \in Files, RegisterFile(f)
      PROVE  ParsedOK'
  BY <1>1, <1>2 DEF RegisterFile, mapped
<1>3. ASSUME NEW r \in Runs, NEW i \in Slots, FetchWorks(r, i) \/ FetchDies(r, i)
      PROVE  ParsedOK'
  <2>1. UNCHANGED ids /\ fetch[r][i] # "parsed"
    BY <1>3, FetchEffect DEF FetchOpen
  <2>2. PICK to : fetch' = [fetch EXCEPT ![r][i] = to]
    BY <1>3, FetchEffect
  <2>3. CASE FetchSucceeds(r, i)
    <3>1. PICK n \in 1 .. MaxChunks : parsed' = [parsed EXCEPT ![r][i] = NewChunks(r, i, n)]
      BY <2>3 DEF FetchSucceeds
    <3>2. /\ NewChunks(r, i, n) # {}
          /\ \A c \in NewChunks(r, i, n) : /\ c.file = ids[r][i] /\ c.run = r
                                           /\ c.slot = i /\ c.try = attempt[r][i]
      <4>1. 0 \in 0 .. n - 1
        BY BoundsAssumption
      <4>2. [file |-> ids[r][i], run |-> r, slot |-> i, try |-> attempt[r][i], index |-> 0]
              \in NewChunks(r, i, n)
        BY <4>1 DEF NewChunks
      <4>3. \A c \in NewChunks(r, i, n) : /\ c.file = ids[r][i] /\ c.run = r
                                          /\ c.slot = i /\ c.try = attempt[r][i]
        BY DEF NewChunks
      <4>. QED
        BY <4>2, <4>3
    <3>3. attempt' = attempt
      BY <2>3 DEF FetchSucceeds
    <3>. QED
      BY <2>1, <2>2, <3>1, <3>2, <3>3 DEF ParsedOK, TypeOK
  <2>4. CASE ~FetchSucceeds(r, i)
    <3>1. to # "parsed" /\ UNCHANGED parsed
      BY <1>3, <2>2, <2>4
      DEF FetchWorks, FetchUnknown, FetchBegin, FetchFails, WriteDeadQueue,
          FetchReturnsFailure, FetchDies, FetchStep, TypeOK
    <3>2. \A q \in Runs, j \in Slots : <<q, j>> # <<r, i>> => attempt'[q][j] = attempt[q][j]
      BY <1>3
      DEF FetchWorks, FetchUnknown, FetchBegin, FetchSucceeds, FetchFails, WriteDeadQueue,
          FetchReturnsFailure, FetchDies, TypeOK
    <3>. QED
      BY <2>1, <2>2, <3>1, <3>2 DEF ParsedOK, TypeOK
  <2>. QED
    BY <2>3, <2>4
<1>4. ASSUME NEW r \in Runs, GetFileIds(r)
      PROVE  ParsedOK'
  <2>1. PICK list \in FileIdLists :
          /\ ids' = [ids EXCEPT ![r] = list]
          /\ fetch' = [fetch EXCEPT ![r] =
                         [i \in Slots |-> IF i \in DOMAIN list THEN "scheduled" ELSE "idle"]]
    BY <1>4 DEF GetFileIds
  <2>2. UNCHANGED <<attempt, parsed>>
    BY <1>4 DEF GetFileIds
  <2>. QED
    BY <2>1, <2>2 DEF ParsedOK, TypeOK
<1>5. CASE UNCHANGED vars
  BY <1>1, <1>5 DEF vars, mapped
<1>. QED
  BY <1>1, <1>2, <1>3, <1>4, <1>5, OtherEffect DEF Next, RunWorks

------------------------------------------------------------------------------
(* What the stores hold: UpdateOK, StoredOK and CountOK.                   *)

LEMMA UpdateStep ==
  ASSUME IInv, [Next]_vars
  PROVE  UpdateOK'
<1>. USE DEF IInv, UpdateOK, Before
<1>1. ASSUME UNCHANGED <<ids, fetch, stage, update, pos>>
      PROVE  UpdateOK'
  BY <1>1 DEF SuccessfulSlots
<1>2. ASSUME NEW f \in Files, RegisterFile(f)
      PROVE  UpdateOK'
  BY <1>1, <1>2 DEF RegisterFile, mapped, leaves
<1>3. ASSUME NEW r \in Runs, NEW i \in Slots, FetchWorks(r, i) \/ FetchDies(r, i)
      PROVE  UpdateOK'
  <2>1. stage[r] = "fetch" /\ UNCHANGED <<ids, stage, update, pos>>
    BY <1>3, FetchEffect
  <2>2. PICK to : fetch' = [fetch EXCEPT ![r][i] = to]
    BY <1>3, FetchEffect
  <2>3. \A q \in Runs \ {r} : fetch'[q] = fetch[q]
    BY <2>2 DEF TypeOK
  <2>. QED
    BY <2>1, <2>3 DEF SuccessfulSlots
<1>4. ASSUME NEW r \in Runs, GetFileIds(r)
      PROVE  UpdateOK'
  <2>1. PICK list \in FileIdLists :
          /\ ids' = [ids EXCEPT ![r] = list]
          /\ stage' = [stage EXCEPT ![r] = IF list = <<>> THEN "success" ELSE "fetch"]
    BY <1>4 DEF GetFileIds
  <2>2. /\ stage[r] = "select" /\ UNCHANGED <<update, pos>>
        /\ \A q \in Runs \ {r} : fetch'[q] = fetch[q]
    BY <1>4 DEF GetFileIds, leaves, TypeOK
  <2>. QED
    BY <2>1, <2>2 DEF SuccessfulSlots, TypeOK
<1>5. ASSUME NEW r \in Runs, TriggerRun(r) \/ StartRun(r) \/ FetchEnds(r) \/ Aggregate(r)
                             \/ EmbedAndStore(r) \/ TaskDies(r)
      PROVE  UpdateOK'
  <2>1. UNCHANGED <<ids, fetch>>
    BY <1>5, OtherEffect DEF RunDies
  <2>2. /\ stage[r] \in Before \cup {"fetch", "aggregate", "embed", "stored"}
        /\ \E to \in Stages \ {"success"} : stage' = [stage EXCEPT ![r] = to]
        /\ UNCHANGED <<update, pos>>
    BY <1>5 DEF TriggerRun, LoadFile, IngestPending, TriggerByHand, Trigger, StartRun,
                FetchEnds, Aggregate, EmbedAndStore, TaskDies, leaves, Stages, Active, Ended
  <2>. QED
    BY <2>1, <2>2 DEF SuccessfulSlots, TypeOK
<1>6. ASSUME NEW r \in Runs, EmbedReturns(r)
      PROVE  UpdateOK'
  <2>1. UNCHANGED <<ids, fetch>>
    BY <1>6, OtherEffect
  <2>2. /\ stage' = [stage EXCEPT ![r] = "publish"]
        /\ update' = [update EXCEPT ![r] = "status"] /\ UNCHANGED pos
    BY <1>6 DEF EmbedReturns
  <2>. QED
    BY <2>1, <2>2 DEF SuccessfulSlots, TypeOK
<1>7. ASSUME NEW r \in Runs, EndRun(r)
      PROVE  UpdateOK'
  <2>1. UNCHANGED <<ids, fetch, update, pos>>
    BY <1>7, OtherEffect DEF EndRun, leaves
  <2>2. CASE update[r] = "done"
    BY <1>7, <2>1, <2>2 DEF EndRun, SuccessfulSlots, TypeOK
  <2>3. CASE update[r] = "dead"
    BY <1>7, <2>1, <2>3 DEF EndRun, SuccessfulSlots, TypeOK
  <2>. QED
    BY <1>7, <2>2, <2>3 DEF EndRun
<1>8. ASSUME NEW r \in Runs, UpdateLoaded(r)
      PROVE  UpdateOK'
  <2>1. UNCHANGED <<ids, fetch, stage>>
    BY <1>8 DEF UpdateLoaded, mapped
  <2>2. PICK i \in SuccessfulSlots(r) : pos' = [pos EXCEPT ![r] = i]
    BY <1>8 DEF UpdateLoaded, Remaining
  <2>3. stage[r] = "publish" /\ update' = [update EXCEPT ![r] = "clean"]
    BY <1>8 DEF UpdateLoaded
  <2>. QED
    BY <2>1, <2>2, <2>3 DEF SuccessfulSlots, TypeOK
<1>9. ASSUME NEW r \in Runs,
             RemoveFromDeadQueue(r) \/ UpdateReturns(r) \/ UpdateDies(r)
      PROVE  UpdateOK'
  <2>1. UNCHANGED <<ids, fetch, stage>>
    BY <1>9 DEF RemoveFromDeadQueue, UpdateReturns, UpdateDies, mapped
  <2>2. stage[r] = "publish" /\ \A q \in Runs \ {r} : update'[q] = update[q] /\ pos'[q] = pos[q]
    BY <1>9 DEF RemoveFromDeadQueue, UpdateReturns, UpdateDies, TypeOK
  <2>3. update'[r] # "clean"
    BY <1>9 DEF RemoveFromDeadQueue, UpdateReturns, UpdateDies, TypeOK
  <2>. QED
    BY <2>1, <2>2, <2>3 DEF SuccessfulSlots
<1>10. ASSUME NEW r \in Runs, Summarize(r) \/ SummarizeDies(r)
       PROVE  UpdateOK'
  BY <1>1, <1>10 DEF Summarize, SummarizeDies, mapped
<1>11. CASE UNCHANGED vars
  BY <1>1, <1>11 DEF vars, mapped, leaves
<1>. QED
  BY <1>2, <1>3, <1>4, <1>5, <1>6, <1>7, <1>8, <1>9, <1>10, <1>11
  DEF Next, RunWorks, UpdateWorks, RunDies

\* Only embed_and_store writes to ChromaDB.
LEMMA WhoStores ==
  ASSUME [Next]_vars
  PROVE  UNCHANGED chroma \/ \E r \in Runs : EmbedAndStore(r)
<1>1. ASSUME NEW r \in Runs, NEW i \in Slots, FetchWorks(r, i) \/ FetchDies(r, i)
      PROVE  UNCHANGED chroma
  BY <1>1 DEF FetchWorks, FetchUnknown, FetchBegin, FetchSucceeds, FetchFails, WriteDeadQueue,
              FetchReturnsFailure, FetchDies, FetchStep
<1>2. ASSUME NEW r \in Runs, RunWorks(r), ~EmbedAndStore(r)
      PROVE  UNCHANGED chroma
  BY <1>2 DEF RunWorks, StartRun, GetFileIds, FetchEnds, Aggregate, EmbedReturns, EndRun
<1>3. ASSUME NEW r \in Runs, UpdateWorks(r) \/ Summarize(r) \/ RunDies(r) \/ TriggerRun(r)
      PROVE  UNCHANGED chroma
  BY <1>3 DEF UpdateWorks, UpdateLoaded, RemoveFromDeadQueue, UpdateReturns, Summarize, RunDies,
              TaskDies, UpdateDies, SummarizeDies, TriggerRun, LoadFile, IngestPending,
              TriggerByHand, Trigger
<1>. QED
  BY <1>1, <1>2, <1>3 DEF Next, RegisterFile, vars

\* Only update_metadata makes a file LOADED or changes a count.
LEMMA WhoLoads ==
  ASSUME TypeOK, [Next]_vars
  PROVE  \/ \E r \in Runs : UpdateLoaded(r)
         \/ /\ UNCHANGED chunkCount
            /\ \A f \in Files : status'[f] = "LOADED" => status[f] = "LOADED"
<1>. DEFINE Quiet == /\ UNCHANGED chunkCount
                     /\ \A f \in Files : status'[f] = "LOADED" => status[f] = "LOADED"
<1>1. ASSUME NEW f \in Files, RegisterFile(f)
      PROVE  Quiet
  BY <1>1 DEF RegisterFile, TypeOK
<1>2. ASSUME NEW r \in Runs, NEW i \in Slots, FetchWorks(r, i) \/ FetchDies(r, i)
      PROVE  Quiet
  BY <1>2 DEF FetchWorks, FetchUnknown, FetchBegin, FetchSucceeds, FetchFails, WriteDeadQueue,
              FetchReturnsFailure, FetchDies, FetchStep, SetStatus, TypeOK
<1>3. ASSUME NEW r \in Runs, RunWorks(r)
      PROVE  Quiet
  BY <1>3 DEF RunWorks, StartRun, GetFileIds, FetchEnds, Aggregate, EmbedAndStore, EmbedReturns,
              EndRun, records
<1>4. ASSUME NEW r \in Runs, UpdateWorks(r) \/ Summarize(r) \/ RunDies(r) \/ TriggerRun(r),
             ~UpdateLoaded(r)
      PROVE  Quiet
  BY <1>4 DEF UpdateWorks, RemoveFromDeadQueue, UpdateReturns, Summarize, RunDies, TaskDies,
              UpdateDies, SummarizeDies, TriggerRun, LoadFile, IngestPending, TriggerByHand,
              Trigger, records
<1>5. CASE UNCHANGED vars
  BY <1>5 DEF vars, records
<1>. QED
  BY <1>1, <1>2, <1>3, <1>4, <1>5 DEF Next

\* What a run got from its mapped instances stays as it is once they are over.
LEMMA StableRun ==
  ASSUME IInv, [Next]_vars, NEW r \in Runs, stage[r] \in Batch \cup {"failed"}
  PROVE  /\ stage'[r] \in Batch \cup {"failed"}
         /\ ids'[r] = ids[r] /\ fetch'[r] = fetch[r] /\ parsed'[r] = parsed[r]
         /\ SuccessfulSlots(r)' = SuccessfulSlots(r)
         /\ AllChunks(r)' = AllChunks(r)
         /\ \A f : FileChunks(r, f)' = FileChunks(r, f)
<1>. USE DEF IInv, Batch
<1>. DEFINE Same == ids'[r] = ids[r] /\ fetch'[r] = fetch[r] /\ parsed'[r] = parsed[r]
            On == stage'[r] \in Batch \cup {"failed"}
<1>1. Same /\ On
  <2>1. ASSUME NEW q \in Runs, NEW i \in Slots, FetchWorks(q, i) \/ FetchDies(q, i)
        PROVE  Same /\ On
    <3>1. stage[q] = "fetch" /\ UNCHANGED <<ids, stage>>
      BY <2>1, FetchEffect
    <3>2. fetch'[r] = fetch[r] /\ parsed'[r] = parsed[r]
      BY <3>1, <2>1
      DEF FetchWorks, FetchUnknown, FetchBegin, FetchSucceeds, FetchFails, WriteDeadQueue,
          FetchReturnsFailure, FetchDies, FetchStep, TypeOK
    <3>. QED
      BY <3>1, <3>2
  <2>2. ASSUME NEW q \in Runs, RunWorks(q)
        PROVE  Same /\ On
    <3>1. CASE GetFileIds(q)
      BY <3>1 DEF GetFileIds, TypeOK
    <3>2. CASE ~GetFileIds(q)
      <4>1. Same
        BY <2>2, <3>2, OtherEffect DEF RunWorks
      <4>2. On
        BY <2>2, <3>2 DEF RunWorks, StartRun, FetchEnds, Aggregate, EmbedAndStore,
                          EmbedReturns, EndRun, TypeOK
      <4>. QED
        BY <4>1, <4>2
    <3>. QED
      BY <3>1, <3>2
  <2>3. ASSUME NEW q \in Runs, UpdateWorks(q) \/ Summarize(q) \/ RunDies(q) \/ TriggerRun(q)
        PROVE  Same /\ On
    <3>1. Same
      BY <2>3, OtherEffect
    <3>2. On
      BY <2>3 DEF UpdateWorks, UpdateLoaded, RemoveFromDeadQueue, UpdateReturns, Summarize,
                  RunDies, TaskDies, UpdateDies, SummarizeDies, TriggerRun, LoadFile,
                  IngestPending, TriggerByHand, Trigger, TypeOK
    <3>. QED
      BY <3>1, <3>2
  <2>4. ASSUME NEW f \in Files, RegisterFile(f)
        PROVE  Same /\ On
    BY <2>4 DEF RegisterFile, mapped
  <2>5. CASE UNCHANGED vars
    BY <2>5 DEF vars, mapped
  <2>. QED
    BY <2>1, <2>2, <2>3, <2>4, <2>5 DEF Next
<1>. QED
  BY <1>1 DEF SuccessfulSlots, AllChunks, FileChunks

LEMMA StoredStep ==
  ASSUME IInv, [Next]_vars
  PROVE  StoredOK'
<1>. DEFINE Published == {"stored", "publish", "success"}
<1>1. chroma \subseteq chroma'
  BY WhoStores DEF EmbedAndStore
<1>2. ASSUME NEW r \in Runs, stage'[r] \in Published
      PROVE  AllChunks(r)' \subseteq chroma'
  <2>1. CASE stage[r] \in Published
    BY <2>1, <1>1, StableRun DEF IInv, StoredOK, Batch
  <2>2. CASE EmbedAndStore(r)
    BY <2>2, StableRun DEF EmbedAndStore, Batch
  <2>3. CASE GetFileIds(r)
    <3>1. ids'[r] = <<>>
      BY <2>3, <1>2 DEF GetFileIds, IInv, TypeOK
    <3>. QED
      BY <3>1, EmptyList DEF AllChunks, SuccessfulSlots
  <2>4. stage[r] \in Published \/ EmbedAndStore(r) \/ GetFileIds(r)
    <3>1. ASSUME NEW q \in Runs, NEW i \in Slots, FetchWorks(q, i) \/ FetchDies(q, i)
          PROVE  stage[r] \in Published
      BY <3>1, <1>2, FetchEffect DEF IInv
    <3>2. ASSUME NEW q \in Runs, RunWorks(q)
          PROVE  stage[r] \in Published \/ EmbedAndStore(r) \/ GetFileIds(r)
      BY <3>2, <1>2 DEF RunWorks, StartRun, GetFileIds, FetchEnds, Aggregate, EmbedAndStore,
                        EmbedReturns, EndRun, IInv, TypeOK
    <3>3. ASSUME NEW q \in Runs, UpdateWorks(q) \/ Summarize(q) \/ RunDies(q) \/ TriggerRun(q)
          PROVE  stage[r] \in Published
      BY <3>3, <1>2 DEF UpdateWorks, UpdateLoaded, RemoveFromDeadQueue, UpdateReturns, Summarize,
                        RunDies, TaskDies, UpdateDies, SummarizeDies, TriggerRun, LoadFile,
                        IngestPending, TriggerByHand, Trigger, IInv, TypeOK
    <3>. QED
      BY <1>2, <3>1, <3>2, <3>3 DEF Next, RegisterFile, vars
  <2>. QED
    BY <2>1, <2>2, <2>3, <2>4
<1>3. ASSUME NEW c \in chroma'
      PROVE  /\ stage'[c.run] \in Batch \cup {"failed"}
             /\ fetch'[c.run][c.slot] = "parsed"
             /\ c \in parsed'[c.run][c.slot]
  <2>1. CASE c \in chroma
    <3>1. c.run \in Runs
      BY <2>1 DEF IInv, TypeOK, Chunk
    <3>. QED
      BY <2>1, <3>1, StableRun DEF IInv, StoredOK
  <2>2. CASE c \notin chroma
    <3>1. PICK r \in Runs : EmbedAndStore(r)
      BY <1>3, <2>2, WhoStores
    <3>2. PICK i \in SuccessfulSlots(r) : c \in parsed[r][i]
      BY <1>3, <2>2, <3>1 DEF EmbedAndStore, AllChunks
    <3>3. i \in Slots /\ fetch[r][i] = "parsed"
      BY ListDomain DEF IInv, TypeOK, SuccessfulSlots
    <3>4. c.run = r /\ c.slot = i
      BY <3>2, <3>3 DEF IInv, ParsedOK
    <3>5. stage[r] \in Batch
      BY <3>1 DEF EmbedAndStore, Batch
    <3>. QED
      BY <3>2, <3>3, <3>4, <3>5, StableRun
  <2>. QED
    BY <2>1, <2>2
<1>. QED
  BY <1>2, <1>3 DEF StoredOK

\* A chunk that a run returned for a file names the run.
LEMMA OwnChunks ==
  ASSUME TypeOK, ParsedOK, NEW r \in Runs, NEW f \in Files, NEW c \in FileChunks(r, f)
  PROVE  c.run = r
<1>1. PICK i \in SuccessfulSlots(r) : c \in parsed[r][i]
  BY DEF FileChunks, AllChunks
<1>2. i \in Slots /\ fetch[r][i] = "parsed"
  BY ListDomain DEF TypeOK, SuccessfulSlots
<1>. QED
  BY <1>1, <1>2 DEF ParsedOK

LEMMA CountStep ==
  ASSUME IInv, [Next]_vars
  PROVE  CountOK'
<1>. DEFINE Counted(f, r) == /\ FileChunks(r, f) # {}
                             /\ FileChunks(r, f) \subseteq chroma
                             /\ chunkCount[f] = Cardinality(FileChunks(r, f))
<1>1. chroma \subseteq chroma'
  BY WhoStores DEF EmbedAndStore
\* The count a row had stays right while it is not written.
<1>2. ASSUME NEW f \in Files, status[f] = "LOADED", chunkCount'[f] = chunkCount[f]
      PROVE  \E r \in Runs : Counted(f, r)'
  <2>1. PICK r \in Runs : Counted(f, r)
    BY <1>2 DEF IInv, CountOK
  <2>2. PICK c \in FileChunks(r, f) : c \in chroma
    BY <2>1
  <2>3. c.run = r
    BY <2>2, OwnChunks DEF IInv
  <2>4. stage[r] \in Batch \cup {"failed"}
    BY <2>2, <2>3 DEF IInv, StoredOK
  <2>5. FileChunks(r, f)' = FileChunks(r, f)
    BY <2>4, StableRun
  <2>. QED
    BY <2>1, <2>5, <1>1, <1>2
<1>3. ASSUME NEW r \in Runs, UpdateLoaded(r)
      PROVE  CountOK'
  <2>1. PICK i \in Remaining(r) :
          /\ SetStatus(ids[r][i], "LOADED")
          /\ chunkCount' = [chunkCount EXCEPT ![ids[r][i]] = Cardinality(FileChunks(r, ids[r][i]))]
    BY <1>3 DEF UpdateLoaded
  <2>0. PICK f : f = ids[r][i]
    OBVIOUS
  <2>2. i \in SuccessfulSlots(r) /\ i \in Slots /\ fetch[r][i] = "parsed"
    BY ListDomain DEF IInv, TypeOK, Remaining, SuccessfulSlots
  <2>3. f \in Files
    BY <2>0, <2>2 DEF IInv, WorkingOK, Begun
  <2>4. FileChunks(r, f) # {}
    BY <2>0, <2>2 DEF IInv, ParsedOK, FileChunks, AllChunks
  <2>5. FileChunks(r, f) \subseteq chroma
    BY <1>3 DEF UpdateLoaded, IInv, StoredOK, FileChunks
  <2>6. FileChunks(r, f)' = FileChunks(r, f)
    BY <1>3, StableRun DEF UpdateLoaded, Batch
  <2>7. chunkCount'[f] = Cardinality(FileChunks(r, f))
    BY <2>0, <2>1, <2>3 DEF IInv, TypeOK
  <2>8. Counted(f, r)'
    BY <2>4, <2>5, <2>6, <2>7, <1>1
  <2>9. ASSUME NEW g \in Files, g # f, status'[g] = "LOADED"
        PROVE  status[g] = "LOADED" /\ chunkCount'[g] = chunkCount[g]
    BY <2>0, <2>1, <2>9 DEF SetStatus, IInv, TypeOK
  <2>. QED
    BY <2>8, <2>9, <1>2 DEF CountOK
<1>4. ASSUME UNCHANGED chunkCount, \A f \in Files : status'[f] = "LOADED" => status[f] = "LOADED"
      PROVE  CountOK'
  BY <1>4, <1>2 DEF CountOK
<1>. QED
  BY <1>3, <1>4, WhoLoads DEF IInv

------------------------------------------------------------------------------
(* Who owns a PROCESSING file.                                             *)

Owns(r, i, f) ==
  /\ stage[r] # "success"
  /\ i \in DOMAIN ids[r] /\ ids[r][i] = f
  /\ Unsettled(r, i)

\* Only FetchBegin makes a file PROCESSING.
LEMMA WhoProcesses ==
  ASSUME TypeOK, [Next]_vars, NEW f \in Files, status'[f] = "PROCESSING"
  PROVE  \/ status[f] = "PROCESSING"
         \/ \E r \in Runs, i \in Slots : FetchBegin(r, i) /\ ids[r][i] = f
<1>1. ASSUME NEW g \in Files, RegisterFile(g)
      PROVE  status[f] = "PROCESSING"
  BY <1>1 DEF RegisterFile, TypeOK
<1>2. ASSUME NEW r \in Runs, NEW i \in Slots, FetchWorks(r, i) \/ FetchDies(r, i)
      PROVE  status[f] = "PROCESSING" \/ (FetchBegin(r, i) /\ ids[r][i] = f)
  BY <1>2 DEF FetchWorks, FetchUnknown, FetchBegin, FetchSucceeds, FetchFails, WriteDeadQueue,
              FetchReturnsFailure, FetchDies, FetchStep, SetStatus, TypeOK
<1>3. ASSUME NEW r \in Runs, RunWorks(r)
      PROVE  status[f] = "PROCESSING"
  BY <1>3 DEF RunWorks, StartRun, GetFileIds, FetchEnds, Aggregate, EmbedAndStore, EmbedReturns,
              EndRun, records
<1>4. ASSUME NEW r \in Runs, UpdateWorks(r) \/ Summarize(r) \/ RunDies(r) \/ TriggerRun(r)
      PROVE  status[f] = "PROCESSING"
  BY <1>4 DEF UpdateWorks, UpdateLoaded, RemoveFromDeadQueue, UpdateReturns, Summarize, RunDies,
              TaskDies, UpdateDies, SummarizeDies, TriggerRun, LoadFile, IngestPending,
              TriggerByHand, Trigger, records, SetStatus, TypeOK
<1>5. CASE UNCHANGED vars
  BY <1>5 DEF vars, records
<1>. QED
  BY <1>1, <1>2, <1>3, <1>4, <1>5 DEF Next

\* A step of a mapped instance that does not settle the file keeps its owner.
LEMMA OwnerFetch ==
  ASSUME IInv, NEW f \in Files, status'[f] = "PROCESSING",
         NEW r \in Runs, NEW i \in Slots, Owns(r, i, f),
         NEW q \in Runs, NEW j \in Slots, FetchWorks(q, j) \/ FetchDies(q, j)
  PROVE  Owns(r, i, f)'
<1>. USE DEF IInv, Owns
<1>1. stage[q] = "fetch" /\ fetch[q][j] \in FetchOpen /\ UNCHANGED <<ids, stage, update, pos>>
  BY FetchEffect
<1>2. CASE q # r \/ j # i
  <2>1. fetch'[r][i] = fetch[r][i] /\ attempt'[r][i] = attempt[r][i]
    BY <1>2 DEF FetchWorks, FetchUnknown, FetchBegin, FetchSucceeds, FetchFails, WriteDeadQueue,
                FetchReturnsFailure, FetchDies, FetchStep, TypeOK
  <2>. QED
    BY <1>1, <2>1 DEF Unsettled
<1>3. CASE q = r /\ j = i
  <2>1. update[r] = "idle" /\ pos[r] = 1
    BY <1>1, <1>3 DEF UpdateOK
  <2>2. CASE FetchUnknown(r, i)
    BY <2>2 DEF FetchUnknown, Registered, TypeOK
  <2>3. CASE FetchBegin(r, i)
    BY <1>1, <2>3 DEF FetchBegin, FetchStep, Unsettled, TypeOK
  <2>4. CASE FetchSucceeds(r, i)
    <3>1. fetch'[r][i] = "parsed"
      BY <2>4 DEF FetchSucceeds, FetchStep, TypeOK
    <3>2. i > pos'[r] \/ (i = pos'[r] /\ update'[r] # "clean")
      BY <1>1, <2>1, BoundsAssumption DEF Slots
    <3>3. update'[r] # "done"
      BY <1>1, <2>1
    <3>. QED
      BY <1>1, <3>1, <3>2, <3>3 DEF Unsettled
  <2>5. CASE FetchFails(r, i)
    BY <2>5 DEF FetchFails, SetStatus, TypeOK
  <2>6. CASE WriteDeadQueue(r, i) \/ FetchReturnsFailure(r, i)
    BY <2>6 DEF WriteDeadQueue, FetchReturnsFailure, FetchStep, Unsettled
  <2>7. CASE FetchDies(r, i)
    <3>1. CASE attempt[r][i] < MaxTries
      <4>1. fetch'[r][i] = "scheduled" /\ attempt'[r][i] = attempt[r][i] + 1
        BY <2>7, <3>1 DEF FetchDies, FetchStep, TypeOK
      <4>2. attempt[r][i] \in 1 .. MaxTries
        BY DEF TypeOK
      <4>3. attempt'[r][i] > 1
        BY <4>1, <4>2, BoundsAssumption
      <4>. QED
        BY <1>1, <4>1, <4>3 DEF Unsettled
    <3>2. CASE ~(attempt[r][i] < MaxTries)
      <4>1. fetch'[r][i] = "dead"
        BY <2>7, <3>2 DEF FetchDies, FetchStep, TypeOK
      <4>. QED
        BY <1>1, <4>1 DEF Unsettled
    <3>. QED
      BY <3>1, <3>2
  <2>. QED
    BY <1>3, <2>2, <2>3, <2>4, <2>5, <2>6, <2>7 DEF FetchWorks
<1>. QED
  BY <1>2, <1>3

\* So does a step of a run: update_metadata settles every successful file
\* before the run can succeed.
LEMMA OwnerRun ==
  ASSUME IInv, NEW f \in Files, status'[f] = "PROCESSING",
         NEW r \in Runs, NEW i \in Slots, Owns(r, i, f),
         NEW q \in Runs, RunWorks(q) \/ UpdateWorks(q) \/ Summarize(q) \/ RunDies(q)
                         \/ TriggerRun(q)
  PROVE  Owns(r, i, f)'
<1>. USE DEF IInv, Owns
<1>1. CASE GetFileIds(q)
  <2>1. q # r
    <3>1. stage[q] = "select"
      BY <1>1 DEF GetFileIds
    <3>. QED
      BY <3>1, EmptyList DEF SlotsOK, Before
  <2>. QED
    BY <1>1, <2>1 DEF GetFileIds, Unsettled, TypeOK, leaves
<1>2. CASE StartRun(q) \/ FetchEnds(q) \/ Aggregate(q) \/ EmbedAndStore(q) \/ TaskDies(q)
           \/ Summarize(q) \/ SummarizeDies(q) \/ TriggerRun(q)
  <2>1. UNCHANGED <<ids, fetch, attempt>>
    BY <1>2, OtherEffect DEF RunDies
  <2>2. UNCHANGED <<update, pos>>
    BY <1>2 DEF StartRun, FetchEnds, Aggregate, EmbedAndStore, TaskDies, Summarize,
                SummarizeDies, TriggerRun, LoadFile, IngestPending, TriggerByHand, Trigger, leaves
  <2>3. stage'[r] # "success"
    BY <1>2 DEF StartRun, FetchEnds, Aggregate, EmbedAndStore, TaskDies, Summarize,
                SummarizeDies, TriggerRun, LoadFile, IngestPending, TriggerByHand, Trigger, TypeOK
  <2>. QED
    BY <2>1, <2>2, <2>3 DEF Unsettled
<1>3. CASE q # r /\ (EmbedReturns(q) \/ UpdateWorks(q) \/ UpdateDies(q) \/ EndRun(q))
  <2>1. UNCHANGED <<ids, fetch, attempt>>
    BY <1>3, OtherEffect DEF RunDies
  <2>2. stage'[r] = stage[r] /\ update'[r] = update[r] /\ pos'[r] = pos[r]
    BY <1>3 DEF EmbedReturns, UpdateWorks, UpdateLoaded, RemoveFromDeadQueue, UpdateReturns,
                UpdateDies, EndRun, leaves, TypeOK
  <2>. QED
    BY <2>1, <2>2 DEF Unsettled
<1>4. CASE q = r /\ EmbedReturns(r)
  <2>1. UNCHANGED <<ids, fetch, attempt>>
    BY <1>4, OtherEffect
  <2>2. stage'[r] = "publish" /\ update'[r] = "status" /\ UNCHANGED pos
    BY <1>4 DEF EmbedReturns, TypeOK
  <2>3. update[r] = "idle"
    BY <1>4 DEF EmbedReturns, UpdateOK
  <2>. QED
    BY <2>1, <2>2, <2>3 DEF Unsettled
\* Once a run publishes, an unsettled instance is one whose file awaits its turn.
<1>5. ASSUME stage[r] = "publish"
      PROVE  /\ i \in SuccessfulSlots(r) /\ update[r] # "done"
             /\ i > pos[r] \/ (i = pos[r] /\ update[r] # "clean")
  BY <1>5 DEF SlotsOK, Batch, Unsettled, SuccessfulSlots
<1>6. CASE q = r /\ UpdateLoaded(r)
  <2>1. UNCHANGED <<ids, fetch, attempt, stage>> /\ stage[r] = "publish" /\ update[r] = "status"
    BY <1>6 DEF UpdateLoaded, mapped
  <2>2. PICK j \in Remaining(r) : /\ \A k \in Remaining(r) : j <= k
                                  /\ SetStatus(ids[r][j], "LOADED")
                                  /\ pos' = [pos EXCEPT ![r] = j]
    BY <1>6 DEF UpdateLoaded
  <2>3. i \in Remaining(r)
    BY <1>5, <2>1 DEF Remaining, TypeOK, Slots
  <2>4. i # j
    BY <2>2 DEF SetStatus, TypeOK
  <2>5. j \in Slots /\ j <= i
    BY <2>2, <2>3, ListDomain DEF Remaining, SuccessfulSlots, TypeOK
  <2>6. i > pos'[r]
    BY <2>2, <2>4, <2>5 DEF TypeOK, Slots
  <2>7. update'[r] = "clean"
    BY <1>6 DEF UpdateLoaded, TypeOK
  <2>8. fetch[r][i] = "parsed"
    BY <2>1, <1>5 DEF SuccessfulSlots
  <2>. QED
    BY <2>1, <2>6, <2>7, <2>8 DEF Unsettled
<1>7. CASE q = r /\ RemoveFromDeadQueue(r)
  <2>1. UNCHANGED <<ids, fetch, attempt, stage>> /\ stage[r] = "publish" /\ update[r] = "clean"
    BY <1>7 DEF RemoveFromDeadQueue, mapped
  <2>2. pos'[r] = pos[r] + 1 /\ update'[r] = "status"
    BY <1>7 DEF RemoveFromDeadQueue, TypeOK
  <2>3. i > pos'[r] \/ i = pos'[r]
    BY <1>5, <2>1, <2>2 DEF TypeOK, Slots
  <2>4. fetch[r][i] = "parsed"
    BY <2>1, <1>5 DEF SuccessfulSlots
  <2>. QED
    BY <2>1, <2>2, <2>3, <2>4 DEF Unsettled
<1>8. CASE q = r /\ UpdateReturns(r)
  <2>1. stage[r] = "publish" /\ Remaining(r) = {}
    BY <1>8 DEF UpdateReturns
  <2>2. i \in Remaining(r)
    BY <1>5, <2>1 DEF Remaining, TypeOK, Slots
  <2>. QED
    BY <2>1, <2>2
<1>9. CASE q = r /\ UpdateDies(r)
  <2>1. UNCHANGED <<ids, fetch, attempt, stage>> /\ stage[r] = "publish"
    BY <1>9 DEF UpdateDies, mapped
  <2>2. \/ update'[r] = "status" /\ pos'[r] = 1
        \/ update'[r] = "dead" /\ pos'[r] = pos[r]
    BY <1>9 DEF UpdateDies, TypeOK
  <2>3. i > pos'[r] \/ i = pos'[r]
    BY <1>5, <2>1, <2>2 DEF Slots
  <2>4. fetch[r][i] = "parsed"
    BY <2>1, <1>5 DEF SuccessfulSlots
  <2>. QED
    BY <2>1, <2>2, <2>3, <2>4 DEF Unsettled
<1>10. CASE q = r /\ EndRun(r)
  <2>1. UNCHANGED <<ids, fetch, attempt, update, pos>> /\ stage[r] = "publish"
    BY <1>10 DEF EndRun, mapped, leaves
  <2>2. update[r] = "dead"
    BY <1>5, <1>10, <2>1 DEF EndRun
  <2>3. stage'[r] = "failed"
    BY <1>10, <2>2 DEF EndRun, TypeOK
  <2>. QED
    BY <2>1, <2>3 DEF Unsettled
<1>. QED
  BY <1>1, <1>2, <1>3, <1>4, <1>6, <1>7, <1>8, <1>9, <1>10 DEF RunWorks, UpdateWorks, RunDies

LEMMA OwnerStep ==
  ASSUME IInv, [Next]_vars
  PROVE  ProcessingHasOwner'
<1>. SUFFICES ASSUME NEW f \in Files, status'[f] = "PROCESSING"
              PROVE  \E r \in Runs, i \in Slots : Owns(r, i, f)'
  BY DEF ProcessingHasOwner, Owns
<1>1. CASE \E r \in Runs, i \in Slots : FetchBegin(r, i) /\ ids[r][i] = f
  <2>1. PICK r \in Runs, i \in Slots : FetchBegin(r, i) /\ ids[r][i] = f
    BY <1>1
  <2>2. i \in DOMAIN ids[r] /\ stage[r] = "fetch"
    BY <2>1 DEF IInv, SlotsOK, FetchBegin, FetchStep
  <2>3. fetch'[r][i] = "processing" /\ UNCHANGED <<ids, stage>>
    BY <2>1 DEF FetchBegin, FetchStep, IInv, TypeOK
  <2>4. Owns(r, i, f)'
    BY <2>1, <2>2, <2>3 DEF Owns, Unsettled
  <2>. QED
    BY <2>4
<1>2. CASE status[f] = "PROCESSING"
  <2>1. PICK r \in Runs : \E i \in DOMAIN ids[r] : Owns(r, i, f)
    BY <1>2 DEF IInv, ProcessingHasOwner, Owns
  <2>2. PICK i \in Slots : Owns(r, i, f)
    BY <2>1, ListDomain DEF IInv, TypeOK
  <2>3. ASSUME NEW g \in Files, RegisterFile(g)
        PROVE  Owns(r, i, f)'
    BY <2>2, <2>3 DEF RegisterFile, Owns, Unsettled, mapped, leaves
  <2>4. ASSUME UNCHANGED vars
        PROVE  Owns(r, i, f)'
    BY <2>2, <2>4 DEF vars, Owns, Unsettled, mapped, leaves
  <2>5. ASSUME NEW q \in Runs, NEW j \in Slots, FetchWorks(q, j) \/ FetchDies(q, j)
        PROVE  Owns(r, i, f)'
    BY <2>2, <2>5, OwnerFetch
  <2>6. ASSUME NEW q \in Runs,
               RunWorks(q) \/ UpdateWorks(q) \/ Summarize(q) \/ RunDies(q) \/ TriggerRun(q)
        PROVE  Owns(r, i, f)'
    BY <2>2, <2>6, OwnerRun
  <2>7. Owns(r, i, f)'
    BY <2>3, <2>4, <2>5, <2>6 DEF Next
  <2>. QED
    BY <2>7
<1>. QED
  BY <1>1, <1>2, WhoProcesses DEF IInv

------------------------------------------------------------------------------
(* The theorems.                                                           *)

LEMMA StepIInv ==
  ASSUME IInv, [Next]_vars
  PROVE  IInv'
<1>1. TypeOK'
  <2>1. CASE UNCHANGED vars
    BY <2>1 DEF vars, records, mapped, leaves, IInv, TypeOK
  <2>. QED
    BY <2>1, TypeFetch, TypeRun, TypeEnvironment DEF Next, IInv
<1>. QED
  BY <1>1, SlotsStep, WorkingStep, ParsedStep, UpdateStep, StoredStep, CountStep, OwnerStep
  DEF IInv

LEMMA Invariance == Spec => []IInv
<1>1. IInv /\ [Next]_vars => IInv'
  BY StepIInv
<1>. QED
  BY InitIInv, <1>1, PTL DEF Spec

\* Every variable keeps the type that the tables, the collection and the
\* XComs of the pipeline give it.
THEOREM TypeCorrect == Spec => []TypeOK
<1>1. IInv => TypeOK
  BY DEF IInv
<1>. QED
  BY Invariance, <1>1, PTL

\* A LOADED file is backed by ChromaDB: it has at least the chunk_count chunks
\* that update_metadata reports, and at least one.
THEOREM LoadedIsBacked == Spec => []LoadedBacked
<1>1. ASSUME IInv, NEW f \in Files, status[f] = "LOADED"
      PROVE  chunkCount[f] \in 1 .. Cardinality(Stored(f))
  <2>1. PICK r \in Runs : /\ FileChunks(r, f) # {}
                          /\ FileChunks(r, f) \subseteq chroma
                          /\ chunkCount[f] = Cardinality(FileChunks(r, f))
    BY <1>1 DEF IInv, CountOK
  <2>2. FileChunks(r, f) \subseteq Stored(f)
    BY <2>1 DEF FileChunks, Stored
  <2>3. IsFiniteSet(Stored(f))
    BY <1>1, ChunkFinite, FS_Subset DEF IInv, TypeOK, Stored
  <2>4. /\ IsFiniteSet(FileChunks(r, f))
        /\ Cardinality(FileChunks(r, f)) <= Cardinality(Stored(f))
    BY <2>2, <2>3, FS_Subset
  <2>5. Cardinality(FileChunks(r, f)) # 0
    BY <2>1, <2>4, FS_EmptySet
  <2>6. Cardinality(FileChunks(r, f)) \in Nat /\ Cardinality(Stored(f)) \in Nat
    BY <2>3, <2>4, FS_CardinalityType
  <2>. QED
    BY <2>1, <2>4, <2>5, <2>6
<1>2. IInv => LoadedBacked
  BY <1>1 DEF LoadedBacked
<1>. QED
  BY Invariance, <1>2, PTL

\* A PROCESSING file has a run that has yet to settle it, or that failed.
THEOREM ProcessingIsOwned == Spec => []ProcessingHasOwner
<1>1. IInv => ProcessingHasOwner
  BY DEF IInv
<1>. QED
  BY Invariance, <1>1, PTL

\* Retries put no piece of a file into ChromaDB twice.
THEOREM RetriesDoNotDuplicate == Spec => []RetryDoesNotDuplicate
<1>1. ASSUME IInv, NEW c \in chroma, NEW d \in chroma,
             c.run = d.run, c.slot = d.slot, c.index = d.index
      PROVE  c = d
  <2>1. c \in Chunk /\ d \in Chunk
    BY <1>1 DEF IInv, TypeOK
  <2>2. c.file = d.file /\ c.try = d.try
    BY <1>1, <2>1 DEF IInv, StoredOK, ParsedOK, Chunk
  <2>. QED
    BY <1>1, <2>1, <2>2 DEF Chunk
<1>2. IInv => RetryDoesNotDuplicate
  BY <1>1 DEF RetryDoesNotDuplicate
<1>. QED
  BY Invariance, <1>2, PTL

\* chunk_count is the number of chunks that one run of the file has stored.
THEOREM CountsAreOfOneRun == Spec => []CountIsOfOneRun
<1>1. ASSUME IInv, NEW f \in Files, status[f] = "LOADED"
      PROVE  \E r \in Runs : LET batch == {c \in Stored(f) : c.run = r} IN
                             batch # {} /\ chunkCount[f] = Cardinality(batch)
  <2>1. PICK r \in Runs : /\ FileChunks(r, f) # {}
                          /\ FileChunks(r, f) \subseteq chroma
                          /\ chunkCount[f] = Cardinality(FileChunks(r, f))
    BY <1>1 DEF IInv, CountOK
  <2>2. \A c \in FileChunks(r, f) : c \in Stored(f) /\ c.run = r
    BY <1>1, <2>1, OwnChunks DEF FileChunks, Stored, IInv
  <2>3. ASSUME NEW c \in Stored(f), c.run = r
        PROVE  c \in FileChunks(r, f)
    <3>1. /\ c.slot \in Slots /\ fetch[r][c.slot] = "parsed" /\ c \in parsed[r][c.slot]
      BY <1>1, <2>3 DEF IInv, StoredOK, TypeOK, Stored, Chunk
    <3>2. c.slot \in SuccessfulSlots(r)
      BY <1>1, <3>1 DEF IInv, SlotsOK, SuccessfulSlots
    <3>. QED
      BY <3>1, <3>2 DEF FileChunks, AllChunks, Stored
  <2>4. FileChunks(r, f) = {c \in Stored(f) : c.run = r}
    BY <2>2, <2>3
  <2>. QED
    BY <2>1, <2>4
<1>2. IInv => CountIsOfOneRun
  BY <1>1 DEF CountIsOfOneRun
<1>. QED
  BY Invariance, <1>2, PTL

------------------------------------------------------------------------------
(* Ingestion implements FileLifecycle.                                     *)

LEMMA LifecycleInit == Init => Lifecycle!Init
  BY FS_EmptySet DEF Init, Lifecycle!Init, Stored

\* A step that writes no status, no count, no message and no chunk is a stutter.
LEMMA LifecycleStutter ==
  ASSUME UNCHANGED <<status, chunkCount, errorMessage, chroma>>
  PROVE  UNCHANGED Lifecycle!vars
  BY DEF Lifecycle!vars, Stored

LEMMA ChunkSets ==
  ASSUME NEW S \in SUBSET Chunk, NEW T \in SUBSET S
  PROVE  /\ IsFiniteSet(S) /\ Cardinality(S) \in Nat /\ Cardinality(T) \in Nat
         /\ Cardinality(T) <= Cardinality(S)
         /\ Cardinality(T) < Cardinality(S) => \E c \in S : c \notin T
<1>1. IsFiniteSet(S)
  BY ChunkFinite, FS_Subset
<1>2. IsFiniteSet(T) /\ Cardinality(T) <= Cardinality(S)
  BY <1>1, FS_Subset
<1>3. Cardinality(S) \in Nat /\ Cardinality(T) \in Nat
  BY <1>1, <1>2, FS_CardinalityType
<1>4. ASSUME Cardinality(T) < Cardinality(S)
      PROVE  \E c \in S : c \notin T
  <2>1. S # T
    BY <1>3, <1>4
  <2>. QED
    BY <2>1
<1>. QED
  BY <1>1, <1>2, <1>3, <1>4

\* A batch adds chunks, and only of files that left PENDING.
LEMMA LifecycleStore ==
  ASSUME IInv, chroma' \subseteq Chunk, NEW r \in Runs, EmbedAndStore(r)
  PROVE  Lifecycle!Store
<1>1. UNCHANGED <<status, chunkCount, errorMessage>>
  BY DEF EmbedAndStore, records
<1>2. ASSUME NEW f \in Files
      PROVE  /\ Cardinality(Stored(f)') \in Nat
             /\ Cardinality(Stored(f)') >= Cardinality(Stored(f))
             /\ Cardinality(Stored(f)') > Cardinality(Stored(f)) => Lifecycle!Begun(f)
  <2>. DEFINE old == Stored(f)
              new == {c \in chroma' : c.file = f}
  <2>1. new \subseteq Chunk /\ old \subseteq new
    BY DEF EmbedAndStore, Stored
  <2>2. /\ Cardinality(new) \in Nat /\ Cardinality(old) \in Nat
        /\ Cardinality(old) <= Cardinality(new)
        /\ Cardinality(old) < Cardinality(new) => \E c \in new : c \notin old
    BY <2>1, ChunkSets
  <2>3. ASSUME NEW c \in new, c \notin old
        PROVE  Lifecycle!Begun(f)
    <3>1. PICK i \in SuccessfulSlots(r) : c \in parsed[r][i]
      BY <2>3 DEF EmbedAndStore, AllChunks, Stored
    <3>2. i \in Slots /\ fetch[r][i] = "parsed"
      BY ListDomain DEF IInv, TypeOK, SuccessfulSlots
    <3>3. ids[r][i] = f
      BY <3>1, <3>2, <2>3 DEF IInv, ParsedOK
    <3>. QED
      BY <3>2, <3>3 DEF IInv, WorkingOK, Begun, Lifecycle!Begun
  <2>4. Stored(f)' = new
    BY DEF Stored
  <2>. QED
    BY <2>2, <2>3, <2>4
<1>. QED
  BY <1>1, <1>2 DEF Lifecycle!Store

\* A row becomes LOADED with a count of chunks that are stored.
LEMMA LifecycleLoad ==
  ASSUME IInv, LoadedBacked', NEW r \in Runs, UpdateLoaded(r)
  PROVE  \E f \in Files : Lifecycle!Load(f)
<1>1. PICK i \in Remaining(r) :
        /\ SetStatus(ids[r][i], "LOADED")
        /\ chunkCount' = [chunkCount EXCEPT ![ids[r][i]] = Cardinality(FileChunks(r, ids[r][i]))]
  BY DEF UpdateLoaded
<1>2. PICK f : f = ids[r][i]
  OBVIOUS
<1>3. f \in Files /\ Lifecycle!Begun(f)
  BY <1>2, ListDomain
  DEF IInv, TypeOK, WorkingOK, Begun, Remaining, SuccessfulSlots, Lifecycle!Begun
<1>4. status' = [status EXCEPT ![f] = "LOADED"] /\ UNCHANGED errorMessage
  BY <1>1, <1>2, <1>3 DEF SetStatus, IInv, TypeOK
<1>5. UNCHANGED chroma
  BY DEF UpdateLoaded
<1>6. chunkCount'[f] \in 1 .. Cardinality(Stored(f))
  <2>1. status'[f] = "LOADED"
    BY <1>3, <1>4 DEF IInv, TypeOK
  <2>. QED
    BY <1>3, <1>5, <2>1 DEF LoadedBacked, Stored
<1>7. /\ chunkCount' \in [Files -> Nat]
      /\ \A g \in Files \ {f} : chunkCount'[g] = chunkCount[g]
  <2>1. chunkCount'[f] \in Nat /\ DOMAIN chunkCount' = Files
    BY <1>1, <1>6, ChunkSets DEF IInv, TypeOK
  <2>2. \A g \in Files \ {f} : chunkCount'[g] = chunkCount[g]
    BY <1>1, <1>2 DEF IInv, TypeOK
  <2>. QED
    BY <1>1, <1>2, <1>3, <2>1, <2>2 DEF IInv, TypeOK
<1>8. UNCHANGED [g \in Files |-> Cardinality(Stored(g))]
  BY <1>5 DEF Stored
<1>. QED
  BY <1>3, <1>4, <1>6, <1>7, <1>8 DEF Lifecycle!Load

LEMMA LifecycleStep ==
  ASSUME IInv, IInv', LoadedBacked', [Next]_vars
  PROVE  [Lifecycle!Next]_(Lifecycle!vars)
<1>0. UNCHANGED chroma => UNCHANGED [f \in Files |-> Cardinality(Stored(f))]
  BY DEF Stored
<1>1. ASSUME NEW f \in Files, RegisterFile(f)
      PROVE  Lifecycle!Register(f)
  BY <1>0, <1>1 DEF RegisterFile, Registered, Lifecycle!Register
<1>2. ASSUME NEW r \in Runs, NEW i \in Slots, FetchBegin(r, i)
      PROVE  ids[r][i] \in Files /\ Lifecycle!Begin(ids[r][i])
  <2>1. UNCHANGED errorMessage
    BY <1>2 DEF FetchBegin, SetStatus, Registered, IInv, TypeOK
  <2>. QED
    BY <1>0, <1>2, <2>1 DEF FetchBegin, FetchStep, SetStatus, Registered, Lifecycle!Begin
<1>3. ASSUME NEW r \in Runs, NEW i \in Slots, FetchFails(r, i)
      PROVE  ids[r][i] \in Files /\ Lifecycle!Fail(ids[r][i])
  <2>1. Begun(ids[r][i])
    BY <1>3 DEF FetchFails, FetchStep, IInv, WorkingOK
  <2>2. errorMessage' = [errorMessage EXCEPT ![ids[r][i]] = TRUE]
    BY <1>3, <2>1 DEF FetchFails, SetStatus, Begun, IInv, TypeOK
  <2>. QED
    BY <1>0, <1>3, <2>1, <2>2 DEF FetchFails, FetchStep, SetStatus, Begun, Lifecycle!Begun,
                            Lifecycle!Fail
<1>4. ASSUME NEW r \in Runs, EmbedAndStore(r)
      PROVE  Lifecycle!Store
  BY <1>4, LifecycleStore DEF IInv, TypeOK
<1>5. ASSUME NEW r \in Runs, UpdateLoaded(r)
      PROVE  \E f \in Files : Lifecycle!Load(f)
  BY <1>5, LifecycleLoad
<1>6. ASSUME \A f \in Files : ~RegisterFile(f),
             \A r \in Runs, i \in Slots : ~FetchBegin(r, i) /\ ~FetchFails(r, i),
             \A r \in Runs : ~EmbedAndStore(r) /\ ~UpdateLoaded(r)
      PROVE  UNCHANGED <<status, chunkCount, errorMessage, chroma>>
  <2>1. UNCHANGED chroma
    BY <1>6, WhoStores
  <2>2. ASSUME NEW r \in Runs, NEW i \in Slots, FetchWorks(r, i) \/ FetchDies(r, i)
        PROVE  UNCHANGED <<status, chunkCount, errorMessage>>
    BY <1>6, <2>2 DEF FetchWorks, FetchUnknown, FetchSucceeds, WriteDeadQueue,
                      FetchReturnsFailure, FetchDies, FetchStep
  <2>3. ASSUME NEW r \in Runs, RunWorks(r)
        PROVE  UNCHANGED <<status, chunkCount, errorMessage>>
    BY <1>6, <2>3 DEF RunWorks, StartRun, GetFileIds, FetchEnds, Aggregate, EmbedReturns, EndRun,
                      records
  <2>4. ASSUME NEW r \in Runs, UpdateWorks(r) \/ Summarize(r) \/ RunDies(r) \/ TriggerRun(r)
        PROVE  UNCHANGED <<status, chunkCount, errorMessage>>
    BY <1>6, <2>4 DEF UpdateWorks, RemoveFromDeadQueue, UpdateReturns, Summarize, RunDies,
                      TaskDies, UpdateDies, SummarizeDies, TriggerRun, LoadFile, IngestPending,
                      TriggerByHand, Trigger, records
  <2>. QED
    BY <1>6, <2>1, <2>2, <2>3, <2>4 DEF Next, vars, records
<1>. QED
  BY <1>1, <1>2, <1>3, <1>4, <1>5, <1>6, LifecycleStutter DEF Lifecycle!Next

\* Whatever runs are triggered, interleave, fail and are retried, each row of
\* file_records and its chunks behave as FileLifecycle says.
THEOREM ImplementsLifecycle == Spec => LifecycleSpec
<1>1. IInv /\ IInv' /\ LoadedBacked' /\ [Next]_vars => [Lifecycle!Next]_(Lifecycle!vars)
  BY LifecycleStep
<1>. QED
  BY <1>1, LifecycleInit, Invariance, LoadedIsBacked, PTL DEF Spec, LifecycleSpec, Lifecycle!Spec

------------------------------------------------------------------------------
(* A run takes so many steps and no more.                                  *)

\* The summary waits for the batch, as update_metadata does.
SummaryOK ==
  \A r \in Runs : stage[r] \in Before \cup {"fetch", "aggregate", "embed", "stored"}
                    => summary[r] = "idle"

Own(r) ==
  \/ TriggerRun(r) \/ RunWorks(r) \/ UpdateWorks(r) \/ Summarize(r) \/ RunDies(r)
  \/ \E i \in Slots : FetchWorks(r, i) \/ FetchDies(r, i)

\* A run is changed by its own steps alone.
LEMMA OthersLeaveRun ==
  ASSUME TypeOK, [Next]_vars, NEW r \in Runs, RunState(r)' # RunState(r)
  PROVE  Own(r)
<1>. USE DEF TypeOK, RunState
<1>1. ASSUME NEW q \in Runs, q # r, NEW i \in Slots, FetchWorks(q, i) \/ FetchDies(q, i)
      PROVE  RunState(r)' = RunState(r)
  <2>1. \E to : fetch' = [fetch EXCEPT ![q][i] = to]
    BY <1>1, FetchEffect
  <2>2. UNCHANGED <<stage, tries, conf, ids, update, pos, summary>>
    BY <1>1 DEF FetchWorks, FetchUnknown, FetchBegin, FetchSucceeds, FetchFails, WriteDeadQueue,
                FetchReturnsFailure, FetchDies, FetchStep, leaves
  <2>3. attempt'[r] = attempt[r] /\ parsed'[r] = parsed[r]
    BY <1>1 DEF FetchWorks, FetchUnknown, FetchBegin, FetchSucceeds, FetchFails, WriteDeadQueue,
                FetchReturnsFailure, FetchDies
  <2>. QED
    BY <1>1, <2>1, <2>2, <2>3
<1>2. ASSUME NEW q \in Runs, q # r, GetFileIds(q)
      PROVE  RunState(r)' = RunState(r)
  BY <1>2 DEF GetFileIds, leaves
<1>3. ASSUME NEW q \in Runs, q # r,
             \/ StartRun(q) \/ FetchEnds(q) \/ Aggregate(q) \/ EmbedAndStore(q)
             \/ EmbedReturns(q) \/ EndRun(q)
      PROVE  RunState(r)' = RunState(r)
  BY <1>3 DEF StartRun, FetchEnds, Aggregate, EmbedAndStore, EmbedReturns, EndRun, leaves, mapped
<1>4. ASSUME NEW q \in Runs, q # r, UpdateWorks(q) \/ Summarize(q) \/ RunDies(q)
      PROVE  RunState(r)' = RunState(r)
  BY <1>4 DEF UpdateWorks, UpdateLoaded, RemoveFromDeadQueue, UpdateReturns, Summarize, RunDies,
              TaskDies, UpdateDies, SummarizeDies, leaves, mapped
<1>5. ASSUME NEW q \in Runs, q # r, TriggerRun(q)
      PROVE  RunState(r)' = RunState(r)
  BY <1>5 DEF TriggerRun, LoadFile, IngestPending, TriggerByHand, Trigger, leaves, mapped
<1>6. ASSUME \/ UNCHANGED vars \/ \E f \in Files : RegisterFile(f)
      PROVE  RunState(r)' = RunState(r)
  BY <1>6 DEF RegisterFile, vars, leaves, mapped
<1>. QED
  BY <1>1, <1>2, <1>3, <1>4, <1>5, <1>6 DEF Next, RunWorks, Own

LEMMA SummaryStep ==
  ASSUME IInv, SummaryOK, [Next]_vars
  PROVE  SummaryOK'
<1>. SUFFICES ASSUME NEW r \in Runs,
                     stage'[r] \in Before \cup {"fetch", "aggregate", "embed", "stored"}
              PROVE  summary'[r] = "idle"
  BY DEF SummaryOK
<1>. USE DEF IInv, TypeOK, Before
<1>1. CASE RunState(r)' = RunState(r)
  BY <1>1 DEF RunState, SummaryOK
<1>2. CASE RunState(r)' # RunState(r)
  <2>. USE DEF SummaryOK
  <2>1. Own(r)
    BY <1>2, OthersLeaveRun
  <2>2. CASE TriggerRun(r)
    BY <2>2 DEF TriggerRun, LoadFile, IngestPending, TriggerByHand, Trigger, leaves
  <2>3. CASE \E i \in Slots : FetchWorks(r, i) \/ FetchDies(r, i)
    BY <2>3, FetchEffect
  <2>4. CASE UpdateWorks(r) \/ Summarize(r) \/ RunDies(r)
    BY <2>4 DEF UpdateWorks, UpdateLoaded, RemoveFromDeadQueue, UpdateReturns, Summarize, RunDies,
                TaskDies, UpdateDies, SummarizeDies, leaves
  <2>5. CASE RunWorks(r)
    BY <2>5 DEF RunWorks, StartRun, GetFileIds, FetchEnds, Aggregate, EmbedAndStore, EmbedReturns,
                EndRun, leaves
  <2>. QED
    BY <2>1, <2>2, <2>3, <2>4, <2>5 DEF Own
<1>. QED
  BY <1>1, <1>2

\* The steps of a mapped instance use up its states and tries, and nothing else.
LEMMA FetchNearer ==
  ASSUME IInv, NEW r \in Runs, NEW i \in Slots, FetchWorks(r, i) \/ FetchDies(r, i)
  PROVE  Nearer(r)
<1>. USE DEF IInv, TypeOK
<1>1. /\ stage[r] = "fetch" /\ fetch[r][i] \in FetchOpen
      /\ UNCHANGED <<stage, tries, update, pos, summary>>
  BY FetchEffect
<1>2. attempt[r][i] \in 1 .. MaxTries /\ MaxTries \in Nat
  BY BoundsAssumption
<1>3. /\ StageLeft(r)' = StageLeft(r) /\ UpdateLeft(r)' = UpdateLeft(r)
      /\ SummaryLeft(r)' = SummaryLeft(r)
  BY <1>1 DEF StageLeft, UpdateLeft, SummaryLeft
<1>4. ASSUME NEW j \in Slots, j # i
      PROVE  FetchLeft(r, j)' = FetchLeft(r, j)
  <2>1. fetch'[r][j] = fetch[r][j]
    BY <1>4, FetchEffect
  <2>2. attempt'[r][j] = attempt[r][j]
    BY <1>4 DEF FetchWorks, FetchUnknown, FetchBegin, FetchSucceeds, FetchFails, WriteDeadQueue,
                FetchReturnsFailure, FetchDies
  <2>. QED
    BY <1>1, <2>1, <2>2 DEF FetchLeft, FetchOpen
<1>5. Less(FetchLeft(r, i)', FetchLeft(r, i))
  <2>1. CASE FetchWorks(r, i)
    <3>1. attempt'[r][i] = attempt[r][i]
      BY <2>1 DEF FetchWorks, FetchUnknown, FetchBegin, FetchSucceeds, FetchFails, WriteDeadQueue,
                  FetchReturnsFailure
    <3>2. \/ fetch[r][i] = "scheduled" /\ fetch'[r][i] \in {"failed", "processing"}
          \/ fetch[r][i] = "processing" /\ fetch'[r][i] \in {"parsed", "failing"}
          \/ fetch[r][i] = "failing" /\ fetch'[r][i] = "recorded"
          \/ fetch[r][i] = "recorded" /\ fetch'[r][i] = "failed"
      BY <2>1 DEF FetchWorks, FetchUnknown, FetchBegin, FetchSucceeds, FetchFails, WriteDeadQueue,
                  FetchReturnsFailure, FetchStep
    <3>. QED
      BY <1>1, <1>2, <3>1, <3>2 DEF FetchLeft, FetchOpen, Less
  <2>2. CASE FetchDies(r, i)
    <3>1. \/ fetch'[r][i] = "scheduled" /\ attempt'[r][i] = attempt[r][i] + 1
          \/ fetch'[r][i] = "dead" /\ attempt'[r][i] = attempt[r][i]
      BY <2>2 DEF FetchDies, FetchStep
    <3>2. attempt'[r][i] = attempt[r][i] + 1 => attempt[r][i] < MaxTries
      BY <1>2, <2>2 DEF FetchDies
    <3>. QED
      BY <1>1, <1>2, <3>1, <3>2 DEF FetchLeft, FetchOpen, Less
  <2>. QED
    BY <2>1, <2>2
<1>. QED
  BY <1>3, <1>4, <1>5 DEF Nearer, AtMost

\* The steps of update_metadata use up its list and its tries.
LEMMA UpdateNearer ==
  ASSUME IInv, NEW r \in Runs, UpdateWorks(r) \/ UpdateDies(r)
  PROVE  Nearer(r)
<1>. USE DEF IInv, TypeOK
<1>1. stage[r] = "publish" /\ UNCHANGED <<stage, fetch, attempt, summary>>
  BY DEF UpdateWorks, UpdateLoaded, RemoveFromDeadQueue, UpdateReturns, UpdateDies, mapped
<1>2. /\ tries[r] \in 1 .. MaxTries /\ MaxTries \in Nat /\ MaxFileIds \in Nat
      /\ pos[r] \in 1 .. MaxFileIds + 1
  BY BoundsAssumption
<1>3. /\ StageLeft(r)' = StageLeft(r) /\ SummaryLeft(r)' = SummaryLeft(r)
      /\ \A i \in Slots : FetchLeft(r, i)' = FetchLeft(r, i)
  BY <1>1 DEF StageLeft, SummaryLeft, FetchLeft, FetchOpen
<1>4. Less(UpdateLeft(r)', UpdateLeft(r))
  <2>1. CASE UpdateLoaded(r)
    <3>1. PICK i \in Remaining(r) : pos' = [pos EXCEPT ![r] = i]
      BY <2>1 DEF UpdateLoaded
    <3>2. i \in Slots /\ i >= pos[r]
      BY <3>1, ListDomain DEF Remaining, SuccessfulSlots
    <3>3. update[r] = "status" /\ update'[r] = "clean" /\ tries'[r] = tries[r] /\ pos'[r] = i
      BY <2>1, <3>1 DEF UpdateLoaded
    <3>4. 2 * (MaxFileIds + 1 - i) < 2 * (MaxFileIds + 1 - pos[r]) + 1
      BY <1>2, <3>2 DEF Slots
    <3>. QED
      BY <3>3, <3>4 DEF UpdateLeft, Less
  <2>2. CASE RemoveFromDeadQueue(r)
    <3>1. /\ update[r] = "clean" /\ update'[r] = "status" /\ tries'[r] = tries[r]
          /\ pos'[r] = pos[r] + 1
      BY <2>2 DEF RemoveFromDeadQueue
    <3>2. 2 * (MaxFileIds + 1 - (pos[r] + 1)) + 1 < 2 * (MaxFileIds + 1 - pos[r])
      BY <1>2
    <3>. QED
      BY <3>1, <3>2 DEF UpdateLeft, Less
  <2>3. CASE UpdateReturns(r)
    <3>1. update[r] = "status" /\ update'[r] = "done"
      BY <2>3 DEF UpdateReturns
    <3>2. /\ MaxTries - tries[r] >= 0 /\ 2 * (MaxFileIds + 1 - pos[r]) + 1 > 0
          /\ MaxTries - tries[r] \in Int
      BY <1>2
    <3>. QED
      BY <3>1, <3>2 DEF UpdateLeft, Less
  <2>4. CASE UpdateDies(r)
    <3>1. CASE tries[r] < MaxTries
      <4>1. /\ update[r] \in {"status", "clean"} /\ update'[r] = "status"
            /\ tries'[r] = tries[r] + 1
        BY <2>4, <3>1 DEF UpdateDies
      <4>2. MaxTries - (tries[r] + 1) < MaxTries - tries[r]
        BY <1>2
      <4>. QED
        BY <4>1, <4>2 DEF UpdateLeft, Less
    <3>2. CASE ~(tries[r] < MaxTries)
      <4>1. /\ update[r] \in {"status", "clean"} /\ update'[r] = "dead"
        BY <2>4, <3>2 DEF UpdateDies
      <4>2. MaxTries - tries[r] = 0
        BY <1>2, <3>2
      <4>3. CASE update[r] = "status"
        <5>1. 2 * (MaxFileIds + 1 - pos[r]) + 1 > 0
          BY <1>2
        <5>. QED
          BY <4>1, <4>2, <4>3, <5>1 DEF UpdateLeft, Less
      <4>4. CASE update[r] = "clean"
        <5>1. pos[r] \in Slots
          BY <4>4, ListDomain DEF UpdateOK, SuccessfulSlots
        <5>2. 2 * (MaxFileIds + 1 - pos[r]) > 0
          BY <1>2, <5>1 DEF Slots
        <5>. QED
          BY <4>1, <4>2, <4>4, <5>2 DEF UpdateLeft, Less
      <4>. QED
        BY <4>1, <4>3, <4>4
    <3>. QED
      BY <3>1, <3>2
  <2>. QED
    BY <2>1, <2>2, <2>3, <2>4 DEF UpdateWorks
<1>. QED
  BY <1>3, <1>4 DEF Nearer, AtMost

\* The steps from stage to stage take nothing back either, a retry of
\* embed_and_store among them.
LEMMA StageNearer ==
  ASSUME IInv, SummaryOK, NEW r \in Runs, TriggerRun(r) \/ RunWorks(r) \/ TaskDies(r)
  PROVE  Nearer(r)
<1>. USE DEF IInv, TypeOK
<1>1. tries[r] \in 1 .. MaxTries /\ MaxTries \in Nat /\ MaxTries > 0
  BY BoundsAssumption
<1>2. Less(StageLeft(r)', StageLeft(r))
  <2>1. CASE TriggerRun(r)
    BY <2>1 DEF TriggerRun, LoadFile, IngestPending, TriggerByHand, Trigger, StageLeft,
                StagesToGo, Less, Ended
  <2>2. CASE RunWorks(r) /\ ~EmbedAndStore(r)
    <3>1. \/ stage[r] = "queued" /\ stage'[r] = "select"
          \/ stage[r] = "select" /\ stage'[r] \in {"success", "fetch"}
          \/ stage[r] = "fetch" /\ stage'[r] \in {"failed", "aggregate"}
          \/ stage[r] = "aggregate" /\ stage'[r] = "embed"
          \/ stage[r] = "stored" /\ stage'[r] = "publish"
          \/ stage[r] = "publish" /\ stage'[r] \in {"failed", "success"}
      BY <2>2 DEF RunWorks, StartRun, GetFileIds, FetchEnds, Aggregate, EmbedReturns, EndRun
    <3>2. StagesToGo(stage'[r]) < StagesToGo(stage[r])
      BY <3>1 DEF StagesToGo, Ended
    <3>. QED
      BY <3>2 DEF StageLeft, Less
  <2>3. CASE EmbedAndStore(r)
    <3>1. stage[r] = "embed" /\ stage'[r] = "stored" /\ tries'[r] = tries[r]
      BY <2>3 DEF EmbedAndStore
    <3>2. 2 * (MaxTries - tries[r]) < 2 * (MaxTries - tries[r]) + 1
      BY <1>1
    <3>. QED
      BY <3>1, <3>2 DEF StageLeft, StagesToGo, Less, Ended
  <2>4. CASE TaskDies(r)
    <3>1. CASE tries[r] < MaxTries
      <4>1. /\ tries'[r] = tries[r] + 1
            /\ \/ stage[r] \in {"select", "aggregate", "embed"} /\ stage'[r] = stage[r]
               \/ stage[r] = "stored" /\ stage'[r] = "embed"
        BY <2>4, <3>1 DEF TaskDies
      <4>2. /\ 2 * (MaxTries - (tries[r] + 1)) < 2 * (MaxTries - tries[r])
            /\ 2 * (MaxTries - (tries[r] + 1)) + 1 < 2 * (MaxTries - tries[r])
            /\ 2 * (MaxTries - (tries[r] + 1)) + 1 < 2 * (MaxTries - tries[r]) + 1
        BY <1>1
      <4>. QED
        BY <4>1, <4>2 DEF StageLeft, StagesToGo, Less, Ended
    <3>2. CASE ~(tries[r] < MaxTries)
      <4>1. stage[r] \in {"select", "aggregate", "embed", "stored"} /\ stage'[r] = "failed"
        BY <2>4, <3>2 DEF TaskDies
      <4>2. StagesToGo(stage'[r]) < StagesToGo(stage[r])
        BY <4>1 DEF StagesToGo, Ended
      <4>. QED
        BY <4>2 DEF StageLeft, Less
    <3>. QED
      BY <3>1, <3>2
  <2>. QED
    BY <2>1, <2>2, <2>3, <2>4 DEF RunWorks
<1>3. AtMost(UpdateLeft(r)', UpdateLeft(r))
  <2>1. CASE EmbedReturns(r)
    <3>1. update[r] = "idle" /\ update'[r] = "status" /\ tries'[r] = 1
      BY <2>1 DEF EmbedReturns, UpdateOK
    <3>2. MaxTries - 1 < MaxTries
      BY <1>1
    <3>. QED
      BY <3>1, <3>2 DEF UpdateLeft, Less, AtMost
  <2>2. CASE ~EmbedReturns(r)
    <3>1. update'[r] = update[r] /\ pos'[r] = pos[r]
      BY <2>2 DEF TriggerRun, LoadFile, IngestPending, TriggerByHand, Trigger, RunWorks, StartRun,
                  GetFileIds, FetchEnds, Aggregate, EmbedAndStore, EndRun, TaskDies, leaves
    <3>2. tries'[r] = tries[r] \/ update[r] = "idle"
      BY <2>2 DEF TriggerRun, LoadFile, IngestPending, TriggerByHand, Trigger, RunWorks, StartRun,
                  GetFileIds, FetchEnds, Aggregate, EmbedAndStore, EndRun, TaskDies, UpdateOK,
                  Before
    <3>. QED
      BY <3>1, <3>2 DEF UpdateLeft, AtMost
  <2>. QED
    BY <2>1, <2>2
<1>4. AtMost(SummaryLeft(r)', SummaryLeft(r))
  <2>1. CASE EmbedReturns(r)
    BY <2>1 DEF EmbedReturns, SummaryOK, SummaryLeft, Less, AtMost
  <2>2. CASE ~EmbedReturns(r)
    <3>1. summary'[r] = summary[r]
      BY <2>2 DEF TriggerRun, LoadFile, IngestPending, TriggerByHand, Trigger, RunWorks, StartRun,
                  GetFileIds, FetchEnds, Aggregate, EmbedAndStore, EndRun, TaskDies, leaves
    <3>. QED
      BY <3>1 DEF SummaryLeft, AtMost
  <2>. QED
    BY <2>1, <2>2
<1>5. ASSUME NEW i \in Slots
      PROVE  AtMost(FetchLeft(r, i)', FetchLeft(r, i))
  <2>1. CASE GetFileIds(r)
    <3>1. /\ stage[r] = "select" /\ stage'[r] \in {"success", "fetch"} /\ attempt' = attempt
          /\ fetch'[r][i] \in {"scheduled", "idle"}
      BY <2>1 DEF GetFileIds
    <3>2. attempt[r][i] \in 1 .. MaxTries
      OBVIOUS
    <3>3. MaxTries - attempt[r][i] < MaxTries /\ 0 < MaxTries
      BY <1>1, <3>2
    <3>. QED
      BY <3>1, <3>3 DEF FetchLeft, FetchOpen, Less, AtMost
  <2>2. CASE ~GetFileIds(r)
    <3>1. fetch' = fetch /\ attempt' = attempt
      BY <2>2, OtherEffect DEF RunWorks, RunDies
    <3>2. CASE stage[r] \in {"none", "queued", "select"} /\ stage'[r] \notin {"none", "queued", "select"}
      <4>1. TaskDies(r) /\ stage'[r] = "failed" /\ stage[r] = "select"
        BY <2>2, <3>2 DEF TriggerRun, LoadFile, IngestPending, TriggerByHand, Trigger, RunWorks,
                          StartRun, FetchEnds, Aggregate, EmbedAndStore, EmbedReturns, EndRun,
                          TaskDies
      <4>2. fetch[r][i] = "idle"
        BY <4>1, ListDomain, EmptyList DEF SlotsOK, Before
      <4>. QED
        BY <1>1, <3>1, <4>1, <4>2 DEF FetchLeft, FetchOpen, Less, AtMost
    <3>3. CASE stage[r] \in {"none", "queued", "select"} /\ stage'[r] \in {"none", "queued", "select"}
      BY <3>1, <3>3 DEF FetchLeft, AtMost
    <3>4. CASE stage[r] \notin {"none", "queued", "select"}
      <4>1. stage'[r] \notin {"none", "queued", "select"}
        BY <2>2, <3>4 DEF TriggerRun, LoadFile, IngestPending, TriggerByHand, Trigger, RunWorks,
                          StartRun, FetchEnds, Aggregate, EmbedAndStore, EmbedReturns, EndRun,
                          TaskDies
      <4>. QED
        BY <3>1, <3>4, <4>1 DEF FetchLeft, FetchOpen, AtMost
    <3>. QED
      BY <3>2, <3>3, <3>4
  <2>. QED
    BY <2>1, <2>2
<1>. QED
  BY <1>2, <1>3, <1>4, <1>5 DEF Nearer, AtMost

LEMMA SummaryNearer ==
  ASSUME NEW r \in Runs, summary \in [Runs -> {"idle", "running", "done", "dead"}],
         Summarize(r) \/ SummarizeDies(r)
  PROVE  Nearer(r)
<1>1. summary[r] = "running" /\ summary'[r] \in {"done", "dead"}
  BY DEF Summarize, SummarizeDies
<1>2. UNCHANGED <<stage, tries, fetch, attempt, update, pos>>
  BY DEF Summarize, SummarizeDies, mapped
<1>3. Less(SummaryLeft(r)', SummaryLeft(r))
  BY <1>1 DEF SummaryLeft, Less
<1>4. /\ StageLeft(r)' = StageLeft(r) /\ UpdateLeft(r)' = UpdateLeft(r)
      /\ \A i \in Slots : FetchLeft(r, i)' = FetchLeft(r, i)
  BY <1>2 DEF StageLeft, UpdateLeft, FetchLeft
<1>. QED
  BY <1>3, <1>4 DEF Nearer, AtMost

\* What is left of a run is counted in natural numbers, so it can only get less
\* so often: RunsAdvance goes down a well-founded order.
LeftIsCounted ==
  \A r \in Runs :
    /\ {StageLeft(r), UpdateLeft(r), SummaryLeft(r)} \subseteq Nat \X Nat
    /\ \A i \in Slots : FetchLeft(r, i) \in Nat \X Nat

LEMMA NothingBelowNone == TypeOK => LeftIsCounted
<1>. SUFFICES ASSUME TypeOK, NEW r \in Runs
              PROVE  /\ {StageLeft(r), UpdateLeft(r), SummaryLeft(r)} \subseteq Nat \X Nat
                     /\ \A i \in Slots : FetchLeft(r, i) \in Nat \X Nat
  BY DEF LeftIsCounted
<1>. USE BoundsAssumption DEF TypeOK
<1>1. StagesToGo(stage[r]) \in Nat
  BY DEF StagesToGo, Stages, Before, Ended, Active
<1>2. StageLeft(r) \in Nat \X Nat
  BY <1>1 DEF StageLeft
<1>3. UpdateLeft(r) \in Nat \X Nat
  BY DEF UpdateLeft
<1>4. SummaryLeft(r) \in Nat \X Nat
  BY DEF SummaryLeft
<1>5. ASSUME NEW i \in Slots
      PROVE  FetchLeft(r, i) \in Nat \X Nat
  BY DEF FetchLeft, FetchOpen, FetchStates
<1>. QED
  BY <1>2, <1>3, <1>4, <1>5

\* Every step of a run, retries included, uses up what is left of it, and what
\* is left is counted in natural numbers: no run goes on for ever.
THEOREM RunsDoAdvance == Spec => RunsAdvance /\ []LeftIsCounted
<1>1. Init => SummaryOK
  BY DEF Init, SummaryOK
<1>2. IInv /\ SummaryOK /\ [Next]_vars => SummaryOK'
  BY SummaryStep
<1>3. IInv /\ SummaryOK /\ [Next]_vars
        => [\A r \in Runs : RunState(r)' # RunState(r) => Nearer(r)]_vars
  <2>. SUFFICES ASSUME IInv, SummaryOK, [Next]_vars, NEW r \in Runs, RunState(r)' # RunState(r)
                PROVE  Nearer(r)
    OBVIOUS
  <2>1. Own(r)
    BY OthersLeaveRun DEF IInv
  <2>. QED
    BY <2>1, FetchNearer, UpdateNearer, StageNearer, SummaryNearer
    DEF Own, RunDies, IInv, TypeOK
<1>. QED
  BY <1>1, <1>2, <1>3, Invariance, TypeCorrect, NothingBelowNone, PTL DEF Spec, RunsAdvance
==============================================================================
