--------------------------- MODULE DeadQueueProofs ---------------------------
(***************************************************************************)
(* The dead queue when runs keep apart.  As long as no two active runs     *)
(* have a file in common, and with a database that takes every entry,      *)
(* file_records and dead_queue agree at rest, for any files, runs, batches *)
(* and tries, and whichever tasks die.  ingestion_dag.py:36 admits three   *)
(* active runs and nothing keeps them apart: with two of them on one file  *)
(* the tables need not agree (the run dead_queue_race).                    *)
(***************************************************************************)
EXTENDS IngestionProofs

\* A file is in the list of one active run at most, if maybe twice in it.
FilesOf(r) == {ids[r][i] : i \in DOMAIN ids[r]} \cap Files
Apart ==
  \A q, r \in Runs : stage[q] \in Active /\ stage[r] \in Active /\ q # r
                      => FilesOf(q) \cap FilesOf(r) = {}

SomeRunFailed == \E r \in Runs : stage[r] = "failed"

\* An instance at work has set the status of its file last.
FetchTouches ==
  \A r \in Runs, i \in Slots :
    stage[r] = "fetch" /\ fetch[r][i] \in {"processing", "failing"}
      => status[ids[r][i]] \in {"PROCESSING", "FAILED"}

\* Between the two transactions of update_metadata for a file it stays LOADED.
CleanLoaded ==
  \A r \in Runs : stage[r] = "publish" /\ update[r] = "clean" => status[ids[r][pos[r]]] = "LOADED"

\* The instance has set its file to FAILED, or may have, and wrote no entry.
Owing(r, i) == \/ fetch[r][i] \in {"failing", "dead"}
               \/ fetch[r][i] = "scheduled" /\ attempt[r][i] > 1

FailedOK ==
  \A f \in Files : status[f] = "FAILED" /\ Entries(f) = {} =>
    \/ SomeRunFailed
    \/ \E r \in Runs : \E i \in DOMAIN ids[r] : stage[r] = "fetch" /\ ids[r][i] = f /\ Owing(r, i)

\* update_metadata is still to clean up after the file of the slot, or died.
Cleaning(r, i) == update[r] = "dead" \/ (update[r] \in {"status", "clean"} /\ i >= pos[r])

LoadedOK ==
  \A f \in Files : status[f] = "LOADED" /\ Entries(f) # {} =>
    \/ SomeRunFailed
    \/ \E r \in Runs : \E i \in SuccessfulSlots(r) :
         stage[r] = "publish" /\ ids[r][i] = f /\ Cleaning(r, i)

QueueInv == FetchTouches /\ CleanLoaded /\ LoadedOK

LEMMA InitQueueInv == Init => QueueInv /\ FailedOK
  BY DEF Init, QueueInv, FetchTouches, CleanLoaded, FailedOK, LoadedOK

------------------------------------------------------------------------------
(* What the steps do to the stores and to the stages.                      *)

\* The four writes of the status column.
LEMMA StatusEffect ==
  ASSUME IInv, [Next]_vars, NEW f \in Files, status'[f] # status[f]
  PROVE  \/ status[f] = "UNREGISTERED" /\ status'[f] = "PENDING"
         \/ \E r \in Runs, i \in Slots :
              ids[r][i] = f /\ FetchBegin(r, i) /\ status'[f] = "PROCESSING"
         \/ \E r \in Runs, i \in Slots :
              ids[r][i] = f /\ FetchFails(r, i) /\ status'[f] = "FAILED"
         \/ \E r \in Runs : /\ UpdateLoaded(r) /\ status'[f] = "LOADED"
                            /\ pos'[r] \in SuccessfulSlots(r) /\ ids[r][pos'[r]] = f
<1>. USE DEF IInv, TypeOK, SetStatus
<1>1. ASSUME NEW g \in Files, RegisterFile(g)
      PROVE  status[f] = "UNREGISTERED" /\ status'[f] = "PENDING"
  BY <1>1 DEF RegisterFile, Registered
<1>2. ASSUME NEW r \in Runs, NEW i \in Slots, FetchWorks(r, i) \/ FetchDies(r, i)
      PROVE  \/ ids[r][i] = f /\ FetchBegin(r, i) /\ status'[f] = "PROCESSING"
             \/ ids[r][i] = f /\ FetchFails(r, i) /\ status'[f] = "FAILED"
  BY <1>2 DEF FetchWorks, FetchUnknown, FetchBegin, FetchSucceeds, FetchFails, WriteDeadQueue,
              FetchReturnsFailure, FetchDies
<1>3. ASSUME NEW r \in Runs, RunWorks(r)
      PROVE  FALSE
  BY <1>3 DEF RunWorks, StartRun, GetFileIds, FetchEnds, Aggregate, EmbedAndStore, EmbedReturns,
              EndRun, records
<1>4. ASSUME NEW r \in Runs, UpdateLoaded(r)
      PROVE  status'[f] = "LOADED" /\ pos'[r] \in SuccessfulSlots(r) /\ ids[r][pos'[r]] = f
  <2>1. PICK i \in Remaining(r) : /\ status' = [status EXCEPT ![ids[r][i]] = "LOADED"]
                                  /\ pos' = [pos EXCEPT ![r] = i]
    BY <1>4 DEF UpdateLoaded
  <2>2. i \in SuccessfulSlots(r) /\ pos'[r] = i
    BY <2>1 DEF Remaining
  <2>. QED
    BY <2>1, <2>2
<1>5. ASSUME NEW r \in Runs, UpdateWorks(r) \/ Summarize(r) \/ RunDies(r) \/ TriggerRun(r),
             ~UpdateLoaded(r)
      PROVE  FALSE
  BY <1>5 DEF UpdateWorks, RemoveFromDeadQueue, UpdateReturns, Summarize, RunDies, TaskDies,
              UpdateDies, SummarizeDies, TriggerRun, LoadFile, IngestPending, TriggerByHand,
              Trigger, records
<1>6. ~UNCHANGED vars
  BY DEF vars, records
<1>. QED
  BY <1>1, <1>2, <1>3, <1>4, <1>5, <1>6 DEF Next

\* The two writes of dead_queue.
LEMMA QueueEffect ==
  ASSUME [Next]_vars
  PROVE  \/ UNCHANGED deadQueue
         \/ \E r \in Runs, i \in Slots : WriteDeadQueue(r, i)
         \/ \E r \in Runs : RemoveFromDeadQueue(r)
<1>1. ASSUME NEW r \in Runs, NEW i \in Slots, FetchWorks(r, i) \/ FetchDies(r, i),
             ~WriteDeadQueue(r, i)
      PROVE  UNCHANGED deadQueue
  BY <1>1 DEF FetchWorks, FetchUnknown, FetchBegin, FetchSucceeds, FetchFails,
              FetchReturnsFailure, FetchDies
<1>2. ASSUME NEW r \in Runs, RunWorks(r)
      PROVE  UNCHANGED deadQueue
  BY <1>2 DEF RunWorks, StartRun, GetFileIds, FetchEnds, Aggregate, EmbedAndStore, EmbedReturns,
              EndRun
<1>3. ASSUME NEW r \in Runs, UpdateWorks(r) \/ Summarize(r) \/ RunDies(r) \/ TriggerRun(r),
             ~RemoveFromDeadQueue(r)
      PROVE  UNCHANGED deadQueue
  BY <1>3 DEF UpdateWorks, UpdateLoaded, UpdateReturns, Summarize, RunDies, TaskDies,
              UpdateDies, SummarizeDies, TriggerRun, LoadFile, IngestPending, TriggerByHand,
              Trigger
<1>. QED
  BY <1>1, <1>2, <1>3 DEF Next, RegisterFile, vars

\* Which steps bring a run to a stage, or take it away from one.
LEMMA StageEffect ==
  ASSUME TypeOK, [Next]_vars, NEW r \in Runs
  PROVE  /\ stage'[r] \in Active => stage[r] \in Active \/ StartRun(r)
         /\ stage[r] = "failed" => stage'[r] = "failed"
         /\ stage'[r] = "fetch" => stage[r] = "fetch" \/ GetFileIds(r)
         /\ stage[r] = "fetch" => stage'[r] = "fetch" \/ FetchEnds(r)
         /\ stage'[r] = "publish" => stage[r] = "publish" \/ EmbedReturns(r)
         /\ stage[r] = "publish" => stage'[r] = "publish" \/ EndRun(r)
<1>. USE DEF TypeOK, Active
<1>. DEFINE Goal == /\ stage'[r] \in Active => stage[r] \in Active \/ StartRun(r)
                    /\ stage[r] = "failed" => stage'[r] = "failed"
                    /\ stage'[r] = "fetch" => stage[r] = "fetch" \/ GetFileIds(r)
                    /\ stage[r] = "fetch" => stage'[r] = "fetch" \/ FetchEnds(r)
                    /\ stage'[r] = "publish" => stage[r] = "publish" \/ EmbedReturns(r)
                    /\ stage[r] = "publish" => stage'[r] = "publish" \/ EndRun(r)
<1>1. CASE UNCHANGED stage
  BY <1>1
<1>2. ASSUME NEW q \in Runs, \/ TriggerRun(q) \/ TaskDies(q) \/ Aggregate(q) \/ EmbedAndStore(q)
      PROVE  Goal
  BY <1>2 DEF TriggerRun, LoadFile, IngestPending, TriggerByHand, Trigger, TaskDies, Aggregate,
              EmbedAndStore
<1>3. ASSUME NEW q \in Runs, StartRun(q) \/ FetchEnds(q) \/ EmbedReturns(q) \/ EndRun(q)
      PROVE  Goal
  <2>1. CASE q = r
    BY <1>3, <2>1 DEF StartRun, FetchEnds, EmbedReturns, EndRun
  <2>2. CASE q # r
    <3>1. stage'[r] = stage[r]
      BY <1>3, <2>2 DEF StartRun, FetchEnds, EmbedReturns, EndRun
    <3>. QED
      BY <3>1
  <2>. QED
    BY <2>1, <2>2
<1>4. ASSUME NEW q \in Runs, GetFileIds(q)
      PROVE  Goal
  <2>1. CASE q = r
    BY <1>4, <2>1 DEF GetFileIds
  <2>2. CASE q # r
    <3>1. stage'[r] = stage[r]
      BY <1>4, <2>2 DEF GetFileIds
    <3>. QED
      BY <3>1
  <2>. QED
    BY <2>1, <2>2
<1>5. \/ UNCHANGED stage
      \/ \E q \in Runs : \/ TriggerRun(q) \/ TaskDies(q) \/ Aggregate(q) \/ EmbedAndStore(q)
                         \/ StartRun(q) \/ FetchEnds(q) \/ EmbedReturns(q) \/ EndRun(q)
                         \/ GetFileIds(q)
  BY FetchEffect
  DEF Next, vars, RegisterFile, RunWorks, UpdateWorks, UpdateLoaded, RemoveFromDeadQueue,
      UpdateReturns, Summarize, RunDies, UpdateDies, SummarizeDies
<1>. QED
  BY <1>1, <1>2, <1>3, <1>4, <1>5

\* How the mapped instances of a run change.
LEMMA InstanceEffect ==
  ASSUME IInv, [Next]_vars, NEW r \in Runs, stage[r] = "fetch"
  PROVE  /\ ids'[r] = ids[r]
         /\ \A i \in Slots : \/ FetchWorks(r, i) \/ FetchDies(r, i)
                             \/ fetch'[r][i] = fetch[r][i] /\ attempt'[r][i] = attempt[r][i]
<1>. USE DEF IInv, TypeOK
<1>. DEFINE Same == /\ ids'[r] = ids[r]
                    /\ \A i \in Slots : fetch'[r][i] = fetch[r][i] /\ attempt'[r][i] = attempt[r][i]
<1>1. ASSUME NEW q \in Runs, NEW j \in Slots, FetchWorks(q, j) \/ FetchDies(q, j)
      PROVE  /\ ids'[r] = ids[r]
             /\ \A i \in Slots : \/ q = r /\ j = i
                                 \/ fetch'[r][i] = fetch[r][i] /\ attempt'[r][i] = attempt[r][i]
  <2>1. ids' = ids
    BY <1>1, FetchEffect
  <2>2. PICK to : fetch' = [fetch EXCEPT ![q][j] = to]
    BY <1>1, FetchEffect
  <2>3. attempt' = attempt \/ attempt' = [attempt EXCEPT ![q][j] = @ + 1]
    BY <1>1 DEF FetchWorks, FetchUnknown, FetchBegin, FetchSucceeds, FetchFails, WriteDeadQueue,
                FetchReturnsFailure, FetchDies
  <2>4. ASSUME NEW i \in Slots, q # r \/ j # i
        PROVE  fetch'[r][i] = fetch[r][i] /\ attempt'[r][i] = attempt[r][i]
    <3>1. CASE q # r
      BY <2>2, <2>3, <3>1
    <3>2. CASE q = r /\ j # i
      BY <2>2, <2>3, <3>2
    <3>. QED
      BY <2>4, <3>1, <3>2
  <2>. QED
    BY <2>1, <2>4
<1>2. ASSUME NEW q \in Runs, GetFileIds(q)
      PROVE  Same
  <2>1. q # r
    BY <1>2 DEF GetFileIds
  <2>2. PICK list \in FileIdLists :
          /\ ids' = [ids EXCEPT ![q] = list]
          /\ fetch' = [fetch EXCEPT ![q] =
                         [i \in Slots |-> IF i \in DOMAIN list THEN "scheduled" ELSE "idle"]]
    BY <1>2 DEF GetFileIds
  <2>. QED
    BY <1>2, <2>1, <2>2 DEF GetFileIds
<1>3. ASSUME NEW q \in Runs,
             \/ TriggerRun(q) \/ UpdateWorks(q) \/ Summarize(q) \/ RunDies(q)
             \/ StartRun(q) \/ FetchEnds(q) \/ Aggregate(q) \/ EmbedAndStore(q) \/ EmbedReturns(q)
             \/ EndRun(q)
      PROVE  Same
  BY <1>3, OtherEffect
<1>4. ASSUME \/ UNCHANGED vars \/ \E f \in Files : RegisterFile(f)
      PROVE  Same
  BY <1>4 DEF vars, RegisterFile, mapped
<1>. QED
  BY <1>1, <1>2, <1>3, <1>4 DEF Next, RunWorks

\* Where update_metadata of a run stands changes by its own steps alone.
LEMMA LeafEffect ==
  ASSUME IInv, [Next]_vars, NEW r \in Runs, stage[r] = "publish"
  PROVE  \/ UpdateWorks(r) \/ UpdateDies(r)
         \/ update'[r] = update[r] /\ pos'[r] = pos[r]
<1>. USE DEF IInv, TypeOK
<1>1. ASSUME NEW q \in Runs, NEW j \in Slots, FetchWorks(q, j) \/ FetchDies(q, j)
      PROVE  UNCHANGED <<update, pos>>
  BY <1>1, FetchEffect
<1>2. ASSUME NEW q \in Runs, RunWorks(q)
      PROVE  update'[r] = update[r] /\ pos'[r] = pos[r]
  BY <1>2 DEF RunWorks, StartRun, GetFileIds, FetchEnds, Aggregate, EmbedAndStore, EmbedReturns,
              EndRun, leaves
<1>3. ASSUME NEW q \in Runs, UpdateWorks(q) \/ UpdateDies(q), q # r
      PROVE  update'[r] = update[r] /\ pos'[r] = pos[r]
  BY <1>3 DEF UpdateWorks, UpdateLoaded, RemoveFromDeadQueue, UpdateReturns, UpdateDies
<1>4. ASSUME NEW q \in Runs, Summarize(q) \/ TaskDies(q) \/ SummarizeDies(q) \/ TriggerRun(q)
      PROVE  UNCHANGED <<update, pos>>
  BY <1>4 DEF Summarize, TaskDies, SummarizeDies, TriggerRun, LoadFile, IngestPending,
              TriggerByHand, Trigger, leaves
<1>. QED
  BY <1>1, <1>2, <1>3, <1>4 DEF Next, RegisterFile, RunDies, vars, leaves

------------------------------------------------------------------------------
(* Each part of QueueInv is kept while runs are apart.                     *)

LEMMA TouchesStep ==
  ASSUME Apart, IInv, IInv', QueueInv, [Next]_vars
  PROVE  FetchTouches'
<1>. SUFFICES ASSUME NEW r \in Runs, NEW i \in Slots, stage'[r] = "fetch",
                     fetch'[r][i] \in {"processing", "failing"}
              PROVE  status'[ids'[r][i]] \in {"PROCESSING", "FAILED"}
  BY DEF FetchTouches
<1>. USE DEF IInv, TypeOK
<1>1. CASE GetFileIds(r)
  BY <1>1 DEF GetFileIds
<1>2. CASE stage[r] = "fetch"
  <2>1. ids'[r] = ids[r]
    BY <1>2, InstanceEffect
  <2>2. CASE FetchBegin(r, i) \/ FetchFails(r, i)
    <3>1. ids[r][i] \in Files
      BY <2>2 DEF FetchBegin, FetchFails, FetchStep, Registered, WorkingOK, Begun
    <3>. QED
      BY <2>1, <2>2, <3>1 DEF FetchBegin, FetchFails, SetStatus
  <2>3. CASE fetch'[r][i] = fetch[r][i]
    <3>. DEFINE f == ids[r][i]
    <3>1. status[f] \in {"PROCESSING", "FAILED"} /\ f \in Files
      BY <1>2, <2>3 DEF QueueInv, FetchTouches, WorkingOK, Begun
    <3>2. ASSUME NEW q \in Runs, UpdateLoaded(q), NEW j \in SuccessfulSlots(q), ids[q][j] = f
          PROVE  FALSE
      <4>1. i \in DOMAIN ids[r]
        BY <1>2, <2>3 DEF SlotsOK
      <4>2. f \in FilesOf(r) /\ f \in FilesOf(q)
        BY <3>1, <3>2, <4>1 DEF FilesOf, SuccessfulSlots
      <4>3. q # r /\ stage[q] \in Active /\ stage[r] \in Active
        BY <1>2, <3>2 DEF UpdateLoaded, Active
      <4>. QED
        BY <4>2, <4>3 DEF Apart
    <3>3. CASE status'[f] = status[f]
      BY <2>1, <3>1, <3>3
    <3>4. CASE status'[f] # status[f]
      <4>1. status'[f] \in {"PROCESSING", "FAILED"}
        BY <3>1, <3>2, <3>4, StatusEffect
      <4>. QED
        BY <2>1, <4>1
    <3>. QED
      BY <3>3, <3>4
  <2>4. CASE \/ FetchUnknown(r, i) \/ FetchSucceeds(r, i) \/ WriteDeadQueue(r, i)
             \/ FetchReturnsFailure(r, i) \/ FetchDies(r, i)
    BY <2>4 DEF FetchUnknown, FetchSucceeds, WriteDeadQueue, FetchReturnsFailure, FetchDies,
                FetchStep
  <2>. QED
    BY <1>2, <2>2, <2>3, <2>4, InstanceEffect DEF FetchWorks
<1>. QED
  BY <1>1, <1>2, StageEffect

LEMMA CleanStep ==
  ASSUME Apart, IInv, QueueInv, [Next]_vars
  PROVE  CleanLoaded'
<1>. SUFFICES ASSUME NEW r \in Runs, stage'[r] = "publish", update'[r] = "clean"
              PROVE  status'[ids'[r][pos'[r]]] = "LOADED"
  BY DEF CleanLoaded
<1>. USE DEF IInv, TypeOK
<1>1. CASE EmbedReturns(r)
  BY <1>1 DEF EmbedReturns
<1>2. CASE stage[r] = "publish"
  <2>1. ids'[r] = ids[r]
    BY <1>2, StableRun DEF Batch
  <2>2. CASE UpdateLoaded(r)
    <3>1. PICK i \in Remaining(r) : /\ status' = [status EXCEPT ![ids[r][i]] = "LOADED"]
                                    /\ pos' = [pos EXCEPT ![r] = i]
      BY <2>2 DEF UpdateLoaded, SetStatus
    <3>2. ids[r][i] \in Files
      <4>1. i \in DOMAIN ids[r] /\ fetch[r][i] = "parsed" /\ i \in Slots
        BY ListDomain DEF Remaining, SuccessfulSlots
      <4>. QED
        BY <4>1 DEF WorkingOK, Begun
    <3>. QED
      BY <2>1, <3>1, <3>2
  <2>3. CASE ~UpdateLoaded(r)
    <3>1. update[r] = "clean" /\ pos'[r] = pos[r]
      BY <1>2, <2>3, LeafEffect DEF UpdateWorks, RemoveFromDeadQueue, UpdateReturns, UpdateDies
    <3>2. status[ids[r][pos[r]]] = "LOADED"
      BY <1>2, <3>1 DEF QueueInv, CleanLoaded
    <3>3. ids[r][pos[r]] \in FilesOf(r)
      <4>1. pos[r] \in DOMAIN ids[r] /\ fetch[r][pos[r]] = "parsed" /\ pos[r] \in Slots
        BY <3>1, ListDomain DEF UpdateOK, SuccessfulSlots
      <4>. QED
        BY <4>1 DEF WorkingOK, Begun, FilesOf
    <3>4. ASSUME NEW q \in Runs, NEW j \in Slots, FetchBegin(q, j) \/ FetchFails(q, j),
                 ids[q][j] = ids[r][pos[r]]
          PROVE  FALSE
      <4>1. stage[q] = "fetch" /\ fetch[q][j] \in {"scheduled", "processing"}
        BY <3>4 DEF FetchBegin, FetchFails, FetchStep
      <4>2. j \in DOMAIN ids[q]
        BY <4>1 DEF SlotsOK
      <4>3. ids[r][pos[r]] \in FilesOf(q)
        BY <3>3, <3>4, <4>2 DEF FilesOf
      <4>4. q # r /\ stage[q] \in Active /\ stage[r] \in Active
        BY <1>2, <4>1 DEF Active
      <4>. QED
        BY <3>3, <4>3, <4>4 DEF Apart
    <3>. QED
      BY <2>1, <3>1, <3>2, <3>3, <3>4, StatusEffect DEF FilesOf
  <2>. QED
    BY <2>2, <2>3
<1>. QED
  BY <1>1, <1>2, StageEffect

LEMMA FailedStep ==
  ASSUME DeadQueueMayFail = FALSE, IInv, QueueInv, FailedOK, [Next]_vars
  PROVE  FailedOK'
<1>. SUFFICES ASSUME NEW f \in Files, status'[f] = "FAILED", Entries(f)' = {}, ~SomeRunFailed'
              PROVE  \E r \in Runs : \E i \in DOMAIN ids'[r] :
                       stage'[r] = "fetch" /\ ids'[r][i] = f /\ Owing(r, i)'
  BY DEF FailedOK
<1>. USE DEF IInv, TypeOK
<1>1. ~SomeRunFailed
  BY StageEffect DEF SomeRunFailed
<1>2. CASE status[f] # "FAILED"
  <2>1. PICK r \in Runs, i \in Slots : ids[r][i] = f /\ FetchFails(r, i)
    BY <1>2, StatusEffect
  <2>2. i \in DOMAIN ids[r]
    BY <2>1 DEF FetchFails, FetchStep, SlotsOK
  <2>3. stage'[r] = "fetch" /\ ids' = ids /\ fetch'[r][i] = "failing"
    BY <2>1 DEF FetchFails, FetchStep
  <2>. QED
    BY <2>1, <2>2, <2>3 DEF Owing
<1>3. CASE status[f] = "FAILED" /\ Entries(f) # {}
  <2>1. ~UNCHANGED deadQueue /\ \A r \in Runs, i \in Slots : ~WriteDeadQueue(r, i)
    BY <1>3 DEF WriteDeadQueue, Entries
  <2>2. PICK r \in Runs : RemoveFromDeadQueue(r)
    BY <2>1, QueueEffect
  <2>3. f = ids[r][pos[r]]
    BY <1>3, <2>2 DEF RemoveFromDeadQueue, Entries
  <2>. QED
    BY <1>3, <2>2, <2>3 DEF RemoveFromDeadQueue, QueueInv, CleanLoaded
<1>4. CASE status[f] = "FAILED" /\ Entries(f) = {}
  <2>1. PICK r \in Runs : \E i \in DOMAIN ids[r] : stage[r] = "fetch" /\ ids[r][i] = f /\ Owing(r, i)
    BY <1>1, <1>4 DEF FailedOK
  <2>2. PICK i \in DOMAIN ids[r] : stage[r] = "fetch" /\ ids[r][i] = f /\ Owing(r, i)
    BY <2>1
  <2>3. i \in Slots /\ ids'[r] = ids[r]
    BY <2>2, ListDomain, InstanceEffect
  <2>4. stage'[r] = "fetch"
    <3>1. SUFFICES ASSUME FetchEnds(r)
                   PROVE  FALSE
      BY <2>2, StageEffect
    <3>2. fetch[r][i] = "dead"
      BY <2>2, <3>1 DEF FetchEnds, Owing, FetchOpen
    <3>. QED
      BY <2>2, <3>1, <3>2 DEF FetchEnds, SomeRunFailed
  <2>5. Owing(r, i)'
    <3>1. CASE fetch'[r][i] = fetch[r][i] /\ attempt'[r][i] = attempt[r][i]
      BY <2>2, <3>1 DEF Owing
    <3>2. CASE FetchWorks(r, i)
      <4>1. ~FetchUnknown(r, i) /\ ~FetchBegin(r, i)
        BY <1>4, <2>2 DEF FetchUnknown, FetchBegin, Registered, SetStatus
      <4>2. ~FetchSucceeds(r, i) /\ ~FetchFails(r, i) /\ ~FetchReturnsFailure(r, i)
        BY <2>2 DEF FetchSucceeds, FetchFails, FetchReturnsFailure, FetchStep, Owing
      <4>3. ~WriteDeadQueue(r, i)
        <5>. DEFINE e == [file |-> ids[r][i], run |-> r, slot |-> i, try |-> attempt[r][i]]
        <5>1. SUFFICES ASSUME WriteDeadQueue(r, i)
                       PROVE  FALSE
          OBVIOUS
        <5>2. e \in deadQueue'
          BY <5>1 DEF WriteDeadQueue
        <5>3. e.file = f
          BY <2>2
        <5>. HIDE DEF e
        <5>. QED
          BY <5>2, <5>3 DEF Entries
      <4>. QED
        BY <3>2, <4>1, <4>2, <4>3 DEF FetchWorks
    <3>3. CASE FetchDies(r, i)
      <4>1. CASE attempt[r][i] < MaxTries
        <5>1. fetch'[r][i] = "scheduled" /\ attempt'[r][i] = attempt[r][i] + 1
          BY <2>3, <3>3, <4>1 DEF FetchDies, FetchStep
        <5>2. attempt[r][i] \in 1 .. MaxTries
          BY <2>3
        <5>. QED
          BY <5>1, <5>2 DEF Owing
      <4>2. CASE ~(attempt[r][i] < MaxTries)
        <5>1. fetch'[r][i] = "dead"
          BY <2>3, <3>3, <4>2 DEF FetchDies, FetchStep
        <5>. QED
          BY <5>1 DEF Owing
      <4>. QED
        BY <4>1, <4>2
    <3>. QED
      BY <2>2, <2>3, <3>1, <3>2, <3>3, InstanceEffect
  <2>. QED
    BY <2>2, <2>3, <2>4, <2>5
<1>. QED
  BY <1>2, <1>3, <1>4

LEMMA LoadedStep ==
  ASSUME IInv, QueueInv, [Next]_vars
  PROVE  LoadedOK'
<1>. SUFFICES ASSUME NEW f \in Files, status'[f] = "LOADED", Entries(f)' # {}, ~SomeRunFailed'
              PROVE  \E r \in Runs : \E i \in SuccessfulSlots(r)' :
                       stage'[r] = "publish" /\ ids'[r][i] = f /\ Cleaning(r, i)'
  BY DEF LoadedOK
<1>. USE DEF IInv, TypeOK
<1>1. ~SomeRunFailed
  BY StageEffect DEF SomeRunFailed
<1>2. CASE status[f] # "LOADED"
  <2>1. PICK r \in Runs : UpdateLoaded(r) /\ pos'[r] \in SuccessfulSlots(r) /\ ids[r][pos'[r]] = f
    BY <1>2, StatusEffect
  <2>2. stage[r] = "publish" /\ stage'[r] = "publish" /\ update'[r] = "clean"
    BY <2>1 DEF UpdateLoaded
  <2>3. ids'[r] = ids[r] /\ SuccessfulSlots(r)' = SuccessfulSlots(r)
    BY <2>2, StableRun DEF Batch
  <2>4. pos'[r] >= pos'[r]
    BY <2>1, ListDomain DEF SuccessfulSlots, Slots
  <2>. QED
    BY <2>1, <2>2, <2>3, <2>4 DEF Cleaning
<1>3. CASE status[f] = "LOADED" /\ Entries(f) = {}
  <2>1. ~UNCHANGED deadQueue /\ \A r \in Runs : ~RemoveFromDeadQueue(r)
    BY <1>3 DEF RemoveFromDeadQueue, Entries
  <2>2. PICK r \in Runs, i \in Slots : WriteDeadQueue(r, i)
    BY <2>1, QueueEffect
  <2>3. ids[r][i] = f
    BY <1>3, <2>2 DEF WriteDeadQueue, Entries
  <2>. QED
    BY <1>3, <2>2, <2>3 DEF WriteDeadQueue, FetchStep, QueueInv, FetchTouches
<1>4. CASE status[f] = "LOADED" /\ Entries(f) # {}
  <2>1. PICK r \in Runs : \E i \in SuccessfulSlots(r) :
                            stage[r] = "publish" /\ ids[r][i] = f /\ Cleaning(r, i)
    BY <1>1, <1>4 DEF QueueInv, LoadedOK
  <2>2. PICK i \in SuccessfulSlots(r) : stage[r] = "publish" /\ ids[r][i] = f /\ Cleaning(r, i)
    BY <2>1
  <2>3. ids'[r] = ids[r] /\ SuccessfulSlots(r)' = SuccessfulSlots(r)
    BY <2>2, StableRun DEF Batch
  <2>4. i \in Slots
    BY <2>2, ListDomain DEF SuccessfulSlots
  <2>5. stage'[r] = "publish"
    <3>1. SUFFICES ASSUME EndRun(r)
                   PROVE  FALSE
      BY <2>2, StageEffect
    <3>2. update[r] = "dead"
      BY <2>2, <3>1 DEF EndRun, Cleaning
    <3>. QED
      BY <2>2, <3>1, <3>2 DEF EndRun, SomeRunFailed
  <2>6. Cleaning(r, i)'
    <3>1. CASE update'[r] = update[r] /\ pos'[r] = pos[r]
      BY <2>2, <3>1 DEF Cleaning
    <3>2. CASE UpdateLoaded(r)
      <4>1. i \in Remaining(r)
        BY <2>2, <3>2 DEF UpdateLoaded, Cleaning, Remaining
      <4>2. pos'[r] <= i /\ update'[r] = "clean"
        BY <3>2, <4>1 DEF UpdateLoaded
      <4>. QED
        BY <2>4, <4>2 DEF Cleaning, Slots
    <3>3. CASE RemoveFromDeadQueue(r)
      <4>1. pos'[r] = pos[r] + 1 /\ update'[r] = "status" /\ update[r] = "clean"
        BY <3>3 DEF RemoveFromDeadQueue
      <4>2. i >= pos[r] /\ i # pos[r]
        BY <2>2, <3>3, <4>1 DEF RemoveFromDeadQueue, Cleaning, Entries
      <4>. QED
        BY <2>4, <4>1, <4>2 DEF Cleaning, Slots
    <3>4. CASE UpdateReturns(r)
      BY <2>2, <3>4 DEF UpdateReturns, Cleaning, Remaining
    <3>5. CASE UpdateDies(r)
      BY <2>4, <3>5 DEF UpdateDies, Cleaning, Slots
    <3>. QED
      BY <2>2, <3>1, <3>2, <3>3, <3>4, <3>5, LeafEffect DEF UpdateWorks
  <2>. QED
    BY <2>2, <2>3, <2>5, <2>6
<1>. QED
  BY <1>2, <1>3, <1>4

------------------------------------------------------------------------------
(* The theorems.                                                           *)

\* While runs are apart, each finds the status it has set.
LEMMA QueueInvariance == Spec /\ []Apart => []QueueInv
<1>1. Apart /\ IInv /\ IInv' /\ QueueInv /\ [Next]_vars => QueueInv'
  BY TouchesStep, CleanStep, LoadedStep DEF QueueInv, IInv
<1>. QED
  BY <1>1, InitQueueInv, Invariance, PTL DEF Spec

\* While no two active runs share a file, and inserts into dead_queue succeed,
\* no FAILED file is missing from dead_queue at rest (the task writes the entry
\* after the status, ingestion_dag.py:222-239, and may die between the two),
\* for any files, runs, batches and tries.
THEOREM ApartFailedAreDeadLettered ==
  ASSUME DeadQueueMayFail = FALSE
  PROVE  Spec /\ []Apart => []FailedIsDeadLettered
<1>1. IInv /\ QueueInv /\ FailedOK /\ [Next]_vars => FailedOK'
  BY FailedStep
<1>2. FailedOK => FailedIsDeadLettered
  BY DEF FailedOK, FailedIsDeadLettered, AtRest, SomeRunFailed
<1>. QED
  BY <1>1, <1>2, InitQueueInv, QueueInvariance, Invariance, PTL DEF Spec

\* While no two active runs share a file, a file that was ingested after all is
\* no longer listed in dead_queue at rest: update_metadata reaches the cleaning
\* of every file it loaded, or its run fails, whether or not entries get lost.
THEOREM ApartLoadedAreNotDeadLettered ==
  Spec /\ []Apart => []LoadedIsNotDeadLettered
<1>1. QueueInv => LoadedIsNotDeadLettered
  BY DEF QueueInv, LoadedOK, LoadedIsNotDeadLettered, AtRest, SomeRunFailed
<1>. QED
  BY <1>1, QueueInvariance, PTL
==============================================================================
