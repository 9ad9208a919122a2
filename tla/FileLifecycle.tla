---------------------------- MODULE FileLifecycle ----------------------------
(***************************************************************************)
(* What ingestion promises about one row of file_records to those who read *)
(* it (the /admin lists, the dashboards, the RAG query), whatever runs are *)
(* triggered, interleave, fail or are retried:                             *)
(*   - a file leaves PENDING only by being picked up for processing, and   *)
(*     never becomes PENDING again, so process_pending never repeats it;   *)
(*   - only a file that has been picked up has chunks in ChromaDB, and     *)
(*     chunks are never taken away;                                        *)
(*   - a file becomes LOADED only with a count of chunks that it has;      *)
(*   - a row has an error message if and only if its file has failed once, *)
(*     so a LOADED row may show the message of an earlier attempt.         *)
(***************************************************************************)
EXTENDS Integers

CONSTANT Files

VARIABLES
  status,      \* the status column
  chunkCount,  \* the chunk_count column
  errorMessage, \* whether the error_message column has a message
  stored       \* how many chunks of each file ChromaDB holds

vars == <<status, chunkCount, errorMessage, stored>>

Begun(f) == status[f] \notin {"UNREGISTERED", "PENDING"}

Init ==
  /\ status = [f \in Files |-> "UNREGISTERED"]
  /\ chunkCount = [f \in Files |-> 0]
  /\ errorMessage = [f \in Files |-> FALSE]
  /\ stored = [f \in Files |-> 0]

Register(f) ==
  /\ status[f] = "UNREGISTERED"
  /\ status' = [status EXCEPT ![f] = "PENDING"]
  /\ UNCHANGED <<chunkCount, errorMessage, stored>>

\* A file in any state may be ingested, again or while it is being ingested.
Begin(f) ==
  /\ status[f] # "UNREGISTERED"
  /\ status' = [status EXCEPT ![f] = "PROCESSING"]
  /\ UNCHANGED <<chunkCount, errorMessage, stored>>

Fail(f) ==
  /\ Begun(f)
  /\ status' = [status EXCEPT ![f] = "FAILED"]
  /\ errorMessage' = [errorMessage EXCEPT ![f] = TRUE]
  /\ UNCHANGED <<chunkCount, stored>>

\* One batch may bring chunks of several files.
Store ==
  /\ stored' \in [Files -> Nat]
  /\ \A f \in Files : stored'[f] >= stored[f]
  /\ \A f \in Files : stored'[f] > stored[f] => Begun(f)
  /\ UNCHANGED <<status, chunkCount, errorMessage>>

Load(f) ==
  /\ Begun(f)
  /\ status' = [status EXCEPT ![f] = "LOADED"]
  /\ chunkCount' \in [Files -> Nat]
  /\ chunkCount'[f] \in 1 .. stored[f]
  /\ \A g \in Files \ {f} : chunkCount'[g] = chunkCount[g]
  /\ UNCHANGED <<errorMessage, stored>>

Next ==
  \/ Store
  \/ \E f \in Files : Register(f) \/ Begin(f) \/ Fail(f) \/ Load(f)

Spec == Init /\ [][Next]_vars
==============================================================================
