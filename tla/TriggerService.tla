---------------------------- MODULE TriggerService ----------------------------
(***************************************************************************)
(* What the API promises about a request to trigger the ingestion DAG,     *)
(* whatever happens to tokens, passwords, calls and the process:           *)
(*   - a request creates at most one DAG run;                              *)
(*   - "triggered" is answered only when the run exists;                   *)
(*   - the outcome of a request is final, and every request has one;       *)
(*   - it does not promise that a request which failed, or got no answer,  *)
(*     has no run: the run may exist, and may still come into being.       *)
(* The last point is why Ingestion admits a second run over the same files *)
(* at any time: a client that was told of a failure asks again.            *)
(***************************************************************************)
EXTENDS Naturals

CONSTANT Requests

VARIABLES
  outcome,  \* of each request
  runs      \* how many DAG runs each request has created

vars == <<outcome, runs>>

Init ==
  /\ outcome = [q \in Requests |-> "none"]
  /\ runs = [q \in Requests |-> 0]

Ask(q) ==
  /\ outcome[q] = "none"
  /\ outcome' = [outcome EXCEPT ![q] = "asked"]
  /\ UNCHANGED runs

CreateRun(q) ==
  /\ outcome[q] # "none" /\ runs[q] = 0
  /\ runs' = [runs EXCEPT ![q] = 1]
  /\ UNCHANGED outcome

Answer(q) ==
  /\ outcome[q] = "asked"
  /\ \/ runs[q] = 1 /\ outcome' = [outcome EXCEPT ![q] = "triggered"]
     \/ outcome' = [outcome EXCEPT ![q] = "failed"]
  /\ UNCHANGED runs

\* A restart of the API drops all that it was asked.
Restart ==
  /\ outcome' = [q \in Requests |-> IF outcome[q] = "asked" THEN "dropped" ELSE outcome[q]]
  /\ UNCHANGED runs

Next == Restart \/ \E q \in Requests : Ask(q) \/ CreateRun(q) \/ Answer(q)

Spec == Init /\ [][Next]_vars

FairSpec == Spec /\ \A q \in Requests : WF_vars(Answer(q))
==============================================================================
