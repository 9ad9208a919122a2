------------------------- MODULE AirflowClientProofs -------------------------
(***************************************************************************)
(* Proofs about AirflowClient, for any number of requests, passwords and   *)
(* restarts: its types, its two safety properties, and that every step of  *)
(* it is a step of TriggerService or a stutter.                            *)
(***************************************************************************)
EXTENDS AirflowClient, FiniteSetTheorems, TLAPS

\* A request has one token at most, and only from a login that was granted.
LoginOK == \A q \in Requests : login[q] \in {"none", "sent"} => jwt[q] = 0

\* A POST is sent once, after the login, and only an accepted one has a run.
PostOK == \A q \in Requests :
  /\ pc[q] = "idle" => login[q] = "none"
  /\ pc[q] \in {"idle", "login"} => post[q] = "none"
  /\ pc[q] = "triggered" => post[q] = "accepted"
  /\ runs[q] = IF post[q] = "accepted" THEN 1 ELSE 0

IInv == TypeOK /\ LoginOK /\ PostOK

LEMMA InitIInv == Init => IInv
<1>1. Cardinality(Requests) \in Nat
  BY ClientAssumption, FS_CardinalityType
<1>. QED
  BY <1>1, ClientAssumption
  DEF Init, IInv, TypeOK, LoginOK, PostOK, Passwords, Tokens

\* While a login of q waits, there is a token left that nobody has.
LEMMA TokenLeft ==
  ASSUME TypeOK, LoginOK, NEW q \in Requests, login[q] = "sent"
  PROVE  Issued + 1 \in Tokens \ {0}
<1>. DEFINE H == {p \in Requests : jwt[p] # 0}
<1>1. IsFiniteSet(Requests \ {q}) /\ Cardinality(Requests \ {q}) = Cardinality(Requests) - 1
  BY ClientAssumption, FS_RemoveElement
<1>2. H \subseteq Requests \ {q}
  BY DEF LoginOK
<1>3. IsFiniteSet(H) /\ Cardinality(H) <= Cardinality(Requests \ {q})
  BY <1>1, <1>2, FS_Subset
<1>4. Cardinality(H) \in Nat /\ Cardinality(Requests) \in Nat
  BY <1>3, ClientAssumption, FS_CardinalityType
<1>. HIDE DEF H
<1>5. Cardinality(H) + 1 \in 0 .. Cardinality(Requests) /\ Cardinality(H) + 1 # 0
  BY <1>1, <1>3, <1>4
<1>. QED
  BY <1>5 DEF H, Issued, Tokens

LEMMA StepIInv == IInv /\ [Next]_vars => IInv'
<1>. SUFFICES ASSUME IInv, [Next]_vars PROVE IInv'
  OBVIOUS
<1>. USE DEF IInv, TypeOK
<1>t. Cardinality(Requests) \in Nat
  BY ClientAssumption, FS_CardinalityType
<1>1. CASE GeneratePassword
  BY <1>1, ClientAssumption
  DEF GeneratePassword, LoginOK, PostOK, process, calls, Passwords
<1>2. CASE ExportPassword
  BY <1>2 DEF ExportPassword, LoginOK, PostOK, process, calls
<1>3. CASE ExpireToken
  BY <1>3 DEF ExpireToken, LoginOK, PostOK, process, calls
<1>4. CASE StartAPI
  <2>1. TypeOK'
    BY <1>4, <1>t, ClientAssumption DEF StartAPI, airflow, calls, Open, Tokens
  <2>2. LoginOK' /\ PostOK'
    BY <1>4 DEF StartAPI, airflow, calls, Open, LoginOK, PostOK
  <2>. QED
    BY <2>1, <2>2
<1>5. ASSUME NEW q \in Requests, HandleLogin(q) PROVE IInv'
  <2>1. Issued + 1 \in Tokens \ {0}
    BY <1>5, TokenLeft DEF HandleLogin
  <2>2. TypeOK'
    BY <1>5, <2>1 DEF HandleLogin, process
  <2>3. LoginOK' /\ PostOK'
    BY <1>5 DEF HandleLogin, process, LoginOK, PostOK
  <2>. QED
    BY <2>2, <2>3
<1>6. ASSUME NEW q \in Requests, HandlePost(q) PROVE IInv'
  <2>1. TypeOK'
    BY <1>6 DEF HandlePost, airflow, process
  <2>2. LoginOK' /\ PostOK'
    BY <1>6 DEF HandlePost, airflow, process, LoginOK, PostOK
  <2>. QED
    BY <2>1, <2>2
<1>7. ASSUME NEW q \in Requests, TriggerDag(q) PROVE IInv'
  <2>1. TypeOK'
    BY <1>7 DEF TriggerDag, SendPost, SendLogin, airflow, process
  <2>2. LoginOK' /\ PostOK'
    BY <1>7 DEF TriggerDag, SendPost, SendLogin, airflow, process, LoginOK, PostOK
  <2>. QED
    BY <2>1, <2>2
<1>8. ASSUME NEW q \in Requests, LoginReturns(q) PROVE IInv'
  <2>1. TypeOK'
    BY <1>8 DEF LoginReturns, SendPost, airflow
  <2>2. LoginOK' /\ PostOK'
    BY <1>8 DEF LoginReturns, SendPost, airflow, LoginOK, PostOK
  <2>. QED
    BY <2>1, <2>2
<1>9. ASSUME NEW q \in Requests, LoginFails(q) \/ PostReturns(q) \/ PostFails(q) PROVE IInv'
  BY <1>9 DEF LoginFails, PostReturns, PostFails, airflow, process, calls, LoginOK, PostOK
<1>10. CASE UNCHANGED vars
  BY <1>10 DEF vars, airflow, process, calls, LoginOK, PostOK
<1>. QED
  BY <1>1, <1>2, <1>3, <1>4, <1>5, <1>6, <1>7, <1>8, <1>9, <1>10 DEF Next, Proceed

LEMMA Invariance == Spec => []IInv
  BY InitIInv, StepIInv, PTL DEF Spec

\* Passwords, tokens, calls and requests keep their types.
THEOREM TypeCorrect == Spec => []TypeOK
  BY Invariance, PTL DEF IInv

\* A request that was answered with "triggered" has a run in Airflow.
THEOREM TriggeredTruly == Spec => []TriggeredHasRun
<1>1. IInv => TriggeredHasRun
  BY DEF IInv, PostOK, TriggeredHasRun
<1>. QED
  BY <1>1, Invariance, PTL

\* No request creates a second run, however answers are lost or delayed.
THEOREM OneRunPerRequest == Spec => []AtMostOneRun
<1>1. IInv => AtMostOneRun
  BY DEF IInv, PostOK, AtMostOneRun
<1>. QED
  BY <1>1, Invariance, PTL

------------------------------------------------------------------------------
(* AirflowClient implements TriggerService.                                *)

LEMMA ServiceInit == Init => Service!Init
  BY DEF Init, Service!Init, Outcome, Open

\* A step that changes neither an outcome nor a run is a stutter.
LEMMA ServiceStutter ==
  ASSUME UNCHANGED runs, \A q \in Requests : Outcome(q)' = Outcome(q)
  PROVE  UNCHANGED Service!vars
  BY DEF Service!vars

\* A step that changes the outcome of one request only.
LEMMA OneOutcome ==
  ASSUME NEW q \in Requests, NEW v, Outcome(q)' = v,
         \A p \in Requests \ {q} : Outcome(p)' = Outcome(p)
  PROVE  [p \in Requests |-> Outcome(p)'] =
           [[p \in Requests |-> Outcome(p)] EXCEPT ![q] = v]
  OBVIOUS

LEMMA ServiceStep ==
  ASSUME IInv, [Next]_vars
  PROVE  [Service!Next]_(Service!vars)
<1>. USE DEF IInv, TypeOK
<1>1. CASE GeneratePassword \/ ExportPassword \/ ExpireToken \/ UNCHANGED vars
  <2>1. UNCHANGED <<pc, runs>>
    BY <1>1 DEF GeneratePassword, ExportPassword, ExpireToken, vars
  <2>. QED
    BY <2>1, ServiceStutter DEF Outcome, Open
<1>2. CASE StartAPI
  <2>1. UNCHANGED runs
    BY <1>2 DEF StartAPI
  <2>2. \A q \in Requests : Outcome(q)' = IF Outcome(q) = "asked" THEN "dropped" ELSE Outcome(q)
    BY <1>2 DEF StartAPI, Outcome, Open
  <2>3. Service!Restart
    BY <2>1, <2>2 DEF Service!Restart
  <2>. QED
    BY <2>3 DEF Service!Next
<1>3. ASSUME NEW q \in Requests, HandleLogin(q)
      PROVE  [Service!Next]_(Service!vars)
  <2>1. UNCHANGED <<pc, runs>>
    BY <1>3 DEF HandleLogin
  <2>. QED
    BY <2>1, ServiceStutter DEF Outcome, Open
<1>4. ASSUME NEW q \in Requests, HandlePost(q)
      PROVE  [Service!Next]_(Service!vars)
  <2>1. UNCHANGED pc /\ \A p \in Requests : Outcome(p)' = Outcome(p)
    BY <1>4 DEF HandlePost, Outcome, Open
  <2>2. CASE UNCHANGED runs
    BY <2>1, <2>2, ServiceStutter
  <2>3. CASE runs' = [runs EXCEPT ![q] = @ + 1]
    <3>1. runs[q] = 0 /\ pc[q] # "idle"
      BY <1>4 DEF HandlePost, PostOK
    <3>2. runs' = [runs EXCEPT ![q] = 1]
      BY <2>3, <3>1
    <3>3. Outcome(q) # "none"
      BY <3>1 DEF Outcome, Open
    <3>4. Service!CreateRun(q)
      BY <2>1, <3>1, <3>2, <3>3 DEF Service!CreateRun
    <3>. QED
      BY <3>4 DEF Service!Next
  <2>. QED
    BY <1>4, <2>2, <2>3 DEF HandlePost
<1>5. ASSUME NEW q \in Requests, TriggerDag(q)
      PROVE  [Service!Next]_(Service!vars)
  <2>1. /\ Outcome(q) = "none" /\ Outcome(q)' = "asked"
        /\ \A p \in Requests \ {q} : Outcome(p)' = Outcome(p)
    BY <1>5 DEF TriggerDag, SendPost, SendLogin, Outcome, Open
  <2>2. UNCHANGED runs
    BY <1>5 DEF TriggerDag
  <2>3. Service!Ask(q)
    BY <2>1, <2>2, OneOutcome DEF Service!Ask
  <2>. QED
    BY <2>3 DEF Service!Next
<1>6. ASSUME NEW q \in Requests, LoginReturns(q)
      PROVE  [Service!Next]_(Service!vars)
  <2>1. UNCHANGED runs /\ \A p \in Requests : Outcome(p)' = Outcome(p)
    BY <1>6 DEF LoginReturns, SendPost, Outcome, Open
  <2>. QED
    BY <2>1, ServiceStutter
<1>7. ASSUME NEW q \in Requests, LoginFails(q) \/ PostReturns(q) \/ PostFails(q)
      PROVE  [Service!Next]_(Service!vars)
  <2>1. UNCHANGED runs /\ Outcome(q) = "asked"
    BY <1>7 DEF LoginFails, PostReturns, PostFails, Outcome, Open
  <2>2. \A p \in Requests \ {q} : Outcome(p)' = Outcome(p)
    BY <1>7 DEF LoginFails, PostReturns, PostFails, Outcome, Open
  <2>3. \/ Outcome(q)' = "triggered" /\ runs[q] = 1
        \/ Outcome(q)' = "failed"
    BY <1>7 DEF LoginFails, PostReturns, PostFails, Outcome, Open, PostOK
  <2>4. Service!Answer(q)
    BY <2>1, <2>2, <2>3, OneOutcome DEF Service!Answer
  <2>. QED
    BY <2>4 DEF Service!Next
<1>. QED
  BY <1>1, <1>2, <1>3, <1>4, <1>5, <1>6, <1>7 DEF Next, Proceed

\* AirflowClient implements the safety part of TriggerService: the outcome of
\* a request is final, and it has at most one run, whatever is lost or late.
THEOREM ImplementsService == Spec => Service!Spec
  BY ServiceInit, ServiceStep, Invariance, PTL DEF Spec, Service!Spec
==============================================================================
