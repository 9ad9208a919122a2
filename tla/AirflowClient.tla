---------------------------- MODULE AirflowClient ----------------------------
(***************************************************************************)
(* How the API triggers a DAG run (services/airflow.py): one AirflowClient *)
(* per process, with the password the process read when it started and a   *)
(* JWT that every request shares.  The handlers are coroutines: between    *)
(* two awaits nothing else in the process runs, and a call that is sent    *)
(* may be answered late, refused, or handled after the client gave up.     *)
(* Airflow itself is modelled only as far as the client can tell.          *)
(***************************************************************************)
EXTENDS Integers, FiniteSets

CONSTANTS
  Requests,      \* calls of trigger_dag
  MaxPasswords,  \* bound: passwords Airflow generates
  MaxRestarts    \* bound: restarts of the API process

ASSUME ClientAssumption ==
  IsFiniteSet(Requests) /\ MaxPasswords \in Nat \ {0} /\ MaxRestarts \in Nat

VARIABLES
  \* Airflow and the volume it shares with the API
  password,  \* the password Airflow accepts; each container generates one
  exported,  \* the password in the shared file, 0 when there is none
  jwts,      \* the tokens issued that have not expired
  runs,      \* how many DAG runs each request has created
  \* the API process
  restarts,  \* how often it was started, 0 when it never was
  settings,  \* airflow_password of its cached settings, 0 for the default
  token,     \* _token of its AirflowClient, 0 for None
  \* each request, and its two calls to Airflow
  pc, login, post,
  credential,  \* the password its login call carries
  jwt,         \* the token that Airflow answered, 0 for none
  bearer       \* the token its POST carries

airflow == <<password, exported, jwts>>
process == <<restarts, settings, token>>
calls == <<login, credential, jwt, post, bearer>>
vars == <<airflow, runs, process, pc, calls>>

Passwords == 0 .. MaxPasswords
Tokens == 0 .. Cardinality(Requests)
Issued == Cardinality({q \in Requests : jwt[q] # 0})

Init ==
  /\ password = 1 /\ exported = 0
  /\ jwts = {}
  /\ runs = [q \in Requests |-> 0]
  /\ restarts = 0 /\ settings = 0 /\ token = 0
  /\ pc = [q \in Requests |-> "idle"]
  /\ login = [q \in Requests |-> "none"]
  /\ post = [q \in Requests |-> "none"]
  /\ credential = [q \in Requests |-> 0]
  /\ jwt = [q \in Requests |-> 0]
  /\ bearer = [q \in Requests |-> 0]

------------------------------------------------------------------------------
(* Airflow                                                                 *)

\* A new container of the API server: a new password; the shared file, on a
\* volume, keeps the old one until the start script exports the new one.
GeneratePassword ==
  /\ password < MaxPasswords
  /\ password' = password + 1
  /\ UNCHANGED <<exported, jwts, runs, process, pc, calls>>

ExportPassword ==
  /\ exported # password
  /\ exported' = password
  /\ UNCHANGED <<password, jwts, runs, process, pc, calls>>

\* The secret that signs tokens is configured: only time invalidates them.
ExpireToken ==
  /\ jwts # {}
  /\ \E t \in jwts : jwts' = jwts \ {t}
  /\ UNCHANGED <<password, exported, runs, process, pc, calls>>

\* POST /auth/token; Airflow may refuse any call, when it has trouble itself.
HandleLogin(q) ==
  /\ login[q] = "sent"
  /\ \/ /\ credential[q] = password
        /\ login' = [login EXCEPT ![q] = "granted"]
        /\ jwt' = [jwt EXCEPT ![q] = Issued + 1]
        /\ jwts' = jwts \cup {Issued + 1}
     \/ /\ login' = [login EXCEPT ![q] = "refused"]
        /\ UNCHANGED <<jwt, jwts>>
  /\ UNCHANGED <<password, exported, runs, process, pc, credential, post, bearer>>

\* POST /dags/ingestion_dag/dagRuns
HandlePost(q) ==
  /\ post[q] = "sent"
  /\ \/ /\ bearer[q] \in jwts
        /\ post' = [post EXCEPT ![q] = "accepted"]
        /\ runs' = [runs EXCEPT ![q] = @ + 1]
     \/ /\ post' = [post EXCEPT ![q] = "refused"]
        /\ UNCHANGED runs
  /\ UNCHANGED <<airflow, process, pc, login, credential, jwt, bearer>>

------------------------------------------------------------------------------
(* The API process                                                         *)

Open(q) == pc[q] \in {"login", "post"}

\* Mutated form of StartAPI: a missing file yields no password at all.
StartWithoutDefault ==
  /\ restarts <= MaxRestarts
  /\ restarts' = restarts + 1
  /\ settings' = IF exported = 0 THEN -1 ELSE exported
  /\ token' = 0
  /\ pc' = [q \in Requests |-> IF Open(q) THEN "dropped" ELSE pc[q]]
  /\ UNCHANGED <<airflow, runs, calls>>

\* Mutated form of StartAPI: the requests under way are begun anew.
StartResumes ==
  /\ restarts <= MaxRestarts
  /\ restarts' = restarts + 1
  /\ settings' = exported
  /\ token' = 0
  /\ pc' = [q \in Requests |-> IF Open(q) THEN "idle" ELSE pc[q]]
  /\ UNCHANGED <<airflow, runs, calls>>

\* create_app reads the settings, with the password file, once and for all.
\* What the process had under way when it was restarted gets no answer.
StartAPI ==
  /\ restarts <= MaxRestarts
  /\ restarts' = restarts + 1
  /\ settings' = exported
  /\ token' = 0
  /\ pc' = [q \in Requests |-> IF Open(q) THEN "dropped" ELSE pc[q]]
  /\ UNCHANGED <<airflow, runs, calls>>

SendPost(q, t) ==
  /\ pc' = [pc EXCEPT ![q] = "post"]
  /\ post' = [post EXCEPT ![q] = "sent"]
  /\ bearer' = [bearer EXCEPT ![q] = t]

SendLogin(q) ==
  /\ pc' = [pc EXCEPT ![q] = "login"]
  /\ login' = [login EXCEPT ![q] = "sent"]
  /\ credential' = [credential EXCEPT ![q] = settings]

\* trigger_dag up to its first await that waits: a cached token is used as is.
TriggerDag(q) ==
  /\ restarts > 0
  /\ pc[q] = "idle"
  /\ \/ token # 0 /\ SendPost(q, token) /\ UNCHANGED <<login, credential>>
     \/ token = 0 /\ SendLogin(q) /\ UNCHANGED <<post, bearer>>
  /\ UNCHANGED <<airflow, runs, process, jwt>>

\* The rest of _get_token, and the POST: the last login to return stays cached.
LoginReturns(q) ==
  /\ pc[q] = "login" /\ login[q] = "granted"
  /\ token' = jwt[q]
  /\ SendPost(q, jwt[q])
  /\ UNCHANGED <<airflow, runs, restarts, settings, login, credential, jwt>>

\* raise_for_status, a lost connection, or 10 seconds without an answer.
LoginFails(q) ==
  /\ pc[q] = "login"
  /\ pc' = [pc EXCEPT ![q] = "failed"]
  /\ UNCHANGED <<airflow, runs, process, calls>>

\* Mutated form of PostReturns: without raise_for_status.
PostReturnsUnchecked(q) ==
  /\ pc[q] = "post" /\ post[q] \in {"accepted", "refused"}
  /\ pc' = [pc EXCEPT ![q] = "triggered"]
  /\ UNCHANGED <<airflow, runs, process, calls>>

PostReturns(q) ==
  /\ pc[q] = "post" /\ post[q] = "accepted"
  /\ pc' = [pc EXCEPT ![q] = "triggered"]
  /\ UNCHANGED <<airflow, runs, process, calls>>

\* Mutated forms of PostFails: the POST is sent again, and has no timeout.
PostIsRetried(q) ==
  /\ pc[q] = "post" /\ post[q] # "sent"
  /\ post' = [post EXCEPT ![q] = "sent"]
  /\ UNCHANGED <<airflow, runs, process, pc, login, credential, jwt, bearer>>
PostWaits(q) ==
  /\ pc[q] = "post" /\ post[q] = "refused"
  /\ pc' = [pc EXCEPT ![q] = "failed"]
  /\ UNCHANGED <<airflow, runs, process, calls>>

\* The same for the POST, after 30 seconds: Airflow may have created the run,
\* or may yet.  Nothing is retried, and the token stays cached.
PostFails(q) ==
  /\ pc[q] = "post"
  /\ pc' = [pc EXCEPT ![q] = "failed"]
  /\ UNCHANGED <<airflow, runs, process, calls>>

------------------------------------------------------------------------------
Proceed(q) == LoginReturns(q) \/ LoginFails(q) \/ PostReturns(q) \/ PostFails(q)

Next ==
  \/ GeneratePassword \/ ExportPassword \/ ExpireToken \/ StartAPI
  \/ \E q \in Requests : HandleLogin(q) \/ HandlePost(q) \/ TriggerDag(q) \/ Proceed(q)

\* Both calls have a timeout, so an open request goes on.  Nothing is assumed
\* of Airflow.
Fairness == \A q \in Requests : WF_vars(Proceed(q))

Spec == Init /\ [][Next]_vars
FairSpec == Spec /\ Fairness

------------------------------------------------------------------------------
\* Passwords, tokens, calls and requests have their types.
TypeOK ==
  /\ password \in Passwords /\ exported \in Passwords /\ settings \in Passwords
  /\ jwts \subseteq Tokens \ {0}
  /\ runs \in [Requests -> Nat]
  /\ restarts \in 0 .. MaxRestarts + 1
  /\ token \in Tokens
  /\ pc \in [Requests -> {"idle", "login", "post", "triggered", "failed", "dropped"}]
  /\ login \in [Requests -> {"none", "sent", "granted", "refused"}]
  /\ post \in [Requests -> {"none", "sent", "accepted", "refused"}]
  /\ credential \in [Requests -> Passwords]
  /\ jwt \in [Requests -> Tokens]
  /\ bearer \in [Requests -> Tokens]

\* "status": "triggered" is the truth: Airflow holds a run of that request,
\* although the requests share one token that may expire under them.
TriggeredHasRun == \A q \in Requests : pc[q] = "triggered" => runs[q] > 0

\* A request creates at most one run, also when an answer is lost or late: a
\* second one would store the chunks of its files twice (Ingestion).
AtMostOneRun == \A q \in Requests : runs[q] <= 1

\* A request is answered, or dropped by a restart, even if Airflow never is.
EveryRequestEnds == \A q \in Requests : Open(q) ~> ~Open(q)

\* What a client of the API sees of a request.
Outcome(q) == IF Open(q) THEN "asked" ELSE IF pc[q] = "idle" THEN "none" ELSE pc[q]

\* The client implements TriggerService: two calls that may be answered late,
\* lost or refused, a token shared by all requests and restarts of the process
\* amount to one request with a final outcome and at most one run.
Service == INSTANCE TriggerService WITH outcome <- [q \in Requests |-> Outcome(q)]
ServiceSpec == Service!FairSpec

\* "Password loaded dynamically from shared volume" (docker-compose.yaml:191):
\* a login carries the password that the file holds when it is sent.
PasswordIsDynamic ==
  [][\A q \in Requests : login[q] = "none" /\ login'[q] = "sent"
       => credential'[q] = exported]_vars
==============================================================================
