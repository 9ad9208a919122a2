----------------------------- MODULE Registration -----------------------------
(***************************************************************************)
(* How files get a row in file_records: registration_dag scans the storage *)
(* every hour, and POST /ingest/register names files in the same directory.*)
(* A listing is not a snapshot: a directory is walked, and a bucket is read*)
(* page by page, while files come and go.                                  *)
(* Both read the registered names once and then insert one row per new     *)
(* file, each in a transaction of its own, so each may find that the other *)
(* was faster; the unique index on filename decides.                       *)
(***************************************************************************)
EXTENDS Integers, Sequences, FiniteSets

CONSTANTS
  Names,       \* file names: numbers, in the order in which a scan sorts them
  Requests,    \* calls of POST /ingest/register
  MaxNames,    \* bound: names in one call
  MaxTries,    \* tries of each of the two tasks, 1 + "retries"
  MaxDeaths,   \* bound: deaths of a task or of the API process
  MaxFaults    \* bound: inserts that fail for a reason of their own

ASSUME NamesAssumption == IsFiniteSet(Names) /\ Names \subseteq Nat
ASSUME RegistrationBounds ==
  /\ MaxNames \in Nat \ {0} /\ MaxTries \in Nat \ {0}
  /\ MaxDeaths \in Nat /\ MaxFaults \in Nat

\* Who inserts a row: a request, or a scan.
Scan == "scan"
Nobody == "nobody"
ASSUME ScanAssumption == Scan \notin Requests /\ Nobody \notin Requests

VARIABLES
  storage,   \* the files in the storage
  rows,      \* file_records: who registered each name
  deaths, faults,
  \* the one scan that may be active
  scan,      \* how far it is
  tries,     \* of the task it is at
  listed,    \* the files list_files_with_info has found
  todo,      \* the names that the listing, or the loop, has yet to visit
  known,     \* what get_registered_filenames returned to the scan
  stats,     \* the names it has counted as registered, skipped and errors
  stayed,    \* history: the files in the storage ever since the listing began
  \* the requests
  pc, names, at, existing,
  outcome,   \* the list each of its names went to
  reports    \* how often each name was reported as registered, by anyone

fs == <<storage, stayed>>
budget == <<deaths, faults>>
scanning == <<scan, tries, listed, todo, known, stats>>
requests == <<pc, names, at, existing, outcome>>
vars == <<fs, rows, budget, scanning, requests, reports>>

NameLists == UNION {[1 .. n -> Names] : n \in 0 .. MaxNames}
NoStats == [registered |-> {}, skipped |-> {}, errors |-> {}]
Registered == {n \in Names : rows[n] # Nobody}

Init ==
  /\ storage \in SUBSET Names /\ stayed = {}
  /\ rows = [n \in Names |-> Nobody]
  /\ deaths = 0 /\ faults = 0
  /\ scan = "waiting" /\ tries = 1
  /\ listed = {} /\ todo = {} /\ known = {} /\ stats = NoStats
  /\ pc = [q \in Requests |-> "idle"]
  /\ names = [q \in Requests |-> <<>>]
  /\ at = [q \in Requests |-> 1]
  /\ existing = [q \in Requests |-> {}]
  /\ outcome = [q \in Requests |-> <<>>]
  /\ reports = [n \in Names |-> 0]

\* Somebody adds a file to the storage or takes it away.
ChangeStorage ==
  /\ \E n \in Names : storage' = IF n \in storage THEN storage \ {n} ELSE storage \cup {n}
  /\ stayed' = stayed \cap storage'
  /\ UNCHANGED <<rows, budget, scanning, requests, reports>>

\* Mutated form of Inserts: an upsert, which no unique index refuses.
InsertsAnyway(n, who) == rows' = [rows EXCEPT ![n] = who]

\* register_file commits a row.  It raises when the name has one already.
Inserts(n, who) == n \notin Registered /\ rows' = [rows EXCEPT ![n] = who]

\* register_file raises: the name has a row, or the database has trouble.
Raises(n) ==
  /\ UNCHANGED rows
  /\ \/ n \in Registered /\ UNCHANGED faults
     \/ n \notin Registered /\ faults < MaxFaults /\ faults' = faults + 1

------------------------------------------------------------------------------
(* registration_dag: one run at a time.                                    *)

\* A try of scan_and_register begins, and with it a listing.
BeginsListing ==
  /\ scan' = "list" /\ todo' = Names
  /\ stayed' = storage

\* The local variables of a task instance go with it.
ScanForgets == listed' = {} /\ known' = {} /\ stats' = NoStats
ScanEnds == scan' = "waiting" /\ todo' = {} /\ stayed' = {}

\* @hourly
StartScan ==
  /\ scan = "waiting"
  /\ BeginsListing
  /\ tries' = 1
  /\ UNCHANGED <<storage, rows, budget, listed, known, stats, requests, reports>>

\* The listing comes to a name, in whatever order the storage has, and finds a
\* file or none.
ListFile(n) ==
  /\ scan = "list" /\ n \in todo
  /\ todo' = todo \ {n}
  /\ listed' = listed \cup ({n} \cap storage)
  /\ UNCHANGED <<fs, rows, budget, scan, tries, known, stats, requests, reports>>

\* scan_and_register has returned, and print_summary begins its first try.
Reporting == scan' = "report" /\ tries' = 1

\* An empty listing is reported at once.
ListingReturns ==
  /\ scan = "list" /\ todo = {}
  /\ todo' = listed
  /\ IF listed = {} THEN Reporting ELSE scan' = "read" /\ UNCHANGED tries
  /\ UNCHANGED <<fs, rows, budget, listed, known, stats, requests, reports>>

ReadRegistered ==
  /\ scan = "read"
  /\ known' = Registered
  /\ scan' = "loop"
  /\ UNCHANGED <<fs, rows, budget, tries, listed, todo, stats, requests, reports>>

\* The loop visits the files in sorted order.
IsNext(n) == n \in todo /\ \A m \in todo : n <= m

ScanCounts(n, list) ==
  /\ scan = "loop"
  /\ IsNext(n)
  /\ todo' = todo \ {n}
  /\ stats' = [stats EXCEPT ![list] = @ \cup {n}]
  /\ UNCHANGED <<fs, deaths, scan, tries, listed, known, requests, reports>>

ScanSkips(n) == n \in known /\ ScanCounts(n, "skipped") /\ UNCHANGED <<rows, faults>>
ScanRegisters(n) ==
  /\ n \notin known
  /\ ScanCounts(n, "registered")
  /\ Inserts(n, Scan)
  /\ UNCHANGED faults

\* Mutated form of ScanErrs: the exception leaves the loop.
ScanErrsOut(n) ==
  /\ n \notin known
  /\ scan = "loop" /\ IsNext(n)
  /\ Raises(n)
  /\ todo' = {}
  /\ stats' = [stats EXCEPT !.errors = @ \cup {n}]
  /\ UNCHANGED <<fs, deaths, scan, tries, listed, known, requests, reports>>

\* One file that cannot be registered does not stop the others.
ScanErrs(n) == n \notin known /\ ScanCounts(n, "errors") /\ Raises(n)

EndScan ==
  /\ scan = "loop" /\ todo = {}
  /\ Reporting
  /\ UNCHANGED <<fs, rows, budget, listed, todo, known, stats, requests, reports>>

\* What a try of print_summary prints is seen at once.
PrintSummary ==
  /\ scan = "report"
  /\ scan' = "printed"
  /\ reports' = [n \in Names |-> reports[n] + IF n \in stats.registered THEN 1 ELSE 0]
  /\ UNCHANGED <<fs, rows, budget, tries, listed, todo, known, stats, requests>>

PrintReturns ==
  /\ scan = "printed"
  /\ ScanEnds /\ ScanForgets
  /\ UNCHANGED <<storage, rows, budget, tries, requests, reports>>

\* print_summary is killed, maybe when it has printed already: a retry prints
\* the same statistics, which are the result of the first task.
PrintDies ==
  /\ scan \in {"report", "printed"} /\ deaths < MaxDeaths
  /\ deaths' = deaths + 1
  /\ IF tries < MaxTries
     THEN /\ scan' = "report" /\ tries' = tries + 1
          /\ UNCHANGED <<todo, stayed, listed, known, stats>>
     ELSE ScanEnds /\ ScanForgets /\ tries' = tries
  /\ UNCHANGED <<storage, rows, faults, requests, reports>>

\* Mutated forms of ScanDies: one retry too many, and no scan after the last.
ScanDiesOnceMore ==
  /\ scan \in {"list", "read", "loop"} /\ deaths < MaxDeaths
  /\ deaths' = deaths + 1
  /\ IF tries <= MaxTries
     THEN BeginsListing /\ tries' = tries + 1
     ELSE ScanEnds /\ tries' = tries
  /\ ScanForgets
  /\ UNCHANGED <<storage, rows, faults, requests, reports>>
ScanDiesForGood ==
  /\ scan \in {"list", "read", "loop"} /\ deaths < MaxDeaths
  /\ deaths' = deaths + 1
  /\ scan' = "failed"
  /\ UNCHANGED <<fs, rows, faults, tries, listed, todo, known, stats, requests, reports>>

\* scan_and_register is killed or raises, for example because a file it has
\* just seen is gone when its size is taken; a retry begins with a new listing.
\* What it has registered stays, and the statistics are lost.
ScanDies ==
  /\ scan \in {"list", "read", "loop"} /\ deaths < MaxDeaths
  /\ deaths' = deaths + 1
  /\ IF tries < MaxTries
     THEN BeginsListing /\ tries' = tries + 1
     ELSE ScanEnds /\ tries' = tries
  /\ ScanForgets
  /\ UNCHANGED <<storage, rows, faults, requests, reports>>

------------------------------------------------------------------------------
(* POST /ingest/register                                                   *)

\* The handler awaits nothing, so no other request interleaves with it.
Register(q) ==
  /\ pc[q] = "idle"
  /\ \A p \in Requests : pc[p] # "loop"
  /\ pc' = [pc EXCEPT ![q] = "loop"]
  /\ \E list \in NameLists : names' = [names EXCEPT ![q] = list]
  /\ existing' = [existing EXCEPT ![q] = Registered]
  /\ UNCHANGED <<fs, rows, budget, scanning, at, outcome, reports>>

Current(q) == names[q][at[q]]
Looping(q) == pc[q] = "loop" /\ at[q] \in DOMAIN names[q]

Goes(q, list) ==
  /\ Looping(q)
  /\ outcome' = [outcome EXCEPT ![q] = Append(@, list)]
  /\ at' = [at EXCEPT ![q] = @ + 1]
  /\ UNCHANGED <<fs, deaths, scanning, pc, names, existing, reports>>

RequestSkips(q) ==
  /\ Goes(q, "skipped")
  /\ Current(q) \in existing[q]
  /\ UNCHANGED <<rows, faults>>

\* The file is not there, or no longer there when its size is taken.
NotFound(q) ==
  /\ Goes(q, "errors")
  /\ Current(q) \notin existing[q] /\ Current(q) \notin storage
  /\ UNCHANGED <<rows, faults>>

RequestRegisters(q) ==
  /\ Goes(q, "registered")
  /\ Current(q) \notin existing[q] /\ Current(q) \in storage
  /\ Inserts(Current(q), q)
  /\ UNCHANGED faults

\* Mutated form of RequestErrs: the name is appended before the call.
RequestErrsLate(q) ==
  /\ Goes(q, "registered")
  /\ Current(q) \notin existing[q] /\ Current(q) \in storage
  /\ Raises(Current(q))

RequestErrs(q) ==
  /\ Goes(q, "errors")
  /\ Current(q) \notin existing[q] /\ Current(q) \in storage
  /\ Raises(Current(q))

Respond(q) ==
  /\ pc[q] = "loop" /\ at[q] \notin DOMAIN names[q]
  /\ pc' = [pc EXCEPT ![q] = "answered"]
  /\ reports' = [n \in Names |->
       reports[n] + Cardinality({k \in DOMAIN names[q] :
                                   names[q][k] = n /\ outcome[q][k] = "registered"})]
  /\ existing' = [existing EXCEPT ![q] = {}]
  /\ UNCHANGED <<fs, rows, budget, scanning, names, at, outcome>>

\* The API process is restarted: the request it works on gets no answer.
RequestDies(q) ==
  /\ pc[q] = "loop" /\ deaths < MaxDeaths
  /\ deaths' = deaths + 1
  /\ pc' = [pc EXCEPT ![q] = "dropped"]
  /\ existing' = [existing EXCEPT ![q] = {}]
  /\ UNCHANGED <<fs, rows, faults, scanning, names, at, outcome, reports>>

------------------------------------------------------------------------------
ScanStep ==
  \/ StartScan \/ ListingReturns \/ ReadRegistered \/ EndScan
  \/ PrintSummary \/ PrintReturns
  \/ \E n \in Names : ListFile(n) \/ ScanSkips(n) \/ ScanRegisters(n) \/ ScanErrs(n)

RequestStep(q) ==
  RequestSkips(q) \/ NotFound(q) \/ RequestRegisters(q) \/ RequestErrs(q) \/ Respond(q)

Next ==
  \/ ChangeStorage \/ ScanStep \/ ScanDies \/ PrintDies
  \/ \E q \in Requests : Register(q) \/ RequestStep(q) \/ RequestDies(q)

Spec == Init /\ [][Next]_vars

\* The scheduler starts a scan every hour and a scan goes on.
FairSpec == Spec /\ WF_vars(ScanStep)

------------------------------------------------------------------------------
Lists == {"registered", "skipped", "errors"}

\* The rows, the scan and the requests have their types, within the bounds.
TypeOK ==
  /\ storage \subseteq Names
  /\ rows \in [Names -> Requests \cup {Scan, Nobody}]
  /\ deaths \in 0 .. MaxDeaths /\ faults \in 0 .. MaxFaults
  /\ scan \in {"waiting", "list", "read", "loop", "report", "printed"}
  /\ tries \in 1 .. MaxTries
  /\ listed \subseteq Names /\ todo \subseteq Names /\ known \subseteq Names
  /\ stayed \subseteq storage
  /\ stats \in [Lists -> SUBSET Names]
  /\ pc \in [Requests -> {"idle", "loop", "answered", "dropped"}]
  /\ names \in [Requests -> NameLists]
  /\ at \in [Requests -> 1 .. MaxNames + 1]
  /\ existing \in [Requests -> SUBSET Names]
  /\ outcome \in [Requests -> Seq(Lists)]
  /\ reports \in [Names -> Nat]

\* How many tries of print_summary may have printed the statistics of the scan.
Printed == IF scan = "report" THEN tries - 1 ELSE IF scan = "printed" THEN tries ELSE 0

\* However scans, their retries and requests interleave, and also when a
\* request names a file twice, a file is reported as registered by one of them
\* only: by a request once, by a scan once per try of its print_summary.
ReportedByOne ==
  \A n \in Names :
    /\ reports[n] <= MaxTries
    /\ rows[n] = Nobody => reports[n] = 0
    /\ rows[n] \in Requests => reports[n] <= 1
    /\ n \in stats.registered => reports[n] <= Printed

\* What a request and a scan report is true: a name in "registered" was
\* registered by them, and a name in "skipped" has a row.
ReportsAreTrue ==
  /\ \A n \in Names : /\ n \in stats.registered => rows[n] = Scan
                      /\ n \in stats.skipped => n \in Registered
  /\ \A q \in Requests : \A k \in DOMAIN outcome[q] :
       /\ outcome[q][k] = "registered" => rows[names[q][k]] = q
       /\ outcome[q][k] = "skipped" => names[q][k] \in Registered

\* While a scan reports, it accounts for every file that was there from the
\* beginning of its listing on, whatever came and went beside it, and although
\* an earlier try died: the file has a row, or is among the errors.
ScanAccountsForAll ==
  scan \in {"report", "printed"} => \A n \in stayed : n \in Registered \/ n \in stats.errors

\* A file that stays in the storage is registered in the end, by an hourly
\* scan if by nobody else.
EventuallyRegistered ==
  \A n \in Names : (<>[](n \in storage)) => <>(n \in Registered)
==============================================================================
