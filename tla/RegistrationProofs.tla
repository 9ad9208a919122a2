-------------------------- MODULE RegistrationProofs --------------------------
(***************************************************************************)
(* Proofs about Registration, for any names, requests, tries and faults:   *)
(* its types, and that what scans and requests report is true, reported by *)
(* one of them only, and accounts for every file that stays.               *)
(***************************************************************************)
EXTENDS Registration, FiniteSetTheorems, TLAPS

\* What the scan and the requests know to be registered, is.
KnownOK ==
  /\ known \subseteq Registered
  /\ \A q \in Requests : existing[q] \subseteq Registered

\* A request has one outcome for each name it has passed, and has registered
\* none of them twice.
RequestOK == \A q \in Requests :
  /\ Len(outcome[q]) = at[q] - 1
  /\ DOMAIN outcome[q] \subseteq DOMAIN names[q]
  /\ pc[q] = "idle" => outcome[q] = <<>>
  /\ \A j, k \in DOMAIN outcome[q] :
       outcome[q][j] = "registered" /\ outcome[q][k] = "registered" /\ names[q][j] = names[q][k]
         => j = k

\* A name is reported by the one who registered it: by a request when it ends,
\* by a scan not before print_summary.
ReportsOK == \A n \in Names :
  /\ reports[n] <= MaxTries
  /\ rows[n] = Nobody => reports[n] = 0
  /\ n \in stats.registered => reports[n] <= Printed
  /\ \A q \in Requests :
       rows[n] = q => /\ reports[n] <= 1
                      /\ pc[q] # "idle" /\ (pc[q] = "loop" => reports[n] = 0)

\* What stays in the storage is yet to be visited, or has been accounted for.
ScanOK == \A n \in stayed :
  /\ scan = "list" => n \in todo \/ n \in listed
  /\ scan \in {"read", "loop"} => n \in Registered \/ n \in stats.errors \/ n \in todo
  /\ scan \in {"report", "printed"} => n \in Registered \/ n \in stats.errors

IInv == TypeOK /\ KnownOK /\ RequestOK /\ ReportsAreTrue /\ ReportsOK /\ ScanOK

LEMMA InitIInv == Init => IInv
<1>. SUFFICES ASSUME Init PROVE IInv
  OBVIOUS
<1>. USE NamesAssumption, RegistrationBounds, ScanAssumption DEF Init
<1>1. <<>> \in NameLists
  BY DEF NameLists
<1>2. TypeOK
  BY <1>1 DEF TypeOK, NoStats, Lists
<1>3. KnownOK /\ RequestOK /\ ReportsAreTrue /\ ReportsOK /\ ScanOK
  BY DEF KnownOK, RequestOK, ReportsAreTrue, ReportsOK, Printed, ScanOK, NoStats, Registered,
      Nobody, Scan
<1>. QED
  BY <1>2, <1>3 DEF IInv

\* Whoever registered a file, nobody else does so afterwards.
LEMMA RowsStay ==
  ASSUME TypeOK, [Next]_vars
  PROVE  /\ \A n \in Names : rows[n] # Nobody => rows'[n] = rows[n]
         /\ Registered \subseteq Registered'
<1>1. \/ UNCHANGED rows
      \/ \E n \in Names : Inserts(n, Scan)
      \/ \E q \in Requests : Looping(q) /\ Inserts(Current(q), q)
  BY DEF Next, vars, ChangeStorage, ScanDies, Register, RequestDies, ScanStep, RequestStep,
         StartScan, ListingReturns, ReadRegistered, EndScan, PrintSummary, PrintReturns, PrintDies, ListFile,
         ScanSkips, ScanRegisters, ScanErrs, Raises, RequestSkips, NotFound, RequestRegisters,
         RequestErrs, Respond, Goes
<1>. QED
  BY <1>1 DEF TypeOK, Inserts, Registered
\* DOMAIN of what a request names.
LEMMA NamesDomain ==
  ASSUME TypeOK, NEW q \in Requests
  PROVE  \E n \in 0 .. MaxNames : names[q] \in [1 .. n -> Names] /\ DOMAIN names[q] = 1 .. n
<1>1. PICK S \in {[1 .. n -> Names] : n \in 0 .. MaxNames} : names[q] \in S
  BY DEF TypeOK, NameLists
<1>2. PICK n \in 0 .. MaxNames : S = [1 .. n -> Names]
  BY <1>1
<1>. QED
  BY <1>1, <1>2

LEMMA TypeStep == TypeOK /\ [Next]_vars => TypeOK'
<1>. SUFFICES ASSUME TypeOK, [Next]_vars PROVE TypeOK'
  OBVIOUS
<1>. USE NamesAssumption, RegistrationBounds, ScanAssumption
<1>1. CASE ChangeStorage
  BY <1>1 DEF ChangeStorage, budget, scanning, requests, TypeOK
<1>2. CASE StartScan
  BY <1>2 DEF StartScan, BeginsListing, budget, requests, TypeOK
<1>3. CASE ScanDies
  <2>1. /\ scan' \in {"waiting", "list"} /\ tries' \in 1 .. MaxTries /\ deaths' \in 0 .. MaxDeaths
        /\ todo' \in {{}, Names} /\ stayed' \in {{}, storage}
    BY <1>3 DEF ScanDies, BeginsListing, ScanEnds, TypeOK
  <2>2. stats' \in [Lists -> SUBSET Names]
    BY <1>3 DEF ScanDies, ScanForgets, NoStats, Lists
  <2>. QED
    BY <1>3, <2>1, <2>2 DEF ScanDies, ScanForgets, requests, TypeOK
<1>4. CASE ListingReturns \/ ReadRegistered \/ EndScan
  <2>1. /\ scan' \in {"read", "loop", "report"} /\ tries' \in {1, tries}
        /\ todo' \in {todo, listed} /\ known' \in {known, Registered}
    BY <1>4 DEF ListingReturns, ReadRegistered, EndScan, Reporting
  <2>2. UNCHANGED <<fs, rows, budget, listed, stats, requests, reports>>
    BY <1>4 DEF ListingReturns, ReadRegistered, EndScan
  <2>. QED
    BY <2>1, <2>2 DEF Registered, fs, budget, requests, TypeOK
<1>5. CASE PrintSummary
  <2>1. reports' \in [Names -> Nat]
    <3>1. ASSUME NEW n \in Names
          PROVE  reports[n] + (IF n \in stats.registered THEN 1 ELSE 0) \in Nat
      <4>1. reports[n] \in Nat
        BY DEF TypeOK
      <4>. QED
        BY <4>1
    <3>. QED
      BY <1>5, <3>1 DEF PrintSummary
  <2>. QED
    BY <1>5, <2>1 DEF PrintSummary, fs, budget, requests, TypeOK
<1>5a. CASE PrintReturns
  BY <1>5a DEF PrintReturns, ScanEnds, ScanForgets, NoStats, Lists, budget, requests, TypeOK
<1>5b. CASE PrintDies
  <2>1. /\ scan' \in {"waiting", "report"} /\ tries' \in 1 .. MaxTries /\ deaths' \in 0 .. MaxDeaths
        /\ todo' \in {{}, todo} /\ stayed' \in {{}, stayed}
        /\ listed' \in {{}, listed} /\ known' \in {{}, known} /\ stats' \in {stats, NoStats}
    BY <1>5b DEF PrintDies, ScanEnds, ScanForgets, TypeOK
  <2>2. stats' \in [Lists -> SUBSET Names]
    BY <2>1 DEF NoStats, Lists, TypeOK
  <2>. QED
    BY <1>5b, <2>1, <2>2 DEF PrintDies, requests, TypeOK
<1>6. ASSUME NEW n \in Names, ListFile(n) PROVE TypeOK'
  BY <1>6 DEF ListFile, fs, budget, requests, TypeOK
<1>7. ASSUME NEW n \in Names, ScanSkips(n) \/ ScanRegisters(n) \/ ScanErrs(n) PROVE TypeOK'
  <2>1. \E list \in Lists : ScanCounts(n, list)
    BY <1>7 DEF ScanSkips, ScanRegisters, ScanErrs, Lists
  <2>2. rows' \in [Names -> Requests \cup {Scan, Nobody}]
    BY <1>7 DEF ScanSkips, ScanRegisters, ScanErrs, Inserts, Raises, TypeOK
  <2>3. faults' \in 0 .. MaxFaults
    BY <1>7 DEF ScanSkips, ScanRegisters, ScanErrs, Raises, TypeOK
  <2>4. todo' \subseteq Names /\ stats' \in [Lists -> SUBSET Names]
    BY <2>1 DEF ScanCounts, TypeOK
  <2>. QED
    BY <2>1, <2>2, <2>3, <2>4 DEF ScanCounts, fs, requests, TypeOK
<1>8. ASSUME NEW q \in Requests, Register(q) PROVE TypeOK'
  <2>1. PICK list \in NameLists : names' = [names EXCEPT ![q] = list]
    BY <1>8 DEF Register
  <2>2. names' \in [Requests -> NameLists]
    BY <2>1 DEF TypeOK
  <2>3. existing' \in [Requests -> SUBSET Names] /\ pc' \in [Requests -> {"idle", "loop", "answered", "dropped"}]
    BY <1>8 DEF Register, Registered, TypeOK
  <2>. QED
    BY <1>8, <2>2, <2>3 DEF Register, fs, budget, scanning, TypeOK
<1>9. ASSUME NEW q \in Requests, RequestSkips(q) \/ NotFound(q) \/ RequestRegisters(q) \/ RequestErrs(q)
      PROVE  TypeOK'
  <2>1. at[q] \in Int /\ at[q] + 1 \in 1 .. MaxNames + 1 /\ Current(q) \in Names
    <3>1. at[q] \in DOMAIN names[q]
      BY <1>9 DEF RequestSkips, NotFound, RequestRegisters, RequestErrs, Goes, Looping
    <3>2. PICK n \in 0 .. MaxNames : names[q] \in [1 .. n -> Names] /\ DOMAIN names[q] = 1 .. n
      BY NamesDomain
    <3>. QED
      BY <3>1, <3>2 DEF Current
  <2>2. \E list \in Lists : Goes(q, list)
    BY <1>9 DEF RequestSkips, NotFound, RequestRegisters, RequestErrs, Lists
  <2>3. rows' = rows \/ rows' = [rows EXCEPT ![Current(q)] = q]
    BY <1>9 DEF RequestSkips, NotFound, RequestRegisters, RequestErrs, Inserts, Raises
  <2>4. faults' = faults \/ (faults < MaxFaults /\ faults' = faults + 1)
    BY <1>9 DEF RequestSkips, NotFound, RequestRegisters, RequestErrs, Raises
  <2>5. rows' \in [Names -> Requests \cup {Scan, Nobody}]
    BY <2>1, <2>3 DEF TypeOK
  <2>6. faults' \in 0 .. MaxFaults
    BY <2>4 DEF TypeOK
  <2>. QED
    BY <2>1, <2>2, <2>5, <2>6 DEF Goes, fs, scanning, TypeOK
<1>10. ASSUME NEW q \in Requests, Respond(q) PROVE TypeOK'
  <2>1. ASSUME NEW n \in Names
        PROVE  Cardinality({k \in DOMAIN names[q] :
                              names[q][k] = n /\ outcome[q][k] = "registered"}) \in Nat
    <3>1. IsFiniteSet(DOMAIN names[q])
      <4>1. PICK m \in 0 .. MaxNames : DOMAIN names[q] = 1 .. m
        BY NamesDomain
      <4>. QED
        BY <4>1, FS_Interval
    <3>. QED
      BY <3>1, FS_Subset, FS_CardinalityType
  <2>2. \A n \in Names : reports[n] \in Nat
    BY DEF TypeOK
  <2>3. reports' \in [Names -> Nat]
    BY <1>10, <2>1, <2>2 DEF Respond
  <2>. QED
    BY <1>10, <2>3 DEF Respond, fs, budget, scanning, TypeOK
<1>11. ASSUME NEW q \in Requests, RequestDies(q) PROVE TypeOK'
  BY <1>11 DEF RequestDies, fs, scanning, TypeOK
<1>12. CASE UNCHANGED vars
  BY <1>12 DEF vars, fs, budget, scanning, requests, TypeOK
<1>. QED
  BY <1>1, <1>2, <1>3, <1>4, <1>5, <1>5a, <1>5b, <1>6, <1>7, <1>8, <1>9, <1>10, <1>11, <1>12
  DEF Next, ScanStep, RequestStep

LEMMA KnownStep == TypeOK /\ KnownOK /\ [Next]_vars => KnownOK'
<1>. SUFFICES ASSUME TypeOK, KnownOK, [Next]_vars PROVE KnownOK'
  OBVIOUS
<1>1. known' = known \/ known' = {} \/ known' = Registered
  BY DEF Next, vars, ChangeStorage, ScanDies, Register, RequestDies, ScanStep, RequestStep,
         StartScan, ListingReturns, ReadRegistered, EndScan, PrintSummary, PrintReturns, PrintDies, ListFile, ScanSkips,
         ScanRegisters, ScanErrs, ScanCounts, ScanForgets, RequestSkips, NotFound,
         RequestRegisters, RequestErrs, Respond, Goes, scanning
<1>2. \A q \in Requests : existing'[q] \subseteq existing[q] \cup Registered
  BY DEF Next, vars, ChangeStorage, ScanDies, Register, RequestDies, ScanStep, RequestStep,
         StartScan, ListingReturns, ReadRegistered, EndScan, PrintSummary, PrintReturns, PrintDies, ListFile, ScanSkips,
         ScanRegisters, ScanErrs, ScanCounts, RequestSkips, NotFound,
         RequestRegisters, RequestErrs, Respond, Goes, requests, TypeOK
<1>. QED
  BY <1>1, <1>2, RowsStay DEF KnownOK
\* What a step does to the requests: nothing, or a beginning, a name or an end.
LEMMA RequestCases ==
  ASSUME [Next]_vars
  PROVE  \/ UNCHANGED <<pc, names, at, outcome>>
         \/ \E q \in Requests : Register(q)
         \/ \E q \in Requests : RequestSkips(q) \/ NotFound(q) \/ RequestRegisters(q) \/ RequestErrs(q)
         \/ /\ UNCHANGED <<names, at, outcome>>
            /\ \E q \in Requests : pc[q] = "loop" /\ \E end \in {"answered", "dropped"} :
                                     pc' = [pc EXCEPT ![q] = end]
BY DEF Next, vars, ChangeStorage, ScanDies, RequestDies, ScanStep, RequestStep,
       StartScan, ListingReturns, ReadRegistered, EndScan, PrintSummary, PrintReturns, PrintDies, ListFile, ScanSkips,
       ScanRegisters, ScanErrs, ScanCounts, Respond, requests

\* A name goes to one of the lists, and no other request changes.
LEMMA PassesName ==
  ASSUME TypeOK, RequestOK, NEW q \in Requests, NEW list, Goes(q, list)
  PROVE  /\ at[q] \in Nat /\ Len(outcome[q]) = at[q] - 1 /\ outcome[q] \in Seq(Lists)
         /\ at[q] \in DOMAIN names[q] /\ UNCHANGED names
         /\ at' = [at EXCEPT ![q] = at[q] + 1]
         /\ outcome'[q] = Append(outcome[q], list)
         /\ DOMAIN outcome[q] = 1 .. at[q] - 1
         /\ DOMAIN outcome'[q] = 1 .. at[q]
         /\ outcome'[q][at[q]] = list
         /\ \A k \in 1 .. at[q] - 1 : outcome'[q][k] = outcome[q][k]
         /\ \A p \in Requests \ {q} : outcome'[p] = outcome[p]
<1>1. at[q] \in Nat /\ Len(outcome[q]) = at[q] - 1 /\ outcome[q] \in Seq(Lists)
  BY RegistrationBounds DEF TypeOK, RequestOK
<1>2. at[q] \in DOMAIN names[q] /\ UNCHANGED names
      /\ at' = [at EXCEPT ![q] = at[q] + 1]
  BY DEF Goes, Looping
<1>3. outcome'[q] = Append(outcome[q], list) /\ \A p \in Requests \ {q} : outcome'[p] = outcome[p]
  BY DEF Goes, TypeOK
<1>4. /\ DOMAIN outcome[q] = 1 .. at[q] - 1 /\ DOMAIN Append(outcome[q], list) = 1 .. at[q]
      /\ Append(outcome[q], list)[at[q]] = list
      /\ \A k \in 1 .. at[q] - 1 : Append(outcome[q], list)[k] = outcome[q][k]
  BY <1>1
<1>. QED
  BY <1>1, <1>2, <1>3, <1>4

\* A name that a request registers had no row, one that it skips has one.
LEMMA RequestLists ==
  ASSUME TypeOK, KnownOK, NEW q \in Requests,
         RequestSkips(q) \/ NotFound(q) \/ RequestRegisters(q) \/ RequestErrs(q)
  PROVE  \E list \in Lists :
           /\ Goes(q, list) /\ Current(q) \in Names
           /\ list = "registered" => rows[Current(q)] = Nobody /\ rows'[Current(q)] = q
           /\ list = "skipped" => Current(q) \in Registered
<1>1. at[q] \in DOMAIN names[q]
  BY DEF RequestSkips, NotFound, RequestRegisters, RequestErrs, Goes, Looping
<1>2. PICK n \in 0 .. MaxNames : names[q] \in [1 .. n -> Names] /\ DOMAIN names[q] = 1 .. n
  BY NamesDomain
<1>3. Current(q) \in Names
  BY <1>1, <1>2 DEF Current
<1>4. CASE RequestSkips(q)
  BY <1>3, <1>4 DEF RequestSkips, KnownOK, Lists
<1>5. CASE NotFound(q) \/ RequestErrs(q)
  BY <1>3, <1>5 DEF NotFound, RequestErrs, Lists
<1>6. CASE RequestRegisters(q)
  BY <1>3, <1>6 DEF RequestRegisters, Inserts, Registered, Lists, TypeOK
<1>. QED
  BY <1>4, <1>5, <1>6

LEMMA RequestStepOK ==
  TypeOK /\ KnownOK /\ RequestOK /\ ReportsAreTrue /\ [Next]_vars => RequestOK'
<1>. SUFFICES ASSUME TypeOK, KnownOK, RequestOK, ReportsAreTrue, [Next]_vars PROVE RequestOK'
  OBVIOUS
<1>1. CASE UNCHANGED <<pc, names, at, outcome>>
  BY <1>1 DEF RequestOK
<1>2. ASSUME NEW q \in Requests, Register(q) PROVE RequestOK'
  <2>1. /\ outcome[q] = <<>> /\ UNCHANGED <<at, outcome>>
        /\ \A p \in Requests \ {q} : pc'[p] = pc[p] /\ names'[p] = names[p]
        /\ pc'[q] # "idle"
    BY <1>2 DEF Register, RequestOK, TypeOK
  <2>2. DOMAIN outcome[q] = {}
    BY <2>1
  <2>. QED
    BY <2>1, <2>2 DEF RequestOK
<1>3. ASSUME NEW q \in Requests,
             RequestSkips(q) \/ NotFound(q) \/ RequestRegisters(q) \/ RequestErrs(q)
      PROVE  RequestOK'
  <2>1. PICK list \in Lists :
           /\ Goes(q, list) /\ Current(q) \in Names
           /\ list = "registered" => rows[Current(q)] = Nobody
    BY <1>3, RequestLists
  <2>2. pc[q] = "loop" /\ UNCHANGED pc
    BY <2>1 DEF Goes, Looping
  <2>3. /\ at[q] \in Nat /\ Len(outcome[q]) = at[q] - 1 /\ outcome[q] \in Seq(Lists)
        /\ at[q] \in DOMAIN names[q] /\ UNCHANGED names
        /\ at' = [at EXCEPT ![q] = at[q] + 1]
        /\ outcome'[q] = Append(outcome[q], list)
        /\ DOMAIN outcome[q] = 1 .. at[q] - 1
        /\ DOMAIN outcome'[q] = 1 .. at[q]
        /\ outcome'[q][at[q]] = list
        /\ \A k \in 1 .. at[q] - 1 : outcome'[q][k] = outcome[q][k]
        /\ \A p \in Requests \ {q} : outcome'[p] = outcome[p]
    BY <2>1, PassesName
  <2>4. Len(outcome'[q]) = at'[q] - 1
    BY <2>3 DEF TypeOK
  <2>5. DOMAIN outcome'[q] \subseteq DOMAIN names'[q]
    <3>1. DOMAIN outcome'[q] = DOMAIN outcome[q] \cup {at[q]}
      BY <2>3
    <3>. QED
      BY <2>3, <3>1 DEF RequestOK
  <2>6. ASSUME NEW j \in DOMAIN outcome'[q], NEW k \in DOMAIN outcome'[q],
               outcome'[q][j] = "registered", outcome'[q][k] = "registered",
               names'[q][j] = names'[q][k], j < k
        PROVE  FALSE
    <3>1. j \in 1 .. at[q] - 1 /\ k \in 1 .. at[q]
      BY <2>3, <2>6
    <3>2. j \in DOMAIN outcome[q] /\ outcome[q][j] = "registered"
      BY <2>3, <2>6, <3>1
    <3>3. rows[names[q][j]] = q
      BY <3>2 DEF ReportsAreTrue
    <3>4. CASE k = at[q]
      BY <2>1, <2>3, <2>6, <3>3, <3>4, ScanAssumption DEF Current
    <3>5. CASE k # at[q]
      <4>1. k \in DOMAIN outcome[q] /\ outcome[q][k] = "registered" /\ names[q][j] = names[q][k]
        BY <2>3, <2>6, <3>1, <3>5
      <4>. QED
        BY <2>6, <3>2, <4>1 DEF RequestOK
    <3>. QED
      BY <3>4, <3>5
  <2>7. ASSUME NEW j \in DOMAIN outcome'[q], NEW k \in DOMAIN outcome'[q],
               outcome'[q][j] = "registered", outcome'[q][k] = "registered",
               names'[q][j] = names'[q][k]
        PROVE  j = k
    <3>1. j \in Int /\ k \in Int
      BY <2>3
    <3>2. ~(j < k) /\ ~(k < j)
      BY <2>6, <2>7
    <3>. QED
      BY <3>1, <3>2
  <2>8. ASSUME NEW p \in Requests \ {q}
        PROVE  at'[p] = at[p] /\ outcome'[p] = outcome[p] /\ names'[p] = names[p] /\ pc'[p] = pc[p]
    BY <2>2, <2>3 DEF TypeOK
  <2>. QED
    BY <2>2, <2>4, <2>5, <2>7, <2>8 DEF RequestOK
<1>4. CASE /\ UNCHANGED <<names, at, outcome>>
           /\ \E q \in Requests : pc[q] = "loop" /\ \E end \in {"answered", "dropped"} :
                                    pc' = [pc EXCEPT ![q] = end]
  BY <1>4 DEF RequestOK, TypeOK
<1>. QED
  BY <1>1, <1>2, <1>3, <1>4, RequestCases
\* What joins the statistics of a scan was registered by it just now, or known.
LEMMA StatsGrow ==
  ASSUME TypeOK, KnownOK, [Next]_vars, NEW n \in Names
  PROVE  /\ n \in stats'.registered =>
              n \in stats.registered \/ (rows[n] = Nobody /\ rows'[n] = Scan)
         /\ n \in stats'.skipped => n \in stats.skipped \/ n \in Registered
<1>1. CASE UNCHANGED stats
  BY <1>1
<1>2. CASE stats' = NoStats
  BY <1>2 DEF NoStats
<1>3. ASSUME NEW m \in Names, NEW list \in Lists, ScanCounts(m, list),
             list = "registered" => rows[m] = Nobody /\ rows'[m] = Scan,
             list = "skipped" => m \in Registered
      PROVE  /\ n \in stats'.registered =>
                  n \in stats.registered \/ (rows[n] = Nobody /\ rows'[n] = Scan)
             /\ n \in stats'.skipped => n \in stats.skipped \/ n \in Registered
  BY <1>3 DEF ScanCounts, Lists, TypeOK
<1>4. \/ UNCHANGED stats \/ stats' = NoStats
      \/ \E m \in Names : ScanSkips(m) \/ ScanRegisters(m) \/ ScanErrs(m)
  BY DEF Next, vars, ChangeStorage, ScanDies, Register, RequestDies, ScanStep, RequestStep,
         StartScan, ListingReturns, ReadRegistered, EndScan, PrintSummary, PrintReturns, PrintDies, ListFile,
         ScanForgets, RequestSkips, NotFound, RequestRegisters, RequestErrs, Respond, Goes,
         scanning
<1>5. ASSUME NEW m \in Names, ScanSkips(m) \/ ScanRegisters(m) \/ ScanErrs(m)
      PROVE  \E list \in Lists :
               /\ ScanCounts(m, list)
               /\ list = "registered" => rows[m] = Nobody /\ rows'[m] = Scan
               /\ list = "skipped" => m \in Registered
  <2>1. CASE ScanSkips(m)
    BY <2>1 DEF ScanSkips, KnownOK, Lists
  <2>2. CASE ScanRegisters(m)
    BY <2>2 DEF ScanRegisters, Inserts, Registered, Lists, TypeOK
  <2>3. CASE ScanErrs(m)
    BY <2>3 DEF ScanErrs, Lists
  <2>. QED
    BY <1>5, <2>1, <2>2, <2>3
<1>. QED
  BY <1>1, <1>2, <1>3, <1>4, <1>5

LEMMA TruthStep ==
  TypeOK /\ KnownOK /\ RequestOK /\ ReportsAreTrue /\ [Next]_vars => ReportsAreTrue'
<1>. SUFFICES ASSUME TypeOK, KnownOK, RequestOK, ReportsAreTrue, [Next]_vars
              PROVE  ReportsAreTrue'
  OBVIOUS
<1>1. ASSUME NEW n \in Names
      PROVE  /\ n \in stats'.registered => rows'[n] = Scan
             /\ n \in stats'.skipped => n \in Registered'
  BY StatsGrow, RowsStay DEF ReportsAreTrue, Scan, Nobody
<1>. DEFINE True(q) == \A k \in DOMAIN outcome[q] :
       /\ outcome[q][k] = "registered" => rows[names[q][k]] = q
       /\ outcome[q][k] = "skipped" => names[q][k] \in Registered
<1>2. ASSUME NEW q \in Requests, UNCHANGED <<names[q], outcome[q]>> PROVE True(q)'
  <2>1. ASSUME NEW k \in DOMAIN outcome[q] PROVE names[q][k] \in Names
    <3>1. PICK n \in 0 .. MaxNames : names[q] \in [1 .. n -> Names] /\ DOMAIN names[q] = 1 .. n
      BY NamesDomain
    <3>. QED
      BY <2>1, <3>1 DEF RequestOK
  <2>2. True(q)
    BY DEF ReportsAreTrue
  <2>. QED
    BY <1>2, <2>1, <2>2, RowsStay, ScanAssumption
<1>3. ASSUME NEW q \in Requests PROVE True(q)'
  <2>1. CASE UNCHANGED <<pc, names, at, outcome>>
    BY <1>2, <2>1
  <2>2. ASSUME NEW p \in Requests, Register(p) PROVE True(q)'
    <3>1. CASE q = p
      <4>1. outcome'[q] = <<>>
        BY <2>2, <3>1 DEF Register, RequestOK
      <4>2. DOMAIN outcome'[q] = {}
        BY <4>1
      <4>. QED
        BY <4>2
    <3>2. CASE q # p
      BY <1>2, <2>2, <3>2 DEF Register, TypeOK
    <3>. QED
      BY <3>1, <3>2
  <2>3. ASSUME NEW p \in Requests,
               RequestSkips(p) \/ NotFound(p) \/ RequestRegisters(p) \/ RequestErrs(p)
        PROVE  True(q)'
    <3>1. PICK list \in Lists :
             /\ Goes(p, list) /\ Current(p) \in Names
             /\ list = "registered" => rows'[Current(p)] = p
             /\ list = "skipped" => Current(p) \in Registered
      BY <2>3, RequestLists
    <3>2. /\ at[p] \in Nat /\ UNCHANGED names
          /\ DOMAIN outcome[p] = 1 .. at[p] - 1 /\ DOMAIN outcome'[p] = 1 .. at[p]
          /\ outcome'[p][at[p]] = list
          /\ \A k \in 1 .. at[p] - 1 : outcome'[p][k] = outcome[p][k]
          /\ \A r \in Requests \ {p} : outcome'[r] = outcome[r]
          /\ DOMAIN outcome[p] \subseteq DOMAIN names[p]
      BY <3>1, PassesName DEF RequestOK
    <3>3. CASE q # p
      BY <1>2, <3>2, <3>3
    <3>4. CASE q = p
      <4>1. ASSUME NEW k \in 1 .. at[p] - 1
            PROVE  /\ outcome'[p][k] = "registered" => rows'[names[p][k]] = p
                   /\ outcome'[p][k] = "skipped" => names[p][k] \in Registered'
        <5>1. k \in DOMAIN outcome[p] /\ outcome'[p][k] = outcome[p][k]
          BY <3>2
        <5>2. PICK n \in 0 .. MaxNames : names[p] \in [1 .. n -> Names] /\ DOMAIN names[p] = 1 .. n
          BY NamesDomain
        <5>3. names[p][k] \in Names
          BY <3>2, <5>1, <5>2
        <5>. QED
          BY <5>1, <5>3, RowsStay, ScanAssumption DEF ReportsAreTrue
      <4>2. /\ outcome'[p][at[p]] = "registered" => rows'[names[p][at[p]]] = p
            /\ outcome'[p][at[p]] = "skipped" => names[p][at[p]] \in Registered'
        BY <3>1, <3>2, RowsStay DEF Current
      <4>3. \A k \in DOMAIN outcome'[p] : k \in 1 .. at[p] - 1 \/ k = at[p]
        BY <3>2
      <4>. QED
        BY <3>2, <3>4, <4>1, <4>2, <4>3
    <3>. QED
      BY <3>3, <3>4
  <2>4. CASE UNCHANGED <<names, at, outcome>>
    BY <1>2, <2>4
  <2>. QED
    BY <2>1, <2>2, <2>3, <2>4, RequestCases
<1>. QED
  BY <1>1, <1>3 DEF ReportsAreTrue
\* A request begins once, and registers files between its beginning and its end.
LEMMA RequestPhases ==
  ASSUME TypeOK, [Next]_vars, NEW q \in Requests
  PROVE  /\ pc[q] # "idle" => pc'[q] # "idle" /\ (pc'[q] = "loop" => pc[q] = "loop")
         /\ \A n \in Names : rows[n] = Nobody /\ rows'[n] = q => pc'[q] = "loop"
<1>1. pc[q] # "idle" => pc'[q] # "idle" /\ (pc'[q] = "loop" => pc[q] = "loop")
  <2>1. \/ UNCHANGED pc
        \/ \E p \in Requests : pc[p] = "idle" /\ pc' = [pc EXCEPT ![p] = "loop"]
        \/ \E p \in Requests, end \in {"answered", "dropped"} : pc' = [pc EXCEPT ![p] = end]
    BY RequestCases
    DEF Register, RequestSkips, NotFound, RequestRegisters, RequestErrs, Goes
  <2>. QED
    BY <2>1 DEF TypeOK
<1>2. \/ UNCHANGED rows
      \/ \E n \in Names : Inserts(n, Scan)
      \/ \E p \in Requests : pc[p] = "loop" /\ UNCHANGED pc /\ Inserts(Current(p), p)
  BY DEF Next, vars, ChangeStorage, ScanDies, Register, RequestDies, ScanStep, RequestStep,
         StartScan, ListingReturns, ReadRegistered, EndScan, PrintSummary, PrintReturns, PrintDies, ListFile,
         ScanSkips, ScanRegisters, ScanErrs, Raises, RequestSkips, NotFound, RequestRegisters,
         RequestErrs, Respond, Goes, Looping
<1>3. ASSUME NEW n \in Names, rows[n] = Nobody, rows'[n] = q PROVE pc'[q] = "loop"
  BY <1>2, <1>3, ScanAssumption DEF Inserts, TypeOK
<1>. QED
  BY <1>1, <1>3

\* How often a request reports a name: once, if it has registered it.
LEMMA TimesReported ==
  ASSUME TypeOK, RequestOK, ReportsAreTrue, NEW q \in Requests, NEW n \in Names
  PROVE  LET times == Cardinality({k \in DOMAIN names[q] :
                                     names[q][k] = n /\ outcome[q][k] = "registered"})
         IN  pc[q] = "loop" /\ at[q] \notin DOMAIN names[q] =>
               times \in 0 .. 1 /\ (times # 0 => rows[n] = q)
<1>. DEFINE K == {k \in DOMAIN names[q] : names[q][k] = n /\ outcome[q][k] = "registered"}
<1>. SUFFICES ASSUME at[q] \notin DOMAIN names[q]
              PROVE  Cardinality(K) \in 0 .. 1 /\ (Cardinality(K) # 0 => rows[n] = q)
  OBVIOUS
<1>1. DOMAIN names[q] = DOMAIN outcome[q]
  <2>1. PICK m \in 0 .. MaxNames : DOMAIN names[q] = 1 .. m
    BY NamesDomain
  <2>2. outcome[q] \in Seq(Lists) /\ at[q] \in 1 .. MaxNames + 1 /\ Len(outcome[q]) = at[q] - 1
    BY DEF TypeOK, RequestOK
  <2>3. DOMAIN outcome[q] = 1 .. at[q] - 1 /\ at[q] \in Nat
    BY <2>2, RegistrationBounds
  <2>4. 1 .. at[q] - 1 \subseteq 1 .. m /\ at[q] \notin 1 .. m /\ at[q] >= 1
    <3>1. DOMAIN outcome[q] \subseteq DOMAIN names[q]
      BY DEF RequestOK
    <3>2. at[q] >= 1
      BY <2>2, RegistrationBounds
    <3>. QED
      BY <2>1, <2>3, <3>1, <3>2
  <2>5. at[q] - 1 = m
    <3>1. CASE at[q] = 1
      BY <2>3, <2>4, <3>1, RegistrationBounds
    <3>2. CASE at[q] > 1
      <4>1. at[q] - 1 \in 1 .. m
        BY <2>3, <2>4, <3>2
      <4>. QED
        BY <2>3, <2>4, <4>1, RegistrationBounds
    <3>. QED
      BY <2>2, <3>1, <3>2, RegistrationBounds
  <2>. QED
    BY <2>1, <2>3, <2>5
<1>2. \A j, k \in K : j = k
  BY <1>1 DEF RequestOK
<1>3. \A k \in K : rows[n] = q
  BY <1>1 DEF ReportsAreTrue
<1>4. CASE K = {}
  BY <1>4, FS_EmptySet
<1>5. CASE K # {}
  <2>1. PICK k : k \in K
    BY <1>5
  <2>2. K = {k}
    BY <1>2, <2>1
  <2>3. Cardinality(K) = 1
    BY <2>2, FS_Singleton
  <2>. QED
    BY <1>3, <2>1, <2>3
<1>. QED
  BY <1>4, <1>5

LEMMA PrintedType ==
  /\ TypeOK => Printed \in Nat
  /\ TypeOK' => Printed' \in Nat
BY RegistrationBounds DEF TypeOK, Printed

\* print_summary has not printed the names of a scan that has not begun it.
LEMMA PrintedGrows ==
  ASSUME TypeOK, [Next]_vars
  PROVE  Printed <= Printed' \/ stats'.registered = {}
<1>1. CASE UNCHANGED <<scan, tries>>
  BY <1>1, RegistrationBounds DEF Printed, TypeOK
<1>2. CASE StartScan \/ ListingReturns \/ ReadRegistered \/ EndScan
  BY <1>2, RegistrationBounds
  DEF StartScan, BeginsListing, ListingReturns, ReadRegistered, EndScan, Reporting, Printed, TypeOK
<1>3. CASE ScanDies \/ PrintReturns
  BY <1>3 DEF ScanDies, PrintReturns, ScanForgets, NoStats
<1>4. CASE PrintSummary
  BY <1>4, RegistrationBounds DEF PrintSummary, Printed, TypeOK
<1>5. CASE PrintDies
  BY <1>5, RegistrationBounds DEF PrintDies, ScanForgets, NoStats, Printed, TypeOK
<1>6. \/ UNCHANGED <<scan, tries>>
      \/ StartScan \/ ListingReturns \/ ReadRegistered \/ EndScan
      \/ ScanDies \/ PrintReturns \/ PrintSummary \/ PrintDies
  BY DEF Next, vars, scanning, ChangeStorage, Register, RequestDies, ScanStep, RequestStep,
         ListFile, ScanSkips, ScanRegisters, ScanErrs, ScanCounts, RequestSkips, NotFound,
         RequestRegisters, RequestErrs, Respond, Goes
<1>. QED
  BY <1>1, <1>2, <1>3, <1>4, <1>5, <1>6

LEMMA ReportsStep == IInv /\ [Next]_vars => ReportsOK'
<1>. DEFINE Fine(n) == /\ reports[n] <= MaxTries
                       /\ rows[n] = Nobody => reports[n] = 0
                       /\ n \in stats.registered => reports[n] <= Printed
                       /\ \A q \in Requests :
                            rows[n] = q => /\ reports[n] <= 1
                                           /\ pc[q] # "idle" /\ (pc[q] = "loop" => reports[n] = 0)
<1>. SUFFICES ASSUME IInv, [Next]_vars, NEW n \in Names
     PROVE  Fine(n)'
  BY DEF ReportsOK
<1>. USE RegistrationBounds DEF IInv
<1>0. /\ Fine(n) /\ reports[n] \in Nat
      /\ n \in stats.registered => rows[n] = Scan
      /\ Printed \in Nat
  BY DEF ReportsOK, ReportsAreTrue, TypeOK, Printed
<1>1. CASE UNCHANGED reports
  <2>1. rows[n] # Nobody => rows'[n] = rows[n]
    BY RowsStay
  <2>2. n \in stats'.registered => n \in stats.registered \/ rows[n] = Nobody
    BY StatsGrow
  <2>3. ASSUME NEW q \in Requests, rows'[n] = q
        PROVE  reports[n] <= 1 /\ pc'[q] # "idle" /\ (pc'[q] = "loop" => reports[n] = 0)
    BY <1>0, <2>1, <2>3, RequestPhases
  <2>4. n \in stats'.registered => reports[n] <= Printed'
    <3>1. n \in stats'.registered => Printed <= Printed'
      BY PrintedGrows
    <3>2. TypeOK'
      BY TypeStep
    <3>3. Printed' \in Nat
      BY <3>2, PrintedType
    <3>4. n \in stats'.registered => reports[n] <= Printed
      BY <1>0, <2>2
    <3>. QED
      BY <1>0, <3>1, <3>3, <3>4
  <2>. QED
    BY <1>0, <1>1, <2>1, <2>3, <2>4
<1>2. CASE PrintSummary
  <2>1. UNCHANGED <<rows, pc, stats>> /\ Printed = tries - 1 /\ Printed' = tries
    BY <1>2 DEF PrintSummary, Printed, requests
  <2>2. tries \in 1 .. MaxTries
    BY DEF TypeOK
  <2>3. CASE n \in stats.registered
    <3>1. reports'[n] = reports[n] + 1
      BY <1>2, <2>3 DEF PrintSummary
    <3>2. reports'[n] <= tries /\ reports'[n] <= MaxTries
      BY <1>0, <2>1, <2>2, <2>3, <3>1
    <3>. QED
      BY <1>0, <2>1, <2>3, <3>2, ScanAssumption DEF Scan, Nobody
  <2>4. CASE n \notin stats.registered
    <3>1. reports'[n] = reports[n]
      BY <1>0, <1>2, <2>4 DEF PrintSummary
    <3>. QED
      BY <1>0, <2>1, <2>4, <3>1
  <2>. QED
    BY <2>3, <2>4
<1>3. ASSUME NEW q \in Requests, Respond(q)
      PROVE  Fine(n)'
  <2>. DEFINE times == Cardinality({k \in DOMAIN names[q] :
                                      names[q][k] = n /\ outcome[q][k] = "registered"})
  <2>1. times \in 0 .. 1 /\ (times # 0 => rows[n] = q)
    BY <1>3, TimesReported DEF Respond
  <2>2. reports'[n] = reports[n] + times
    BY <1>3 DEF Respond
  <2>3. /\ UNCHANGED <<rows, stats>> /\ Printed' = Printed /\ pc[q] = "loop" /\ pc'[q] = "answered"
        /\ \A p \in Requests \ {q} : pc'[p] = pc[p]
    BY <1>3 DEF Respond, scanning, TypeOK, Printed
  <2>. HIDE DEF times
  <2>5. CASE times = 0
    <3>1. reports'[n] = reports[n]
      BY <1>0, <2>2, <2>5
    <3>. QED
      BY <1>0, <2>3, <3>1
  <2>6. CASE times = 1
    <3>1. rows[n] = q /\ reports[n] = 0
      BY <1>0, <2>1, <2>3, <2>6
    <3>2. reports'[n] = 1
      BY <2>2, <2>6, <3>1
    <3>. QED
      BY <1>0, <2>3, <3>1, <3>2, ScanAssumption
  <2>. QED
    BY <2>1, <2>5, <2>6
<1>4. UNCHANGED reports \/ PrintSummary \/ \E q \in Requests : Respond(q)
  BY DEF Next, vars, ChangeStorage, ScanDies, Register, RequestDies, ScanStep, RequestStep,
         StartScan, ListingReturns, ReadRegistered, EndScan, PrintReturns, PrintDies, ListFile,
         ScanSkips, ScanRegisters, ScanErrs, ScanCounts, RequestSkips, NotFound,
         RequestRegisters, RequestErrs, Goes
<1>. QED
  BY <1>1, <1>2, <1>3, <1>4

LEMMA ScanStepOK == TypeOK /\ KnownOK /\ ScanOK /\ [Next]_vars => ScanOK'
<1>. SUFFICES ASSUME TypeOK, KnownOK, ScanOK, [Next]_vars PROVE ScanOK'
  OBVIOUS
<1>r. Registered \subseteq Registered'
  BY RowsStay
<1>1. CASE UNCHANGED scanning /\ stayed' \subseteq stayed
  BY <1>r, <1>1 DEF scanning, ScanOK
<1>2. CASE StartScan \/ ScanDies
  BY <1>2 DEF StartScan, ScanDies, BeginsListing, ScanEnds, ScanOK, TypeOK
<1>3. CASE ListingReturns \/ ReadRegistered \/ EndScan
  BY <1>r, <1>3 DEF ListingReturns, ReadRegistered, EndScan, Reporting, ScanOK, fs
<1>4. CASE PrintSummary \/ PrintReturns \/ PrintDies
  BY <1>r, <1>4 DEF PrintSummary, PrintReturns, PrintDies, ScanEnds, ScanOK, fs
<1>5. ASSUME NEW n \in Names, ListFile(n) PROVE ScanOK'
  BY <1>5 DEF ListFile, ScanOK, fs, TypeOK
<1>6. ASSUME NEW n \in Names, ScanSkips(n) \/ ScanRegisters(n) \/ ScanErrs(n) PROVE ScanOK'
  <2>1. /\ scan = "loop" /\ UNCHANGED <<scan, stayed>> /\ todo' = todo \ {n}
        /\ stats.errors \subseteq stats'.errors
        /\ n \in Registered' \/ n \in stats'.errors
    <3>1. CASE ScanSkips(n)
      BY <1>r, <3>1 DEF ScanSkips, ScanCounts, KnownOK, fs, TypeOK, Lists
    <3>2. CASE ScanRegisters(n)
      BY <3>2 DEF ScanRegisters, ScanCounts, Inserts, Registered, fs, TypeOK, Lists, Scan, Nobody
    <3>3. CASE ScanErrs(n)
      BY <3>3 DEF ScanErrs, ScanCounts, fs, TypeOK, Lists
    <3>. QED
      BY <1>6, <3>1, <3>2, <3>3
  <2>. QED
    BY <1>r, <2>1 DEF ScanOK
<1>7. \/ UNCHANGED scanning /\ stayed' \subseteq stayed
      \/ StartScan \/ ScanDies \/ ListingReturns \/ ReadRegistered \/ EndScan
      \/ PrintSummary \/ PrintReturns \/ PrintDies
      \/ \E n \in Names : ListFile(n) \/ ScanSkips(n) \/ ScanRegisters(n) \/ ScanErrs(n)
  BY DEF Next, vars, ChangeStorage, Register, RequestDies, ScanStep, RequestStep,
         RequestSkips, NotFound, RequestRegisters, RequestErrs, Respond, Goes, fs
<1>. QED
  BY <1>1, <1>2, <1>3, <1>4, <1>5, <1>6, <1>7

\* The inductive invariant holds whatever scans, requests and the storage do.
THEOREM Invariance == Spec => []IInv
<1>1. IInv /\ [Next]_vars => IInv'
  BY TypeStep, KnownStep, RequestStepOK, TruthStep, ReportsStep, ScanStepOK DEF IInv
<1>. QED
  BY InitIInv, <1>1, PTL DEF Spec

\* The scan, the requests and the rows keep their types and bounds.
THEOREM TypeCorrect == Spec => []TypeOK
  BY Invariance, PTL DEF IInv

\* A file is reported as registered by one scan or one request only, and again
\* only when print_summary is tried again, for any number of files and requests.
THEOREM ReportedByOnlyOne == Spec => []ReportedByOne
<1>1. IInv => ReportedByOne
  BY DEF IInv, ReportsOK, ReportedByOne
<1>. QED
  BY <1>1, Invariance, PTL

\* Who reports a name as registered has registered it, and what is reported as
\* skipped has a row.
THEOREM ReportsTrue == Spec => []ReportsAreTrue
  BY Invariance, PTL DEF IInv

\* The report of a scan accounts for every file that stayed while it went on.
THEOREM ScanAccounts == Spec => []ScanAccountsForAll
<1>1. IInv => ScanAccountsForAll
  BY DEF IInv, ScanOK, ScanAccountsForAll
<1>. QED
  BY <1>1, Invariance, PTL
==============================================================================
