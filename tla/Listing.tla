------------------------------- MODULE Listing -------------------------------
(***************************************************************************)
(* The admin endpoints, read page by page while the pipeline writes.  Each *)
(* counts the rows and reads a page in two statements, which see different *)
(* states of the table, and a page is cut by limit and offset out of an    *)
(* order that the writes change: file_records is ordered by updated_at and *)
(* dead_queue by failed_at, newest first; the collection only grows.  A    *)
(* session takes the time before it writes the row, so that a write may    *)
(* come late and put a row behind others, or back to where it has been.    *)
(* The order is kept as what is ahead of each row, not as a sequence: a    *)
(* page is a set of places in it, which can be counted in a proof.         *)
(***************************************************************************)
EXTENDS Integers, FiniteSets

CONSTANTS
  Files,
  Writers,    \* the sessions that may write at the same time
  Limits,     \* the values of "limit" that clients use
  StatsLimit, \* the limit that chroma_stats uses
  MaxRows,    \* bound: rows ever inserted
  MaxWrites   \* bound: writes during one listing

ASSUME ListedFiles == IsFiniteSet(Files)
ASSUME LimitsAssumption == Limits \subseteq Nat \ {0} /\ StatsLimit \in Nat \ {0}
ASSUME ListingBounds == MaxRows \in Nat /\ MaxWrites \in Nat

VARIABLES
  table,      \* the table that is written and listed; the others are apart
  ahead,      \* for each row, and each time taken by a session that has yet to
              \* commit, the rows and times that are newer (older, if documents)
  status,     \* the status of each file record
  inserted, writes,
  \* the client
  pc, endpoint, limit, offset, total,
  filter,     \* the statuses that list_files shows
  seen,       \* the rows of all the pages so far
  shown,      \* how many they were, with those that came twice counted twice
  \* what has happened since its first request
  before,     \* the rows listed then
  touched,    \* those written to since
  left,       \* how many rows have left the listing, or were put back in it
  moved       \* how many rows have got another place in it

request == <<endpoint, limit, filter, before>>
paging == <<pc, offset, total, seen, shown>>
history == <<touched, left, moved>>
vars == <<table, ahead, status, inserted, writes, request, paging, history>>

Statuses == {"PENDING", "PROCESSING", "LOADED", "FAILED"}
Tables == {"file_records", "dead_queue", "documents"}
Row == [file : Files, id : 1 .. MaxRows]
Stamp == [by : Writers, op : {"insert", "update"}, file : Files]
entries == DOMAIN ahead
rows == entries \cap Row
stamps == entries \cap Stamp
RowsOf(f) == {r \in rows : r.file = f}

\* The rows that the endpoint lists: list_files may filter by status.
Listing == {r \in rows : table = "file_records" => status[r.file] \in filter}

\* ORDER BY: the rows of the listing ahead of a row, and how many they are.
Ahead(r) == ahead[r] \cap Listing
Place(r) == Cardinality(Ahead(r))

Init ==
  /\ table \in Tables
  /\ ahead = [r \in {} |-> {}] /\ status = [f \in Files |-> "PENDING"]
  /\ inserted = 0 /\ writes = 0
  /\ pc = "idle" /\ endpoint = "none" /\ limit = 0 /\ offset = 0 /\ total = 0
  /\ filter = Statuses /\ seen = {} /\ shown = 0
  /\ before = {} /\ touched = {} /\ left = 0 /\ moved = 0

------------------------------------------------------------------------------
(* The writes of the pipeline.  A write to file_records or dead_queue is a *)
(* session that takes the time and then commits the row with it.           *)

\* An entry becomes the newest, or a new one the last; entries are deleted; a
\* row takes the place of a stamp, and leaves the one it may have had before.
ToFront(e) ==
  ahead' = [q \in entries \cup {e} |-> IF q = e THEN {} ELSE ahead[q] \cup {e}]
ToEnd(e) ==
  ahead' = [q \in entries \cup {e} |-> IF q = e THEN entries \ {e} ELSE ahead[q] \ {e}]
Deletes(gone) == ahead' = [q \in entries \ gone |-> ahead[q] \ gone]
TakesPlace(r, s) ==
  LET place(e) == IF e = r THEN s ELSE e
      staying == (entries \ {s}) \cup {r}
  IN  ahead' = [q \in staying |-> {e \in staying : place(e) \in ahead[place(q)]}]

\* updated_at or failed_at is set.
TakesTime(w, op, f) ==
  /\ \A s \in stamps : s.by # w
  /\ ToFront([by |-> w, op |-> op, file |-> f])
  /\ UNCHANGED <<table, status, inserted, writes, request, paging, history>>

\* The new row of register_file or write_to_dead_queue is made.
MakesRow(w, f) ==
  /\ table \in {"file_records", "dead_queue"}
  /\ TakesTime(w, "insert", f)

\* update_file_status has found the record.
FindsRecord(w, f) ==
  /\ table = "file_records"
  /\ RowsOf(f) # {}
  /\ TakesTime(w, "update", f)

\* A commit that gives the rows of front another place, and puts those of sunk
\* behind where they were.  Writes between two listings are not counted.
Writes(t, front, sunk) ==
  /\ table = t /\ pc # "done"
  /\ UNCHANGED <<table, request, paging>>
  /\ IF pc = "idle"
     THEN UNCHANGED <<writes, history>>
     ELSE LET gone == (Listing \ Listing') \cup (Listing \cap sunk) IN
          /\ writes < MaxWrites /\ writes' = writes + 1
          /\ left' = left + Cardinality(gone)
          /\ moved' = moved + Cardinality(front)
          /\ touched' = touched \cup front \cup gone

NewRow(f) == [file |-> f, id |-> inserted + 1]
Inserts(s) ==
  /\ s.op = "insert"
  /\ inserted < MaxRows /\ inserted' = inserted + 1
  /\ TakesPlace(NewRow(s.file), s)

\* Mutated form of RegisterFile: no unique index on the file name.
RegisterAgain(s) ==
  /\ Inserts(s)
  /\ status' = [status EXCEPT ![s.file] = "PENDING"]
  /\ Writes("file_records", {NewRow(s.file)}, {})

RegisterFile(s) ==
  /\ RowsOf(s.file) = {}
  /\ Inserts(s)
  /\ status' = [status EXCEPT ![s.file] = "PENDING"]
  /\ Writes("file_records", {NewRow(s.file)}, {})

\* Mutated form of UpdateFileStatus: the order is ascending.
UpdateMovesToEnd(s) ==
  /\ s.op = "update"
  /\ \E to \in Statuses \ {"PENDING"} : \E r \in RowsOf(s.file) :
       /\ ahead' = [q \in entries \ {s} |->
                     IF q = r THEN entries \ {r, s} ELSE ahead[q] \ {r, s}]
       /\ status' = [status EXCEPT ![s.file] = to]
       /\ Writes("file_records", {r}, {r} \cap ahead[s])
  /\ UNCHANGED inserted

\* The row gets the time of the session.  It may have got a newer one meanwhile,
\* which is then overwritten: no lock is held from the select to the update.
UpdateFileStatus(s) ==
  /\ s.op = "update"
  /\ \E to \in Statuses \ {"PENDING"} : \E r \in RowsOf(s.file) :
       /\ TakesPlace(r, s)
       /\ status' = [status EXCEPT ![s.file] = to]
       /\ Writes("file_records", {r}, {r} \cap ahead[s])
  /\ UNCHANGED inserted

WriteDeadQueue(s) ==
  /\ Inserts(s)
  /\ Writes("dead_queue", {NewRow(s.file)}, {})
  /\ UNCHANGED status

\* A session raises, for one because the file has a record already, or its
\* process dies.
Rollback(s) ==
  /\ Deletes({s})
  /\ UNCHANGED <<table, status, inserted, writes, request, paging, history>>

\* One statement, which takes no time from the clock.
RemoveFromDeadQueue(f) ==
  /\ Deletes(RowsOf(f))
  /\ Writes("dead_queue", {}, {})
  /\ UNCHANGED <<status, inserted>>

\* The collection lists its documents in the order of their insertion.  The
\* chunks of one call are added here one at a time.
AddDocuments(f) ==
  /\ inserted < MaxRows /\ inserted' = inserted + 1
  /\ ToEnd(NewRow(f))
  /\ Writes("documents", {}, {})
  /\ UNCHANGED status

------------------------------------------------------------------------------
(* The endpoints.                                                          *)

\* A client sends the first request of a listing.
Starts(t, e, n, visible) ==
  /\ pc = "idle" /\ table = t
  /\ UNCHANGED <<table, ahead, status, inserted>>
  /\ pc' = "count" /\ endpoint' = e /\ limit' = n /\ filter' = visible
  /\ before' = Listing'
  /\ UNCHANGED <<writes, offset, total, seen, shown, history>>

ListFiles ==
  \E n \in Limits, visible \in {Statuses} \cup {{s} : s \in Statuses} :
    Starts("file_records", "list_files", n, visible)
GetDeadQueue == \E n \in Limits : Starts("dead_queue", "dead_queue", n, Statuses)
GetChromaList == \E n \in Limits : Starts("documents", "chroma_list", n, Statuses)
GetChromaStats == Starts("documents", "chroma_stats", StatsLimit, Statuses)

\* The first statement of each.  An empty collection is reported at once.
Count ==
  /\ pc = "count"
  /\ total' = Cardinality(Listing)
  /\ pc' = IF table = "documents" /\ Listing = {} THEN "done" ELSE "page"
  /\ UNCHANGED <<table, ahead, status, inserted, writes, request, offset, seen, shown, history>>

\* LIMIT n OFFSET k
First(n) == {r \in Listing : Place(r) < n}
Slice(k, n) == First(k + n) \ First(k)

\* Mutated forms: pages that overlap, an offset that is not added to the limit,
\* and one that is off by one.
OverlappingRecords == Slice(IF offset = 0 THEN 0 ELSE offset - 1, limit)
ListDocumentsShort == First(limit) \ First(offset)
ListDocumentsLate == Slice(offset + 1, limit)

GetFileRecords == Slice(offset, limit)
GetDeadQueueEntries == Slice(offset, limit)
\* The collection is read from its start and the offset is taken off here.
ListDocuments == First(limit + offset) \ First(offset)

Page ==
  CASE table = "file_records" -> GetFileRecords
    [] table = "dead_queue" -> GetDeadQueueEntries
    [] table = "documents" -> ListDocuments

\* The second statement, and the response.
ReadPage ==
  /\ pc = "page"
  /\ seen' = seen \cup Page
  /\ shown' = shown + Cardinality(Page)
  /\ pc' = IF endpoint = "chroma_stats" \/ Cardinality(Page) < limit THEN "done" ELSE "next"
  /\ UNCHANGED <<table, ahead, status, inserted, writes, request, offset, total, history>>

\* The client asks for the next page, until one is not full.
NextPage ==
  /\ pc = "next"
  /\ pc' = "count"
  /\ offset' = offset + limit
  /\ UNCHANGED <<table, ahead, status, inserted, writes, request, total, seen, shown, history>>

\* The client has read the result and forgets it.
Forget ==
  /\ pc = "done"
  /\ pc' = "idle" /\ endpoint' = "none" /\ limit' = 0 /\ filter' = Statuses
  /\ offset' = 0 /\ total' = 0 /\ seen' = {} /\ shown' = 0 /\ writes' = 0
  /\ before' = {} /\ touched' = {} /\ left' = 0 /\ moved' = 0
  /\ UNCHANGED <<table, ahead, status, inserted>>

Next ==
  \/ \E w \in Writers, f \in Files : MakesRow(w, f) \/ FindsRecord(w, f)
  \/ \E s \in stamps : \/ RegisterFile(s) \/ UpdateFileStatus(s) \/ WriteDeadQueue(s)
                       \/ Rollback(s)
  \/ \E f \in Files : RemoveFromDeadQueue(f) \/ AddDocuments(f)
  \/ ListFiles \/ GetDeadQueue \/ GetChromaList \/ GetChromaStats
  \/ Count \/ ReadPage \/ NextPage \/ Forget

Spec == Init /\ [][Next]_vars

------------------------------------------------------------------------------
\* Of two entries one is ahead, and what is ahead of it is ahead of the other too.
Ordered ==
  /\ ahead \in [entries -> SUBSET entries]
  /\ \A r, q \in entries : q \in ahead[r] <=> r # q /\ r \notin ahead[q]
  /\ \A r, q \in entries : q \in ahead[r] => ahead[q] \subseteq ahead[r]

\* The rows and the times taken are in one order, no id is given twice or above
\* the last one, a file has one record and a session takes one time; the
\* client's listing is within the bounds.
TypeOK ==
  /\ table \in Tables
  /\ entries \subseteq Row \cup Stamp /\ \A r \in rows : r.id <= inserted
  /\ \A r, q \in rows : r.id = q.id => r = q
  /\ table = "file_records" => \A r, q \in rows : r.file = q.file => r = q
  /\ \A s, t \in stamps : s.by = t.by => s = t
  /\ Ordered
  /\ status \in [Files -> Statuses]
  /\ inserted \in 0 .. MaxRows /\ writes \in 0 .. MaxWrites
  /\ pc \in {"idle", "count", "page", "next", "done"}
  /\ endpoint \in {"none", "list_files", "dead_queue", "chroma_list", "chroma_stats"}
  /\ limit \in Limits \cup {0, StatsLimit} /\ offset \in Nat /\ total \in 0 .. MaxRows
  /\ filter \subseteq Statuses /\ seen \subseteq Row /\ shown \in Nat
  /\ before \subseteq Row /\ touched \subseteq Row /\ left \in Nat /\ moved \in Nat

\* A listing that has ended missed no more of the rows that were there all the
\* time and untouched than rows have left it meanwhile, or have been put back by
\* a write that came late: none if there was none of these.
MissedAtMostLeftOrSunk ==
  pc = "done" /\ endpoint # "chroma_stats" =>
    Cardinality((before \ touched) \ seen) <= left

\* A listing repeats no more rows than have got another place meanwhile.
RepeatedAtMostMoved == shown - Cardinality(seen) <= moved

\* The pages of chroma_list are the collection from its start, without a gap or
\* a repetition, and no shorter than the total that came with the last of them.
CollectionListed ==
  endpoint = "chroma_list" =>
    /\ seen = First(shown) /\ Cardinality(seen) = shown
    /\ pc = "done" => shown >= total

\* chroma_stats counts every file that had chunks when it was asked, as long as
\* the collection is within its limit; beyond it files may be left out.
StatsComplete ==
  pc = "done" /\ endpoint = "chroma_stats" /\ Cardinality(rows) <= StatsLimit =>
    {r.file : r \in before} \subseteq {r.file : r \in seen}
==============================================================================
