---------------------------- MODULE ListingProofs ----------------------------
(***************************************************************************)
(* Theorems about Listing, for any number of files and rows, any limits    *)
(* and any number of writes during a listing.                              *)
(***************************************************************************)
EXTENDS Listing, FiniteSetTheorems, TLAPS

------------------------------------------------------------------------------
(* Counting places in an order.  B[r] are the elements of S ahead of r.    *)

LinearOn(S, B) ==
  /\ B \in [S -> SUBSET S]
  /\ \A r, q \in S : q \in B[r] <=> r # q /\ r \notin B[q]
  /\ \A r, q \in S : q \in B[r] => B[q] \subseteq B[r]

\* An element has a place among as many as there are elements, and each has its own.
LEMMA Places ==
  ASSUME NEW S, IsFiniteSet(S), NEW B, LinearOn(S, B)
  PROVE  /\ \A r \in S : Cardinality(B[r]) \in 0 .. Cardinality(S) - 1
         /\ \A r, q \in S : q \in B[r] => Cardinality(B[q]) < Cardinality(B[r])
         /\ \A r, q \in S : Cardinality(B[r]) = Cardinality(B[q]) => r = q
<1>. USE DEF LinearOn
<1>1. ASSUME NEW r \in S
      PROVE  Cardinality(B[r]) \in 0 .. Cardinality(S) - 1
  <2>1. r \notin B[r] /\ B[r] \subseteq S /\ B[r] # S
    OBVIOUS
  <2>2. /\ Cardinality(B[r]) <= Cardinality(S) /\ IsFiniteSet(B[r])
        /\ Cardinality(B[r]) # Cardinality(S)
    BY <2>1, FS_Subset
  <2>3. Cardinality(S) \in Nat /\ Cardinality(B[r]) \in Nat
    BY <2>2, FS_CardinalityType
  <2>. QED
    BY <2>2, <2>3
<1>2. ASSUME NEW r \in S, NEW q \in S, q \in B[r]
      PROVE  Cardinality(B[q]) < Cardinality(B[r])
  <2>1. q \notin B[q] /\ B[q] \subseteq B[r] /\ B[q] # B[r] /\ B[r] \subseteq S
    BY <1>2
  <2>2. IsFiniteSet(B[r])
    BY <2>1, FS_Subset
  <2>3. Cardinality(B[q]) <= Cardinality(B[r]) /\ Cardinality(B[q]) # Cardinality(B[r])
    BY <2>1, <2>2, FS_Subset
  <2>4. Cardinality(B[q]) \in Nat /\ Cardinality(B[r]) \in Nat
    BY <1>1
  <2>. QED
    BY <2>3, <2>4
<1>3. ASSUME NEW r \in S, NEW q \in S, Cardinality(B[r]) = Cardinality(B[q]), r # q
      PROVE  FALSE
  <2>1. q \in B[r] \/ r \in B[q]
    BY <1>3
  <2>2. Cardinality(B[q]) \in Nat /\ Cardinality(B[r]) \in Nat
    BY <1>1
  <2>. QED
    BY <1>2, <1>3, <2>1, <2>2
<1>. QED
  BY <1>1, <1>2, <1>3

Window(S, B, k, n) == {r \in S : Cardinality(B[r]) >= k /\ Cardinality(B[r]) < k + n}

\* n places in a row have n elements at most, and as many if the order is long enough.
LEMMA WindowSize ==
  ASSUME NEW S, IsFiniteSet(S), NEW B, LinearOn(S, B), NEW k \in Nat, NEW n \in Nat
  PROVE  /\ IsFiniteSet(Window(S, B, k, n))
         /\ Cardinality(Window(S, B, k, n)) \in Nat
         /\ Cardinality(Window(S, B, k, n)) <= n
         /\ k + n <= Cardinality(S) => Cardinality(Window(S, B, k, n)) = n
<1>. DEFINE N == Cardinality(S)
            W == Window(S, B, k, n)
            place == [r \in S |-> Cardinality(B[r])]
            inside == [r \in W |-> Cardinality(B[r])]
<1>1. N \in Nat /\ IsFiniteSet(0 .. N - 1) /\ Cardinality(0 .. N - 1) = N
  <2>1. N \in Nat
    BY FS_CardinalityType
  <2>. HIDE DEF N
  <2>. QED
    BY <2>1, FS_Interval
<1>2. place \in Injection(S, 0 .. N - 1)
  BY Places DEF Injection, IsInjective
<1>3. place \in Surjection(S, 0 .. N - 1)
  BY <1>1, <1>2, FS_Injection
<1>4. IsFiniteSet(k .. k + n - 1) /\ Cardinality(k .. k + n - 1) = n
  BY FS_Interval
<1>5. inside \in Injection(W, k .. k + n - 1)
  <2>1. \A r \in W : r \in S /\ Cardinality(B[r]) \in Nat
    BY <1>1, Places DEF Window
  <2>2. inside \in [W -> k .. k + n - 1]
    BY <2>1 DEF Window
  <2>3. \A r, q \in W : inside[r] = inside[q] => r = q
    BY <2>1, Places
  <2>. QED
    BY <2>2, <2>3 DEF Injection, IsInjective
<1>6. IsFiniteSet(W) /\ Cardinality(W) <= n
  BY <1>4, <1>5, FS_Injection
<1>7. ASSUME k + n <= N
      PROVE  Cardinality(W) = n
  <2>1. ASSUME NEW m \in k .. k + n - 1
        PROVE  \E r \in W : inside[r] = m
    <3>1. m \in 0 .. N - 1
      BY <1>1, <1>7
    <3>2. PICK r \in S : place[r] = m
      BY <1>3, <3>1 DEF Surjection
    <3>3. r \in W
      BY <3>2 DEF Window
    <3>. QED
      BY <3>2, <3>3
  <2>2. inside \in Surjection(W, k .. k + n - 1)
    BY <1>5, <2>1 DEF Surjection, Injection
  <2>. QED
    BY <1>4, <1>5, <2>2, FS_Injection
<1>8. Cardinality(W) \in Nat
  BY <1>6, FS_CardinalityType
<1>. QED
  BY <1>6, <1>7, <1>8

\* What is covered by two finite sets is no more than they are together.
LEMMA UnionBound ==
  ASSUME NEW S, IsFiniteSet(S), NEW T, IsFiniteSet(T), NEW U, U \subseteq S \cup T
  PROVE  /\ IsFiniteSet(U) /\ Cardinality(U) \in Nat
         /\ Cardinality(U) <= Cardinality(S) + Cardinality(T)
<1>1. /\ IsFiniteSet(S \cup T)
      /\ Cardinality(S \cup T) = Cardinality(S) + Cardinality(T) - Cardinality(S \cap T)
  BY FS_Union
<1>2. IsFiniteSet(U) /\ Cardinality(U) <= Cardinality(S \cup T)
  BY <1>1, FS_Subset
<1>3. /\ Cardinality(S) \in Nat /\ Cardinality(T) \in Nat /\ Cardinality(U) \in Nat
      /\ Cardinality(S \cap T) \in Nat
  BY <1>2, FS_CardinalityType, FS_Intersection
<1>. QED
  BY <1>1, <1>2, <1>3

------------------------------------------------------------------------------
(* The rows and the listing in a state.                                    *)

LEMMA RowFinite == IsFiniteSet(Row)
<1>. DEFINE I == 1 .. MaxRows
            P == Files \X I
            mk == [p \in P |-> [file |-> p[1], id |-> p[2]]]
<1>1. IsFiniteSet(I)
  BY FS_Interval, ListingBounds
<1>2. IsFiniteSet(P)
  BY <1>1, FS_Product, ListedFiles
<1>3. mk \in Surjection(P, Row)
  <2>1. mk \in [P -> Row]
    BY DEF Row
  <2>2. ASSUME NEW r \in Row
        PROVE  \E p \in P : mk[p] = r
    <3>1. <<r.file, r.id>> \in P
      BY DEF Row
    <3>2. mk[<<r.file, r.id>>] = [file |-> r.file, id |-> r.id]
      BY <3>1
    <3>3. mk[<<r.file, r.id>>] = r
      BY <3>2 DEF Row
    <3>. QED
      BY <3>1, <3>3
  <2>. QED
    BY <2>1, <2>2 DEF Surjection
<1>. QED
  BY <1>2, <1>3, FS_Surjection

InOrder == [r \in Listing |-> Ahead(r)]

\* The rows are no more than were inserted, and so are those that are listed.
LEMMA RowCount ==
  TypeOK => /\ IsFiniteSet(rows) /\ IsFiniteSet(Listing)
            /\ Cardinality(rows) \in 0 .. inserted
            /\ Cardinality(Listing) \in 0 .. Cardinality(rows)
<1>. SUFFICES ASSUME TypeOK
              PROVE  /\ IsFiniteSet(rows) /\ IsFiniteSet(Listing)
                     /\ Cardinality(rows) \in 0 .. inserted
                     /\ Cardinality(Listing) \in 0 .. Cardinality(rows)
  OBVIOUS
<1>. DEFINE id == [r \in rows |-> r.id]
<1>1. inserted \in Nat
  BY ListingBounds DEF TypeOK
<1>2. IsFiniteSet(1 .. inserted) /\ Cardinality(1 .. inserted) = inserted
  BY <1>1, FS_Interval
<1>3. id \in Injection(rows, 1 .. inserted)
  <2>1. \A r \in rows : r.id \in 1 .. inserted
    BY <1>1 DEF TypeOK, rows, Row
  <2>. QED
    BY <2>1 DEF TypeOK, Injection, IsInjective
<1>4. IsFiniteSet(rows) /\ Cardinality(rows) <= inserted
  BY <1>2, <1>3, FS_Injection
<1>5. Listing \subseteq rows
  BY DEF Listing
<1>6. IsFiniteSet(Listing) /\ Cardinality(Listing) <= Cardinality(rows)
  BY <1>4, <1>5, FS_Subset
<1>7. Cardinality(rows) \in Nat /\ Cardinality(Listing) \in Nat
  BY <1>4, <1>6, FS_CardinalityType
<1>. QED
  BY <1>1, <1>4, <1>6, <1>7

\* The listing is in a linear order, whatever it leaves out.
LEMMA ListingOrder == TypeOK => LinearOn(Listing, InOrder)
<1>. SUFFICES ASSUME TypeOK
              PROVE  LinearOn(Listing, InOrder)
  OBVIOUS
<1>1. Listing \subseteq entries /\ Ordered
  BY DEF Listing, rows, TypeOK
<1>2. InOrder \in [Listing -> SUBSET Listing]
  BY DEF InOrder, Ahead
<1>3. \A r, q \in Listing : q \in InOrder[r] <=> q \in ahead[r]
  BY DEF InOrder, Ahead
<1>4. \A r, q \in Listing : q \in InOrder[r] => InOrder[q] \subseteq InOrder[r]
  BY <1>1 DEF Ordered, InOrder, Ahead
<1>. QED
  BY <1>1, <1>2, <1>3, <1>4 DEF Ordered, LinearOn

Between(k, n) == {r \in Listing : Place(r) >= k /\ Place(r) < k + n}

\* Each listed row has a place of its own, and any n places in a row have at most
\* n rows, and n if the listing is that long.
LEMMA ListingPlaces ==
  TypeOK =>
    /\ \A r \in Listing : Place(r) \in 0 .. Cardinality(Listing) - 1
    /\ \A r, q \in Listing : q \in Ahead(r) => Place(q) < Place(r)
    /\ \A k, n \in Nat :
         /\ IsFiniteSet(Between(k, n)) /\ Cardinality(Between(k, n)) \in 0 .. n
         /\ k + n <= Cardinality(Listing) => Cardinality(Between(k, n)) = n
         /\ Slice(k, n) = Between(k, n)
<1>. SUFFICES ASSUME TypeOK
              PROVE  /\ \A r \in Listing : Place(r) \in 0 .. Cardinality(Listing) - 1
                     /\ \A r, q \in Listing : q \in Ahead(r) => Place(q) < Place(r)
                     /\ \A k, n \in Nat :
                          /\ IsFiniteSet(Between(k, n))
                          /\ Cardinality(Between(k, n)) \in 0 .. n
                          /\ k + n <= Cardinality(Listing) => Cardinality(Between(k, n)) = n
                          /\ Slice(k, n) = Between(k, n)
  OBVIOUS
<1>1. LinearOn(Listing, InOrder) /\ IsFiniteSet(Listing)
  BY ListingOrder, RowCount
<1>2. \A r \in Listing : InOrder[r] = Ahead(r)
  BY DEF InOrder
<1>3. /\ \A r \in Listing : Place(r) \in 0 .. Cardinality(Listing) - 1
      /\ \A r, q \in Listing : q \in Ahead(r) => Place(q) < Place(r)
  BY <1>1, <1>2, Places DEF Place
<1>4. ASSUME NEW k \in Nat, NEW n \in Nat
      PROVE  /\ IsFiniteSet(Between(k, n)) /\ Cardinality(Between(k, n)) \in 0 .. n
             /\ k + n <= Cardinality(Listing) => Cardinality(Between(k, n)) = n
             /\ Slice(k, n) = Between(k, n)
  <2>1. Between(k, n) = Window(Listing, InOrder, k, n)
    BY <1>2 DEF Between, Window, Place
  <2>2. /\ IsFiniteSet(Between(k, n)) /\ Cardinality(Between(k, n)) \in Nat
        /\ Cardinality(Between(k, n)) <= n
        /\ k + n <= Cardinality(Listing) => Cardinality(Between(k, n)) = n
    BY <1>1, <2>1, WindowSize
  <2>3. \A r \in Listing : Place(r) \in Nat
    BY <1>1, <1>3, FS_CardinalityType
  <2>4. Slice(k, n) = Between(k, n)
    BY <2>3 DEF Slice, First, Between
  <2>. QED
    BY <2>2, <2>4
<1>. QED
  BY <1>3, <1>4

------------------------------------------------------------------------------
(* What the writes do to the rows.                                         *)

LEMMA RowsAreNoStamps == \A r \in Row : r \notin Stamp
<1>1. \A r \in Row : DOMAIN r = {"file", "id"}
  BY DEF Row
<1>2. \A s \in Stamp : "by" \in DOMAIN s
  BY DEF Stamp
<1>. QED
  BY <1>1, <1>2

\* An entry that becomes the newest or the last leaves the others in their order,
\* and so do those that are deleted.
LEMMA ToFrontOrders ==
  ASSUME Ordered, NEW e, ToFront(e)
  PROVE  entries' = entries \cup {e} /\ Ordered'
<1>1. entries' = entries \cup {e}
  BY DEF ToFront, entries
<1>2. ahead' = [q \in entries \cup {e} |-> IF q = e THEN {} ELSE ahead[q] \cup {e}]
  BY DEF ToFront
<1>. QED
  BY <1>1, <1>2 DEF Ordered

LEMMA ToEndOrders ==
  ASSUME Ordered, NEW e, e \notin entries, ToEnd(e)
  PROVE  entries' = entries \cup {e} /\ Ordered'
<1>1. entries' = entries \cup {e}
  BY DEF ToEnd, entries
<1>2. ahead' = [q \in entries \cup {e} |-> IF q = e THEN entries \ {e} ELSE ahead[q] \ {e}]
  BY DEF ToEnd
<1>. QED
  BY <1>1, <1>2 DEF Ordered

LEMMA DeletesOrders ==
  ASSUME Ordered, NEW gone, Deletes(gone)
  PROVE  entries' = entries \ gone /\ Ordered'
<1>1. entries' = entries \ gone
  BY DEF Deletes, entries
<1>2. ahead' = [q \in entries \ gone |-> ahead[q] \ gone]
  BY DEF Deletes
<1>. QED
  BY <1>1, <1>2 DEF Ordered

\* A row in the place of a stamp is where the stamp was among the others, which
\* stay in their order.
LEMMA TakesPlaceOrders ==
  ASSUME Ordered, NEW r, NEW s \in entries, r # s, TakesPlace(r, s)
  PROVE  /\ entries' = (entries \ {s}) \cup {r} /\ Ordered'
         /\ \A q \in entries \ {r, s} : /\ ahead'[q] \ {r} = ahead[q] \ {r, s}
                                        /\ r \in ahead'[q] <=> s \in ahead[q]
<1>. DEFINE staying == (entries \ {s}) \cup {r}
            place == [e \in staying |-> IF e = r THEN s ELSE e]
<1>1. ahead' = [q \in staying |-> {e \in staying : place[e] \in ahead[place[q]]}]
  BY DEF TakesPlace
<1>2. entries' = staying
  BY <1>1 DEF entries
<1>3. /\ \A q \in staying : place[q] \in entries
      /\ \A q, e \in staying : place[q] = place[e] => q = e
      /\ \A q \in staying \ {r} : place[q] = q
      /\ place[r] = s
  OBVIOUS
<1>4. \A q, e \in staying : e \in ahead'[q] <=> place[e] \in ahead[place[q]]
  BY <1>1
<1>5. ahead' \in [staying -> SUBSET staying]
  BY <1>1
<1>. HIDE DEF staying, place
<1>6. Ordered'
  <2>1. \A q, e \in staying : e \in ahead'[q] <=> q # e /\ q \notin ahead'[e]
    BY <1>3, <1>4 DEF Ordered
  <2>2. ASSUME NEW q \in staying, NEW e \in staying, e \in ahead'[q]
        PROVE  ahead'[e] \subseteq ahead'[q]
    <3>1. ahead[place[e]] \subseteq ahead[place[q]]
      BY <1>3, <1>4, <2>2 DEF Ordered
    <3>. QED
      BY <1>4, <1>5, <3>1
  <2>. QED
    BY <1>2, <1>5, <2>1, <2>2 DEF Ordered
<1>7. ASSUME NEW q \in entries \ {r, s}
      PROVE  /\ ahead'[q] \ {r} = ahead[q] \ {r, s}
             /\ r \in ahead'[q] <=> s \in ahead[q]
  <2>1. q \in staying \ {r} /\ r \in staying /\ ahead[q] \subseteq entries
    BY DEF Ordered, staying
  <2>2. \A e : e \in staying \ {r} <=> e \in entries \ {r, s}
    BY DEF staying
  <2>. QED
    BY <1>3, <1>4, <1>5, <2>1, <2>2
<1>. QED
  BY <1>2, <1>6, <1>7 DEF staying

\* What it means for the rows.
LEMMA RowTakesPlace ==
  ASSUME TypeOK, NEW r \in Row, NEW s \in stamps, TakesPlace(r, s)
  PROVE  /\ rows' = rows \cup {r} /\ stamps' = stamps \ {s} /\ Ordered'
         /\ entries' \subseteq Row \cup Stamp
         /\ \A q \in rows \ {r} : /\ (ahead'[q] \cap Row) \ {r} = (ahead[q] \cap Row) \ {r}
                                  /\ r \in ahead'[q] <=> s \in ahead[q]
<1>1. Ordered /\ entries \subseteq Row \cup Stamp
  BY DEF TypeOK
<1>2. s \in entries /\ s \in Stamp /\ r # s /\ r \notin Stamp /\ s \notin Row
  BY RowsAreNoStamps DEF stamps
<1>3. /\ entries' = (entries \ {s}) \cup {r} /\ Ordered'
      /\ \A q \in entries \ {r, s} : /\ ahead'[q] \ {r} = ahead[q] \ {r, s}
                                     /\ r \in ahead'[q] <=> s \in ahead[q]
  BY <1>1, <1>2, TakesPlaceOrders
<1>4. rows' = rows \cup {r} /\ stamps' = stamps \ {s}
  BY <1>2, <1>3 DEF rows, stamps
<1>5. \A q \in rows \ {r} : q \in entries \ {r, s}
  BY <1>2 DEF rows
<1>. QED
  BY <1>1, <1>2, <1>3, <1>4, <1>5

\* An inserted row is not one of those there.
LEMMA NewRowIsNew ==
  ASSUME TypeOK, NEW f \in Files, inserted < MaxRows
  PROVE  /\ NewRow(f) \in Row /\ NewRow(f) \notin entries /\ NewRow(f) \notin rows
         /\ NewRow(f).id = inserted + 1 /\ NewRow(f).file = f
         /\ inserted + 1 \in 0 .. MaxRows
<1>1. inserted \in Nat /\ inserted + 1 \in 1 .. MaxRows
  BY ListingBounds DEF TypeOK
<1>2. NewRow(f) \in Row /\ NewRow(f).id = inserted + 1 /\ NewRow(f).file = f
  BY <1>1 DEF NewRow, Row
<1>3. NewRow(f) \notin rows
  BY <1>1, <1>2 DEF TypeOK
<1>. QED
  BY <1>1, <1>2, <1>3 DEF rows

LEMMA InsertedIds ==
  ASSUME TypeOK, NEW f \in Files, inserted < MaxRows, inserted' = inserted + 1,
         rows' = rows \cup {NewRow(f)}
  PROVE  /\ \A r \in rows' : r.id <= inserted'
         /\ \A r, q \in rows' : r.id = q.id => r = q
<1>. DEFINE new == NewRow(f)
<1>1. /\ new \in Row /\ new.id = inserted + 1 /\ inserted' = inserted + 1
      /\ inserted \in Nat /\ rows' = rows \cup {new}
  BY NewRowIsNew, ListingBounds DEF TypeOK
<1>. HIDE DEF new
<1>2. \A r \in rows : r \in Row /\ r.id \in Nat /\ r.id <= inserted
  BY DEF TypeOK, rows, Row
<1>3. \A r, q \in rows : r.id = q.id => r = q
  BY DEF TypeOK
<1>4. \A r \in rows : r.id < inserted + 1
  BY <1>1, <1>2
<1>. QED
  BY <1>1, <1>2, <1>3, <1>4

\* The part of TypeOK about the table.
TableOK ==
  /\ table \in Tables
  /\ entries \subseteq Row \cup Stamp /\ \A r \in rows : r.id <= inserted
  /\ \A r, q \in rows : r.id = q.id => r = q
  /\ table = "file_records" => \A r, q \in rows : r.file = q.file => r = q
  /\ \A s, t \in stamps : s.by = t.by => s = t
  /\ Ordered
  /\ status \in [Files -> Statuses]
  /\ inserted \in 0 .. MaxRows

\* The steps that write to the rows, and those that only take or give up a time.
Commit(s) == RegisterFile(s) \/ UpdateFileStatus(s) \/ WriteDeadQueue(s)
Writing ==
  \/ \E s \in stamps : Commit(s)
  \/ \E f \in Files : RemoveFromDeadQueue(f) \/ AddDocuments(f)
Timing ==
  \/ \E w \in Writers, f \in Files : MakesRow(w, f) \/ FindsRecord(w, f)
  \/ \E s \in stamps : Rollback(s)

\* What the three commits that put a row in the place of a stamp have in common.
LEMMA CommitsPlace ==
  ASSUME TypeOK, NEW s \in stamps, Commit(s)
  PROVE  \E r \in Row :
           /\ TakesPlace(r, s) /\ table' = table /\ r.file = s.file /\ s.file \in Files
           /\ \/ /\ r = NewRow(s.file) /\ r \notin rows /\ table \in {"file_records", "dead_queue"}
                 /\ inserted < MaxRows /\ inserted' = inserted + 1
                 /\ Writes(table, {r}, {})
                 /\ table = "file_records" =>
                      /\ \A q \in rows : q.file # s.file
                      /\ status' = [status EXCEPT ![s.file] = "PENDING"]
                 /\ table = "dead_queue" => status' = status
              \/ /\ r \in rows /\ table = "file_records"
                 /\ inserted' = inserted
                 /\ Writes(table, {r}, {r} \cap ahead[s])
                 /\ \E to \in Statuses : status' = [status EXCEPT ![s.file] = to]
<1>1. s.file \in Files
  BY DEF stamps, Stamp
<1>2. CASE RegisterFile(s)
  <2>1. /\ inserted < MaxRows /\ inserted' = inserted + 1 /\ TakesPlace(NewRow(s.file), s)
        /\ RowsOf(s.file) = {} /\ table = "file_records" /\ table' = table
        /\ status' = [status EXCEPT ![s.file] = "PENDING"]
        /\ Writes(table, {NewRow(s.file)}, {})
    BY <1>2 DEF RegisterFile, Inserts, Writes
  <2>2. \A q \in rows : q.file # s.file
    BY <2>1 DEF RowsOf
  <2>3. NewRow(s.file) \in Row /\ NewRow(s.file) \notin rows /\ NewRow(s.file).file = s.file
    BY <1>1, <2>1, NewRowIsNew
  <2>. QED
    BY <1>1, <2>1, <2>2, <2>3
<1>3. CASE WriteDeadQueue(s)
  <2>1. /\ inserted < MaxRows /\ inserted' = inserted + 1 /\ TakesPlace(NewRow(s.file), s)
        /\ table = "dead_queue" /\ table' = table /\ status' = status
        /\ Writes(table, {NewRow(s.file)}, {})
    BY <1>3 DEF WriteDeadQueue, Inserts, Writes
  <2>2. NewRow(s.file) \in Row /\ NewRow(s.file) \notin rows /\ NewRow(s.file).file = s.file
    BY <1>1, <2>1, NewRowIsNew
  <2>. QED
    BY <1>1, <2>1, <2>2
<1>4. CASE UpdateFileStatus(s)
  <2>1. PICK to \in Statuses \ {"PENDING"}, r \in RowsOf(s.file) :
          /\ TakesPlace(r, s) /\ status' = [status EXCEPT ![s.file] = to]
          /\ Writes("file_records", {r}, {r} \cap ahead[s])
    BY <1>4 DEF UpdateFileStatus
  <2>2. table = "file_records" /\ table' = table /\ inserted' = inserted
    BY <1>4, <2>1 DEF UpdateFileStatus, Writes
  <2>3. r \in rows /\ r \in Row /\ r.file = s.file
    BY DEF RowsOf, rows
  <2>. QED
    BY <1>1, <2>1, <2>2, <2>3
<1>. QED
  BY <1>2, <1>3, <1>4 DEF Commit

LEMMA WritesKeepTable ==
  ASSUME TypeOK, Writing
  PROVE  TableOK'
<1>. USE DEF TableOK
<1>1. inserted \in Nat /\ Ordered /\ entries \subseteq Row \cup Stamp
  BY ListingBounds DEF TypeOK
<1>2. ASSUME NEW s \in stamps, Commit(s)
      PROVE  TableOK'
  <2>1. PICK r \in Row :
           /\ TakesPlace(r, s) /\ table' = table /\ r.file = s.file /\ s.file \in Files
           /\ \/ /\ r = NewRow(s.file) /\ r \notin rows /\ table \in {"file_records", "dead_queue"}
                 /\ inserted < MaxRows /\ inserted' = inserted + 1
                 /\ table = "file_records" =>
                      /\ \A q \in rows : q.file # s.file
                      /\ status' = [status EXCEPT ![s.file] = "PENDING"]
                 /\ table = "dead_queue" => status' = status
              \/ /\ r \in rows /\ table = "file_records"
                 /\ inserted' = inserted
                 /\ \E to \in Statuses : status' = [status EXCEPT ![s.file] = to]
    BY <1>2, CommitsPlace
  <2>2. /\ rows' = rows \cup {r} /\ stamps' = stamps \ {s} /\ Ordered'
        /\ entries' \subseteq Row \cup Stamp
    BY <2>1, RowTakesPlace
  <2>3. status' \in [Files -> Statuses]
    BY <2>1 DEF TypeOK, Statuses
  <2>4. \A t, u \in stamps' : t.by = u.by => t = u
    BY <2>2 DEF TypeOK
  <2>5. CASE r \notin rows
    <3>1. /\ \A q \in rows' : q.id <= inserted'
          /\ \A q, e \in rows' : q.id = e.id => q = e
      BY <2>1, <2>2, <2>5, InsertedIds
    <3>2. table' = "file_records" => \A q, e \in rows' : q.file = e.file => q = e
      BY <2>1, <2>2, <2>5 DEF TypeOK
    <3>3. inserted' \in 0 .. MaxRows
      BY <2>1, <2>5, NewRowIsNew
    <3>. QED
      BY <2>1, <2>2, <2>3, <2>4, <3>1, <3>2, <3>3 DEF TypeOK
  <2>6. CASE r \in rows
    BY <2>1, <2>2, <2>3, <2>4, <2>6 DEF TypeOK
  <2>. QED
    BY <2>5, <2>6
<1>3. ASSUME NEW f \in Files, RemoveFromDeadQueue(f)
      PROVE  TableOK'
  <2>1. /\ Deletes(RowsOf(f)) /\ table' = table /\ table = "dead_queue"
        /\ status' = status /\ inserted' = inserted
    BY <1>3 DEF RemoveFromDeadQueue, Writes
  <2>2. entries' = entries \ RowsOf(f) /\ Ordered'
    BY <1>1, <2>1, DeletesOrders
  <2>3. rows' \subseteq rows /\ stamps' \subseteq stamps
    BY <2>2 DEF rows, stamps
  <2>. QED
    BY <1>1, <2>1, <2>2, <2>3 DEF TypeOK
<1>4. ASSUME NEW f \in Files, AddDocuments(f)
      PROVE  TableOK'
  <2>1. /\ ToEnd(NewRow(f)) /\ table' = table /\ table = "documents" /\ status' = status
        /\ inserted < MaxRows /\ inserted' = inserted + 1
    BY <1>4 DEF AddDocuments, Writes
  <2>2. NewRow(f) \in Row /\ NewRow(f) \notin entries /\ inserted' \in 0 .. MaxRows
    BY <2>1, NewRowIsNew
  <2>3. entries' = entries \cup {NewRow(f)} /\ Ordered'
    BY <1>1, <2>1, <2>2, ToEndOrders
  <2>4. rows' = rows \cup {NewRow(f)} /\ stamps' = stamps
    BY <2>2, <2>3, RowsAreNoStamps DEF rows, stamps
  <2>. QED
    BY <1>1, <2>1, <2>2, <2>3, <2>4, InsertedIds DEF TypeOK
<1>. QED
  BY <1>2, <1>3, <1>4 DEF Writing

\* A time that is taken or given up moves no row.
LEMMA TimingKeepsTable ==
  ASSUME TypeOK, Timing
  PROVE  /\ TableOK' /\ rows' = rows
         /\ \A r \in rows : ahead'[r] \cap Row = ahead[r] \cap Row
         /\ UNCHANGED <<table, status, inserted, writes, request, paging, history>>
<1>. USE DEF TableOK
<1>1. Ordered /\ entries \subseteq Row \cup Stamp
  BY DEF TypeOK
<1>2. ASSUME NEW w \in Writers, NEW f \in Files, MakesRow(w, f) \/ FindsRecord(w, f)
      PROVE  /\ TableOK' /\ rows' = rows
             /\ \A r \in rows : ahead'[r] \cap Row = ahead[r] \cap Row
             /\ UNCHANGED <<table, status, inserted, writes, request, paging, history>>
  <2>1. PICK op \in {"insert", "update"} : TakesTime(w, op, f)
    BY <1>2 DEF MakesRow, FindsRecord
  <2>. DEFINE t == [by |-> w, op |-> op, file |-> f]
  <2>2. /\ ToFront(t) /\ t \in Stamp /\ t.by = w /\ \A s \in stamps : s.by # w
        /\ UNCHANGED <<table, status, inserted, writes, request, paging, history>>
    BY <2>1 DEF TakesTime, Stamp
  <2>. HIDE DEF t
  <2>3. t \notin Row
    BY <2>2, RowsAreNoStamps
  <2>4. entries' = entries \cup {t} /\ Ordered'
    BY <1>1, <2>2, ToFrontOrders
  <2>5. rows' = rows /\ stamps' = stamps \cup {t} /\ entries' \subseteq Row \cup Stamp
    BY <1>1, <2>2, <2>3, <2>4 DEF rows, stamps
  <2>6. \A r \in rows : ahead'[r] = ahead[r] \cup {t}
    BY <2>2, <2>3 DEF ToFront, rows
  <2>7. TableOK'
    BY <2>2, <2>4, <2>5 DEF TypeOK
  <2>. QED
    BY <2>2, <2>3, <2>5, <2>6, <2>7
<1>3. ASSUME NEW s \in stamps, Rollback(s)
      PROVE  /\ TableOK' /\ rows' = rows
             /\ \A r \in rows : ahead'[r] \cap Row = ahead[r] \cap Row
             /\ UNCHANGED <<table, status, inserted, writes, request, paging, history>>
  <2>1. /\ Deletes({s}) /\ s \notin Row
        /\ UNCHANGED <<table, status, inserted, writes, request, paging, history>>
    BY <1>3, RowsAreNoStamps DEF Rollback, stamps
  <2>2. entries' = entries \ {s} /\ Ordered'
    BY <1>1, <2>1, DeletesOrders
  <2>3. rows' = rows /\ stamps' \subseteq stamps /\ entries' \subseteq Row \cup Stamp
    BY <1>1, <2>1, <2>2 DEF rows, stamps
  <2>4. \A r \in rows : ahead'[r] = ahead[r] \ {s}
    BY <2>1 DEF Deletes, rows
  <2>5. TableOK'
    BY <2>1, <2>2, <2>3 DEF TypeOK
  <2>. QED
    BY <2>1, <2>3, <2>4, <2>5
<1>. QED
  BY <1>2, <1>3 DEF Timing

------------------------------------------------------------------------------
(* The inductive invariant: a ledger of the listing that is under way.     *)

\* The rows that were listed at the start and that nothing has written to, and
\* how far down the order the client's pages have come.
Stayers == before \ touched
Reached == IF pc \in {"next", "done"} THEN offset + limit ELSE offset

\* The stayers that the pages have gone past without showing them, and the rows
\* already shown that the pages still have in front of them.
EarlyUnseen == {r \in Stayers \ seen : Place(r) < Reached}
LateSeen == {r \in seen \cap Listing : Place(r) >= Reached}

\* What the request of the client says of where it stands.
ClientOK ==
  /\ pc = "idle" =>
       /\ limit = 0 /\ offset = 0 /\ total = 0 /\ seen = {} /\ shown = 0 /\ writes = 0
       /\ before = {} /\ touched = {} /\ left = 0 /\ moved = 0 /\ endpoint = "none"
  /\ pc # "idle" => limit \in Nat \ {0} /\ endpoint # "none"
  /\ endpoint \in {"chroma_list", "chroma_stats"} => table = "documents"
  /\ endpoint = "chroma_stats" => pc # "next" /\ offset = 0 /\ limit = StatsLimit
  /\ pc \in {"count", "page"} /\ offset = 0 => seen = {} /\ shown = 0
  /\ table = "documents" => touched = {} /\ seen \subseteq rows

\* A stayer is passed over only when a row ahead of it has left or was put back.
MissedOK ==
  /\ pc # "idle" => Stayers \subseteq Listing
  /\ pc \in {"count", "page", "next"} => Cardinality(EarlyUnseen) <= left
  /\ pc = "done" /\ endpoint # "chroma_stats" => Cardinality(Stayers \ seen) <= left

\* A row is shown again, or stands to be, only when one was put ahead of it.
RepeatedOK == pc # "idle" => shown - Cardinality(seen) + Cardinality(LateSeen) <= moved

\* The pages of chroma_list are a prefix of the collection.
CollectionOK ==
  endpoint = "chroma_list" =>
    /\ seen = First(shown) /\ Cardinality(seen) = shown
    /\ pc \in {"count", "page", "next"} => shown = Reached
    /\ pc = "page" => total <= Cardinality(Listing)
    /\ pc = "done" => shown >= total

StatsOK ==
  pc = "done" /\ endpoint = "chroma_stats" /\ Cardinality(rows) <= StatsLimit =>
    before \subseteq seen

IInv == TypeOK /\ ClientOK /\ MissedOK /\ RepeatedOK /\ CollectionOK /\ StatsOK

------------------------------------------------------------------------------
(* What the writes do to the listing.                                      *)

\* A write gives the row of front another place, behind where it was if it is in
\* sunk, and leaves the order of the others, of which some leave the listing; the
\* collection only gets longer.
Shifts(front, sunk) ==
  /\ front \subseteq Row /\ IsFiniteSet(front) /\ Cardinality(front) \in 0 .. 1
  /\ sunk \subseteq front
  /\ \A r \in Listing' \ front : r \in seen => r \in Listing
  /\ \A r \in (Listing \cap Listing') \ front :
       /\ Ahead(r) \cap Listing' \subseteq Ahead(r)' \cup sunk
       /\ Ahead(r)' \subseteq Ahead(r) \cup front
  /\ table = "documents" =>
       /\ front = {} /\ rows \subseteq rows' /\ Listing \subseteq Listing'
       /\ \A r \in Listing : Ahead(r)' = Ahead(r)
       /\ \A r \in Listing' \ Listing : Ahead(r)' = Listing

\* The listing after a commit, but for the row that it writes.
LEMMA CommitShifts ==
  ASSUME TypeOK, ClientOK, pc # "idle", NEW s \in stamps, Commit(s)
  PROVE  \E front, sunk : Shifts(front, sunk) /\ Writes(table, front, sunk)
<1>1. PICK r \in Row :
        /\ TakesPlace(r, s) /\ table' = table /\ r.file = s.file /\ s.file \in Files
        /\ \/ /\ r = NewRow(s.file) /\ r \notin rows /\ table \in {"file_records", "dead_queue"}
              /\ inserted < MaxRows /\ inserted' = inserted + 1
              /\ Writes(table, {r}, {})
              /\ table = "file_records" =>
                   /\ \A q \in rows : q.file # s.file
                   /\ status' = [status EXCEPT ![s.file] = "PENDING"]
              /\ table = "dead_queue" => status' = status
           \/ /\ r \in rows /\ table = "file_records"
              /\ inserted' = inserted
              /\ Writes(table, {r}, {r} \cap ahead[s])
              /\ \E to \in Statuses : status' = [status EXCEPT ![s.file] = to]
  BY CommitsPlace
<1>2. /\ rows' = rows \cup {r}
      /\ \A q \in rows \ {r} : /\ (ahead'[q] \cap Row) \ {r} = (ahead[q] \cap Row) \ {r}
                               /\ r \in ahead'[q] <=> s \in ahead[q]
  BY <1>1, RowTakesPlace
<1>3. /\ Ordered /\ status \in [Files -> Statuses]
      /\ table = "file_records" => \A q, e \in rows : q.file = e.file => q = e
      /\ \A q \in rows : q \in Row /\ q \in entries /\ q.file \in Files
  BY DEF TypeOK, rows, Row
<1>4. filter' = filter /\ table' = table /\ table # "documents"
  BY <1>1 DEF Writes, request
<1>5. Listing' \ {r} = Listing \ {r}
  <2>1. CASE table = "file_records"
    <3>1. \A q \in rows \ {r} : q.file # s.file
      BY <1>1, <1>3, <2>1
    <3>2. \A q \in rows \ {r} : status'[q.file] = status[q.file]
      BY <1>1, <1>3, <2>1, <3>1
    <3>. QED
      BY <1>2, <1>4, <3>2 DEF Listing
  <2>2. CASE table # "file_records"
    BY <1>2, <1>4, <2>2 DEF Listing
  <2>. QED
    BY <2>1, <2>2
<1>6. \A q \in Listing \cup Listing' : q \in Row
  BY <1>2, <1>3 DEF Listing
<1>. DEFINE sunk == {r} \cap ahead[s] \cap rows
<1>7. Writes(table, {r}, sunk)
  <2>1. CASE r \in rows
    <3>1. sunk = {r} \cap ahead[s]
      BY <2>1
    <3>. QED
      BY <1>1, <2>1, <3>1
  <2>2. CASE r \notin rows
    <3>1. sunk = {}
      BY <2>2
    <3>. QED
      BY <1>1, <2>2, <3>1
  <2>. QED
    BY <2>1, <2>2
<1>8. ASSUME NEW q \in (Listing \cap Listing') \ {r}
      PROVE  /\ Ahead(q) \cap Listing' \subseteq Ahead(q)' \cup sunk
             /\ Ahead(q)' \subseteq Ahead(q) \cup {r}
  <2>1. q \in rows \ {r} /\ q \in entries
    BY <1>3 DEF Listing
  <2>2. (ahead'[q] \cap Row) \ {r} = (ahead[q] \cap Row) \ {r}
    BY <1>2, <2>1
  <2>3. Ahead(q)' \ {r} = Ahead(q) \ {r}
    BY <1>5, <1>6, <2>2 DEF Ahead
  <2>4. ASSUME r \in Ahead(q), r \in Listing', r \notin sunk
        PROVE  r \in Ahead(q)'
    <3>1. r \in rows /\ r \in ahead[q] /\ r \in entries /\ r \notin ahead[s]
      BY <1>3, <2>4 DEF Ahead, Listing
    <3>2. s \in entries /\ s # r
      BY RowsAreNoStamps DEF stamps
    <3>3. s \in ahead[r]
      BY <1>3, <3>1, <3>2 DEF Ordered
    <3>4. s \in ahead[q]
      BY <1>3, <2>1, <3>1, <3>3 DEF Ordered
    <3>. QED
      BY <1>2, <2>1, <2>4, <3>4 DEF Ahead
  <2>. QED
    BY <2>3, <2>4
<1>9. IsFiniteSet({r}) /\ Cardinality({r}) = 1
  BY FS_Singleton
<1>10. Shifts({r}, sunk)
  <2>1. \A q \in Listing' \ {r} : q \in Listing
    BY <1>5
  <2>. HIDE DEF sunk
  <2>2. sunk \subseteq {r}
    BY DEF sunk
  <2>. QED
    BY <1>4, <1>8, <1>9, <2>1, <2>2 DEF Shifts
<1>. QED
  BY <1>7, <1>10

LEMMA WriteShifts ==
  ASSUME TypeOK, ClientOK, pc # "idle", Writing
  PROVE  \E front, sunk : Shifts(front, sunk) /\ Writes(table, front, sunk)
<1>. USE DEF Shifts
<1>1. Ordered /\ \A q \in rows : q \in Row /\ q \in entries
  BY DEF TypeOK, rows
<1>2. ASSUME NEW f \in Files, RemoveFromDeadQueue(f)
      PROVE  Shifts({}, {}) /\ Writes(table, {}, {})
  <2>1. /\ Deletes(RowsOf(f)) /\ table = "dead_queue" /\ table' = table
        /\ Writes(table, {}, {})
    BY <1>2 DEF RemoveFromDeadQueue, Writes
  <2>2. entries' = entries \ RowsOf(f)
    BY <1>1, <2>1, DeletesOrders
  <2>3. Listing = rows /\ Listing' = rows' /\ rows' = rows \ RowsOf(f)
    BY <2>1, <2>2 DEF Listing, rows
  <2>4. \A q \in rows' : ahead'[q] = ahead[q] \ RowsOf(f)
    BY <1>1, <2>1, <2>3 DEF Deletes
  <2>5. Shifts({}, {})
    BY <2>1, <2>3, <2>4, FS_EmptySet DEF Ahead
  <2>. QED
    BY <2>1, <2>5
<1>3. ASSUME NEW f \in Files, AddDocuments(f)
      PROVE  Shifts({}, {}) /\ Writes(table, {}, {})
  <2>. DEFINE new == NewRow(f)
  <2>1. /\ ToEnd(new) /\ table = "documents" /\ table' = table
        /\ Writes(table, {}, {}) /\ new \notin entries /\ new \in Row /\ new \notin rows
    BY <1>3, NewRowIsNew DEF AddDocuments, Writes
  <2>. HIDE DEF new
  <2>2. entries' = entries \cup {new}
    BY <1>1, <2>1, ToEndOrders
  <2>3. Listing = rows /\ Listing' = rows' /\ rows' = rows \cup {new}
    BY <2>1, <2>2 DEF Listing, rows
  <2>4. ahead'[new] = entries /\ \A q \in rows : ahead'[q] = ahead[q]
    <3>1. \A q \in rows : ahead[q] \subseteq entries
      BY <1>1 DEF Ordered
    <3>. QED
      BY <1>1, <2>1, <3>1 DEF ToEnd
  <2>5. entries \cap rows' = rows /\ \A q \in rows : new \notin ahead[q]
    BY <1>1, <2>1, <2>3 DEF Ordered
  <2>6. seen \subseteq rows
    BY <2>1 DEF ClientOK
  <2>7. \A q \in rows : Ahead(q)' = Ahead(q)
    BY <2>3, <2>4, <2>5 DEF Ahead
  <2>8. \A q \in rows' \ rows : Ahead(q)' = rows
    BY <2>3, <2>4, <2>5 DEF Ahead
  <2>9. Shifts({}, {})
    BY <2>1, <2>3, <2>6, <2>7, <2>8, FS_EmptySet
  <2>. QED
    BY <2>1, <2>9
<1>. QED
  BY <1>2, <1>3, CommitShifts DEF Writing

------------------------------------------------------------------------------
(* The steps keep the invariant.                                           *)

LEMMA RowSetsFinite ==
  TypeOK => \A S \in SUBSET Row : IsFiniteSet(S) /\ Cardinality(S) \in Nat
BY RowFinite, FS_Subset, FS_CardinalityType

\* The client's part of TypeOK.
ViewOK ==
  /\ writes \in 0 .. MaxWrites
  /\ pc \in {"idle", "count", "page", "next", "done"}
  /\ endpoint \in {"none", "list_files", "dead_queue", "chroma_list", "chroma_stats"}
  /\ limit \in Limits \cup {0, StatsLimit} /\ offset \in Nat /\ total \in 0 .. MaxRows
  /\ filter \subseteq Statuses /\ seen \subseteq Row /\ shown \in Nat
  /\ before \subseteq Row /\ touched \subseteq Row /\ left \in Nat /\ moved \in Nat

LEMMA TypeParts == TypeOK <=> TableOK /\ ViewOK
BY DEF TypeOK, TableOK, ViewOK

LEMMA TypePartsNext == TypeOK' <=> TableOK' /\ ViewOK'
BY TypeParts, PTL

\* The places of the rows, in the state after a step too.
PlacesOK ==
  /\ IsFiniteSet(Listing) /\ Cardinality(Listing) \in Nat
  /\ \A r \in Listing : Place(r) \in 0 .. Cardinality(Listing) - 1 /\ IsFiniteSet(Ahead(r))
  /\ \A r, q \in Listing : q \in Ahead(r) => Place(q) < Place(r)

LEMMA TypePlaces == TypeOK => PlacesOK
<1>. SUFFICES ASSUME TypeOK
              PROVE  PlacesOK
  OBVIOUS
<1>1. IsFiniteSet(Listing) /\ Cardinality(Listing) \in Nat
  BY RowCount, FS_CardinalityType
<1>2. \A r \in Listing : IsFiniteSet(Ahead(r))
  BY <1>1, FS_Intersection DEF Ahead
<1>. QED
  BY <1>1, <1>2, ListingPlaces DEF PlacesOK

LEMMA NextPlaces == TypeOK' => PlacesOK'
BY TypePlaces, PTL

LEMMA WritesLeaveClient ==
  ASSUME Writing
  PROVE  /\ UNCHANGED <<table, pc, endpoint, limit, offset, total, filter, seen, shown, before>>
         /\ pc # "done"
         /\ pc = "idle" => UNCHANGED <<writes, touched, left, moved>>
<1>1. \E t, front, sunk : Writes(t, front, sunk)
  BY DEF Writing, Commit, RegisterFile, UpdateFileStatus, WriteDeadQueue,
         RemoveFromDeadQueue, AddDocuments
<1>. QED
  BY <1>1 DEF Writes, request, paging, history

\* A write leaves the view of the client in its bounds.
LEMMA WritesKeepType ==
  ASSUME TypeOK, ClientOK, Writing
  PROVE  TypeOK'
<1>1. TableOK'
  BY WritesKeepTable
<1>2. /\ UNCHANGED <<pc, endpoint, limit, offset, total, filter, seen, shown, before>>
      /\ pc = "idle" => UNCHANGED <<writes, touched, left, moved>>
  BY WritesLeaveClient
<1>3. CASE pc = "idle"
  BY <1>1, <1>2, <1>3, TypePartsNext DEF TypeOK, ViewOK
<1>4. CASE pc # "idle"
  <2>1. PICK front, sunk : Shifts(front, sunk) /\ Writes(table, front, sunk)
    BY <1>4, WriteShifts
  <2>. DEFINE gone == (Listing \ Listing') \cup (Listing \cap sunk)
  <2>2. /\ writes < MaxWrites /\ writes' = writes + 1
        /\ left' = left + Cardinality(gone) /\ moved' = moved + Cardinality(front)
        /\ touched' = touched \cup front \cup gone
    BY <1>4, <2>1 DEF Writes
  <2>3. gone \subseteq Row /\ front \subseteq Row /\ Cardinality(front) \in Nat
    BY <2>1 DEF Shifts, Listing, rows
  <2>4. Cardinality(gone) \in Nat
    BY <2>3, RowSetsFinite
  <2>. HIDE DEF gone
  <2>5. writes' \in 0 .. MaxWrites /\ left' \in Nat /\ moved' \in Nat /\ touched' \subseteq Row
    BY <2>2, <2>3, <2>4, ListingBounds DEF TypeOK
  <2>. QED
    BY <1>1, <1>2, <2>5, TypePartsNext DEF TypeOK, ViewOK
<1>. QED
  BY <1>3, <1>4

\* A write makes the rows of front and of gone touched, in the count of moved and left.
LEMMA WritesKeepInvariant ==
  ASSUME IInv, Writing
  PROVE  IInv'
<1>. USE DEF IInv
<1>1. TypeOK' /\ PlacesOK' /\ PlacesOK
  BY WritesKeepType, TypePlaces, NextPlaces
<1>2. /\ UNCHANGED <<table, pc, endpoint, limit, offset, total, filter, seen, shown, before>>
      /\ pc # "done"
      /\ pc = "idle" => UNCHANGED <<writes, touched, left, moved>>
  BY WritesLeaveClient
<1>3. CASE pc = "idle"
  <2>1. ClientOK'
    BY <1>2, <1>3 DEF ClientOK
  <2>2. endpoint' = "none"
    BY <1>2, <1>3 DEF ClientOK
  <2>. QED
    BY <1>1, <1>2, <1>3, <2>1, <2>2 DEF MissedOK, RepeatedOK, CollectionOK, StatsOK
<1>4. CASE pc # "idle"
  <2>1. PICK front, sunk : Shifts(front, sunk) /\ Writes(table, front, sunk)
    BY <1>4, WriteShifts
  <2>. DEFINE gone == (Listing \ Listing') \cup (Listing \cap sunk)
              l == Cardinality(gone)
              m == Cardinality(front)
  <2>2. left' = left + l /\ moved' = moved + m /\ touched' = touched \cup front \cup gone
    BY <1>4, <2>1 DEF Writes
  <2>3. IsFiniteSet(gone) /\ l \in Nat /\ m \in 0 .. 1 /\ IsFiniteSet(front)
    BY <2>1, RowSetsFinite DEF Shifts, Listing, rows
  <2>4. Reached' = Reached /\ Reached \in Nat
    BY <1>2, <1>4 DEF Reached, TypeOK, ClientOK
  <2>. HIDE DEF gone, l, m
  <2>5. ClientOK'
    <3>1. table = "documents" => touched' = {} /\ seen' \subseteq rows'
      <4>1. table = "documents" => front = {} /\ sunk = {} /\ Listing \subseteq Listing'
                                   /\ rows \subseteq rows'
        BY <2>1 DEF Shifts
      <4>. QED
        BY <1>2, <2>2, <4>1 DEF ClientOK, gone
    <3>. QED
      BY <1>2, <1>4, <3>1 DEF ClientOK
  <2>6. MissedOK'
    <3>1. Stayers' = Stayers \ (front \cup gone) /\ Stayers \subseteq Listing
      BY <1>2, <1>4, <2>2 DEF Stayers, MissedOK
    <3>2. Stayers' \subseteq Listing'
      BY <3>1 DEF gone
    <3>3. ASSUME NEW r \in EarlyUnseen'
          PROVE  r \in EarlyUnseen \cup Between(Reached, l)
      <4>1. /\ r \in Stayers' /\ r \in Stayers /\ r \notin seen /\ r \in (Listing \cap Listing') \ front
            /\ Cardinality(Ahead(r)') < Reached
        BY <1>2, <2>4, <3>1, <3>2, <3>3 DEF EarlyUnseen, Place
      <4>2. Ahead(r) \subseteq Ahead(r)' \cup gone
        BY <2>1, <4>1 DEF Shifts, Ahead, gone
      <4>3. IsFiniteSet(Ahead(r)') /\ Cardinality(Ahead(r)') \in Nat
        BY <1>1, <4>1, FS_CardinalityType DEF PlacesOK
      <4>4. Cardinality(Ahead(r)) <= Cardinality(Ahead(r)') + l
        BY <2>3, <4>2, <4>3, UnionBound DEF l
      <4>5. Place(r) < Reached + l /\ Place(r) \in Nat
        BY <1>1, <2>3, <2>4, <4>1, <4>3, <4>4 DEF PlacesOK, Place
      <4>. QED
        <5>1. CASE Place(r) < Reached
          BY <4>1, <5>1 DEF EarlyUnseen
        <5>2. CASE Place(r) >= Reached
          BY <4>1, <4>5, <5>2 DEF Between
        <5>. QED
          BY <2>4, <4>5, <5>1, <5>2
    <3>4. /\ IsFiniteSet(Between(Reached, l)) /\ Cardinality(Between(Reached, l)) \in 0 .. l
          /\ IsFiniteSet(EarlyUnseen)
      <4>1. EarlyUnseen \subseteq Row
        BY DEF EarlyUnseen, Stayers, TypeOK
      <4>. QED
        BY <2>3, <2>4, <4>1, ListingPlaces, RowSetsFinite
    <3>5. Cardinality(EarlyUnseen') \in Nat /\ Cardinality(EarlyUnseen') <= Cardinality(EarlyUnseen) + l
      <4>1. EarlyUnseen' \subseteq EarlyUnseen \cup Between(Reached, l)
        BY <3>3
      <4>2. /\ Cardinality(EarlyUnseen') \in Nat
            /\ Cardinality(EarlyUnseen') <= Cardinality(EarlyUnseen) + Cardinality(Between(Reached, l))
        BY <3>4, <4>1, UnionBound
      <4>3. Cardinality(EarlyUnseen) \in Nat
        BY <3>4, FS_CardinalityType
      <4>. QED
        BY <2>3, <3>4, <4>2, <4>3
    <3>6. ASSUME pc \in {"count", "page", "next"}
          PROVE  Cardinality(EarlyUnseen') <= left'
      <4>1. Cardinality(EarlyUnseen) <= left /\ Cardinality(EarlyUnseen) \in Nat
        BY <3>4, <3>6, FS_CardinalityType DEF MissedOK
      <4>2. left \in Nat /\ left' \in Nat
        BY <1>1 DEF TypeOK
      <4>. QED
        BY <2>2, <2>3, <3>5, <4>1, <4>2
    <3>. QED
      BY <1>2, <3>2, <3>6 DEF MissedOK
  <2>7. RepeatedOK'
    <3>1. CASE seen = {}
      <4>1. LateSeen' = {} /\ LateSeen = {} /\ Cardinality({}) = 0
        BY <1>2, <3>1, FS_EmptySet DEF LateSeen
      <4>. QED
        BY <1>1, <1>2, <1>4, <2>2, <2>3, <3>1, <4>1 DEF RepeatedOK, TypeOK
    <3>2. CASE seen # {}
      <4>1. Reached > 0
        BY <1>2, <1>4, <3>2 DEF Reached, ClientOK, TypeOK
      <4>2. ASSUME NEW r \in LateSeen', r \notin front
            PROVE  /\ r \in Listing /\ r \in Listing' /\ r \in seen
                   /\ Ahead(r)' \subseteq Ahead(r) \cup front
                   /\ Place(r) \in Nat /\ Cardinality(Ahead(r)') \in Nat
                   /\ Cardinality(Ahead(r)') >= Reached
                   /\ Cardinality(Ahead(r)') <= Place(r) + m
        <5>1. r \in seen /\ r \in Listing' /\ Cardinality(Ahead(r)') >= Reached
          BY <1>2, <2>4, <4>2 DEF LateSeen, Place
        <5>2. r \in Listing /\ Ahead(r)' \subseteq Ahead(r) \cup front
          BY <2>1, <4>2, <5>1 DEF Shifts
        <5>3. IsFiniteSet(Ahead(r)) /\ Cardinality(Ahead(r)) \in Nat
          BY <1>1, <5>2, FS_CardinalityType DEF PlacesOK
        <5>4. /\ Cardinality(Ahead(r)') <= Cardinality(Ahead(r)) + m
              /\ Cardinality(Ahead(r)') \in Nat
          BY <2>3, <5>2, <5>3, UnionBound DEF m
        <5>. QED
          BY <5>1, <5>2, <5>3, <5>4 DEF Place
      <4>3. IsFiniteSet(LateSeen) /\ Cardinality(LateSeen) \in Nat
        <5>1. LateSeen \subseteq Row
          BY DEF LateSeen, TypeOK
        <5>. QED
          BY <5>1, RowSetsFinite
      <4>4. \E more : IsFiniteSet(more) /\ Cardinality(more) \in 0 .. m
                      /\ LateSeen' \subseteq LateSeen \cup more
        <5>1. ASSUME NEW r \in LateSeen' \cap front
              PROVE  LateSeen' \subseteq LateSeen \cup front
          <6>1. r \in Listing' /\ Cardinality(Ahead(r)') >= Reached /\ front = {r}
            <7>1. {r} \in SUBSET front /\ IsFiniteSet({r}) /\ Cardinality({r}) = 1
              BY <5>1, FS_Singleton
            <7>2. Cardinality({r}) <= m /\ (m = 1 => front = {r})
              BY <2>3, <7>1, FS_Subset DEF m
            <7>3. front = {r}
              BY <2>3, <7>1, <7>2
            <7>. QED
              BY <1>2, <2>4, <5>1, <7>3 DEF LateSeen, Place
          <6>2. ASSUME NEW q \in LateSeen', q # r, q \notin LateSeen
                PROVE  FALSE
            <7>1. /\ q \in Listing /\ q \in Listing' /\ q \in seen
                  /\ Ahead(q)' \subseteq Ahead(q) \cup {r}
                  /\ Place(q) \in Nat /\ Cardinality(Ahead(q)') \in Nat
                  /\ Cardinality(Ahead(q)') >= Reached
                  /\ Cardinality(Ahead(q)') <= Place(q) + m
              BY <4>2, <6>1, <6>2
            <7>2. Place(q) < Reached
              BY <2>4, <6>2, <7>1 DEF LateSeen
            <7>3. r \in Ahead(q)'
              <8>1. SUFFICES ASSUME r \notin Ahead(q)'
                             PROVE  FALSE
                OBVIOUS
              <8>2. Ahead(q)' \subseteq Ahead(q) /\ IsFiniteSet(Ahead(q))
                BY <1>1, <7>1, <8>1 DEF PlacesOK
              <8>3. Cardinality(Ahead(q)') <= Place(q)
                BY <8>2, FS_Subset DEF Place
              <8>. QED
                BY <2>4, <7>1, <7>2, <8>3
            <7>4. /\ Cardinality(Ahead(r)') < Cardinality(Ahead(q)')
                  /\ Cardinality(Ahead(r)') \in Nat
              BY <1>1, <6>1, <7>1, <7>3, FS_CardinalityType DEF PlacesOK, Place
            <7>. QED
              BY <2>3, <2>4, <6>1, <7>1, <7>2, <7>4
          <6>. QED
            BY <6>1, <6>2
        <5>2. CASE LateSeen' \cap front = {}
          <6>1. Reached - m \in Nat /\ m \in Nat /\ (Reached - m) + m = Reached
            BY <2>3, <2>4, <4>1
          <6>2. /\ IsFiniteSet(Between(Reached - m, m))
                /\ Cardinality(Between(Reached - m, m)) \in 0 .. m
            BY <6>1, ListingPlaces
          <6>3. ASSUME NEW r \in LateSeen', r \notin LateSeen
                PROVE  r \in Between(Reached - m, m)
            <7>1. /\ r \in Listing /\ r \in seen /\ Place(r) \in Nat
                  /\ Cardinality(Ahead(r)') \in Nat /\ Cardinality(Ahead(r)') >= Reached
                  /\ Cardinality(Ahead(r)') <= Place(r) + m
              BY <4>2, <5>2, <6>3
            <7>2. Place(r) < Reached
              BY <2>4, <6>3, <7>1 DEF LateSeen
            <7>. QED
              BY <2>4, <6>1, <7>1, <7>2 DEF Between
          <6>. QED
            BY <6>2, <6>3
        <5>. QED
          BY <2>3, <5>1, <5>2 DEF m
      <4>5. PICK more : /\ IsFiniteSet(more) /\ Cardinality(more) \in 0 .. m
                        /\ LateSeen' \subseteq LateSeen \cup more
        BY <4>4
      <4>7. /\ Cardinality(LateSeen') \in Nat
            /\ Cardinality(LateSeen') <= Cardinality(LateSeen) + Cardinality(more)
        BY <4>3, <4>5, UnionBound
      <4>8. Cardinality(LateSeen') <= Cardinality(LateSeen) + m
        BY <2>3, <4>3, <4>5, <4>7
      <4>9. shown \in Nat /\ Cardinality(seen) \in Nat /\ moved \in Nat
        BY RowSetsFinite DEF TypeOK
      <4>10. shown - Cardinality(seen) + Cardinality(LateSeen) <= moved
        BY <1>4 DEF RepeatedOK
      <4>11. shown - Cardinality(seen) + Cardinality(LateSeen') <= moved + m
        BY <2>3, <4>3, <4>7, <4>8, <4>9, <4>10
      <4>. QED
        BY <1>2, <2>2, <4>11 DEF RepeatedOK, m
    <3>. QED
      BY <3>1, <3>2
  <2>8. CollectionOK'
    <3>. SUFFICES ASSUME endpoint = "chroma_list"
                  PROVE  CollectionOK'
      BY <1>2 DEF CollectionOK
    <3>1. table = "documents" /\ seen = First(shown) /\ Cardinality(seen) = shown
      BY DEF ClientOK, CollectionOK
    <3>2. /\ Listing \subseteq Listing'
          /\ \A r \in Listing : Ahead(r)' = Ahead(r)
          /\ \A r \in Listing' \ Listing : Ahead(r)' = Listing
      BY <2>1, <3>1 DEF Shifts
    <3>3. shown <= Cardinality(Listing) /\ Cardinality(Listing) <= Cardinality(Listing')
      <4>1. seen \subseteq Listing
        BY <3>1 DEF First
      <4>. QED
        BY <1>1, <3>1, <3>2, <4>1, FS_Subset DEF PlacesOK
    <3>4. shown \in Nat /\ Cardinality(Listing) \in Nat /\ Cardinality(Listing') \in Nat
      BY <1>1 DEF PlacesOK, TypeOK
    <3>5. ASSUME NEW r \in Listing'
          PROVE  Cardinality(Ahead(r)') < shown <=> r \in Listing /\ Cardinality(Ahead(r)) < shown
      <4>1. CASE r \in Listing
        BY <3>2, <4>1
      <4>2. CASE r \notin Listing
        BY <3>2, <3>3, <3>4, <4>2
      <4>. QED
        BY <4>1, <4>2
    <3>6. First(shown)' = First(shown)
      BY <1>2, <3>2, <3>5 DEF First, Place
    <3>7. pc = "page" => total <= Cardinality(Listing')
      BY <3>3, <3>4 DEF CollectionOK, TypeOK
    <3>. QED
      BY <1>2, <2>4, <3>1, <3>6, <3>7 DEF CollectionOK
  <2>9. StatsOK'
    BY <1>2 DEF StatsOK
  <2>. QED
    BY <1>1, <2>5, <2>6, <2>7, <2>8, <2>9
<1>. QED
  BY <1>3, <1>4

------------------------------------------------------------------------------
(* The steps of the client.                                                *)

Request == ListFiles \/ GetDeadQueue \/ GetChromaList \/ GetChromaStats

\* A step of the client leaves the table alone, and mostly what it lists.
LEMMA ListingStays ==
  ASSUME UNCHANGED <<table, ahead, status, filter>>
  PROVE  /\ Listing' = Listing /\ rows' = rows
         /\ \A r \in Listing : Ahead(r)' = Ahead(r)
         /\ \A n : First(n)' = First(n)
BY DEF Listing, Ahead, rows, entries, First, Place

LEMMA TableStays ==
  ASSUME TypeOK, UNCHANGED <<table, ahead, status, inserted>>
  PROVE  TableOK'
<1>1. entries' = entries /\ rows' = rows /\ stamps' = stamps
  BY DEF entries, rows, stamps
<1>2. Ordered'
  BY <1>1 DEF TypeOK, Ordered
<1>. QED
  BY <1>1, <1>2 DEF TypeOK, TableOK

LEMMA RequestKeepsInvariant ==
  ASSUME IInv, Request
  PROVE  IInv'
<1>. USE DEF IInv
<1>1. PICK t \in Tables, n \in Limits \cup {StatsLimit}, visible \in SUBSET Statuses :
        /\ Starts(t, endpoint', n, visible)
        /\ endpoint' \in {"list_files", "dead_queue", "chroma_list", "chroma_stats"}
        /\ endpoint' \in {"chroma_list", "chroma_stats"} => t = "documents"
        /\ endpoint' = "chroma_stats" => n = StatsLimit
  <2>1. CASE ListFiles
    <3>1. PICK n \in Limits, visible \in {Statuses} \cup {{s} : s \in Statuses} :
            Starts("file_records", "list_files", n, visible)
      BY <2>1 DEF ListFiles
    <3>2. visible \in SUBSET Statuses /\ endpoint' = "list_files"
      BY <3>1 DEF Starts
    <3>. QED
      BY <3>1, <3>2 DEF Tables
  <2>2. CASE GetDeadQueue
    BY <2>2 DEF GetDeadQueue, Starts, Tables
  <2>3. CASE GetChromaList
    BY <2>3 DEF GetChromaList, Starts, Tables
  <2>4. CASE GetChromaStats
    BY <2>4 DEF GetChromaStats, Starts, Tables
  <2>. QED
    BY <2>1, <2>2, <2>3, <2>4 DEF Request
<1>2. /\ pc = "idle" /\ pc' = "count" /\ limit' = n /\ filter' = visible /\ table' = t
      /\ table = t /\ before' = Listing'
      /\ UNCHANGED <<ahead, status, inserted, writes, offset, total, seen, shown,
                     touched, left, moved>>
  BY <1>1 DEF Starts, history
<1>3. /\ offset = 0 /\ total = 0 /\ seen = {} /\ shown = 0 /\ touched = {}
      /\ left = 0 /\ moved = 0
  BY <1>2 DEF ClientOK
<1>4. n \in Nat \ {0}
  BY LimitsAssumption
<1>5. TypeOK'
  <2>1. TableOK'
    BY <1>2, TableStays
  <2>2. Listing' \subseteq Row
    BY DEF Listing, rows
  <2>3. ViewOK'
    BY <1>1, <1>2, <2>2 DEF TypeOK, ViewOK
  <2>. QED
    BY <2>1, <2>3, TypePartsNext
<1>6. ClientOK'
  BY <1>1, <1>2, <1>3, <1>4 DEF ClientOK
<1>7. PlacesOK'
  BY <1>5, NextPlaces
<1>8. MissedOK'
  <2>1. Stayers' = Listing' /\ Reached' = 0
    BY <1>2, <1>3 DEF Stayers, Reached
  <2>2. \A r \in Listing' : ~(Cardinality(Ahead(r)') < 0)
    BY <1>7 DEF PlacesOK, Place
  <2>3. EarlyUnseen' = {}
    BY <2>1, <2>2 DEF EarlyUnseen, Place
  <2>. QED
    BY <1>2, <1>3, <2>1, <2>3, FS_EmptySet DEF MissedOK
<1>9. RepeatedOK'
  <2>1. LateSeen' = {} /\ seen' = {} /\ shown' = 0 /\ moved' = 0
    BY <1>2, <1>3 DEF LateSeen
  <2>. QED
    BY <2>1, FS_EmptySet DEF RepeatedOK
<1>10. CollectionOK'
  <2>1. \A r \in Listing' : ~(Cardinality(Ahead(r)') < 0)
    BY <1>7 DEF PlacesOK, Place
  <2>2. First(shown)' = {}
    BY <1>2, <1>3, <2>1 DEF First, Place
  <2>3. Reached' = 0
    BY <1>2, <1>3 DEF Reached
  <2>. QED
    BY <1>2, <1>3, <2>2, <2>3, FS_EmptySet DEF CollectionOK
<1>11. StatsOK'
  BY <1>2 DEF StatsOK
<1>. QED
  BY <1>5, <1>6, <1>8, <1>9, <1>10, <1>11

LEMMA CountKeepsInvariant ==
  ASSUME IInv, Count
  PROVE  IInv'
<1>. USE DEF IInv
<1>1. /\ pc = "count" /\ total' = Cardinality(Listing) /\ pc' \in {"page", "done"}
      /\ pc' = "done" => table = "documents" /\ Listing = {}
      /\ UNCHANGED <<table, ahead, status, inserted, writes, endpoint, limit, filter, before,
                     offset, seen, shown, touched, left, moved>>
  BY DEF Count, request, history
<1>2. /\ Listing' = Listing /\ rows' = rows
      /\ \A r \in Listing : Ahead(r)' = Ahead(r)
      /\ \A n : First(n)' = First(n)
  BY <1>1, ListingStays
<1>3. TypeOK'
  <2>1. TableOK'
    BY <1>1, TableStays
  <2>2. Cardinality(Listing) \in 0 .. MaxRows
    BY RowCount, ListingBounds DEF TypeOK
  <2>3. ViewOK'
    BY <1>1, <2>2 DEF TypeOK, ViewOK
  <2>. QED
    BY <2>1, <2>3, TypePartsNext
<1>4. ClientOK'
  BY <1>1, <1>2 DEF ClientOK
<1>5. Stayers' = Stayers /\ Stayers \subseteq Listing
  BY <1>1 DEF Stayers, MissedOK
<1>6. CASE pc' = "page"
  <2>1. Reached' = Reached
    BY <1>1, <1>6 DEF Reached
  <2>2. EarlyUnseen' = EarlyUnseen
    BY <1>1, <1>2, <1>5, <2>1 DEF EarlyUnseen, Place
  <2>3. LateSeen' = LateSeen
    BY <1>1, <1>2, <2>1 DEF LateSeen, Place
  <2>4. MissedOK' /\ RepeatedOK'
    BY <1>1, <1>2, <1>5, <1>6, <2>2, <2>3 DEF MissedOK, RepeatedOK
  <2>5. CollectionOK'
    <3>1. total' <= Cardinality(Listing')
      BY <1>1, <1>2, RowCount
    <3>. QED
      BY <1>1, <1>2, <1>6, <2>1, <3>1 DEF CollectionOK
  <2>. QED
    BY <1>3, <1>4, <1>6, <2>4, <2>5 DEF StatsOK
<1>7. CASE pc' = "done"
  <2>1. Listing = {} /\ Stayers = {} /\ EarlyUnseen = {} /\ LateSeen = {} /\ LateSeen' = {}
    BY <1>1, <1>2, <1>5, <1>7 DEF EarlyUnseen, LateSeen
  <2>2. Cardinality({}) = 0
    BY FS_EmptySet
  <2>3. MissedOK'
    <3>1. left \in Nat /\ Stayers' \ seen' = {}
      BY <1>5, <2>1 DEF TypeOK
    <3>. QED
      BY <1>1, <1>5, <1>7, <2>1, <2>2, <3>1 DEF MissedOK
  <2>4. RepeatedOK'
    BY <1>1, <2>1 DEF RepeatedOK
  <2>5. CollectionOK'
    <3>1. shown \in Nat /\ total' = 0
      BY <1>1, <2>1, <2>2 DEF TypeOK
    <3>. QED
      BY <1>1, <1>2, <1>7, <3>1 DEF CollectionOK
  <2>6. StatsOK'
    <3>1. touched = {}
      BY <1>1, <1>7 DEF ClientOK
    <3>. QED
      BY <1>1, <2>1, <3>1 DEF Stayers, StatsOK
  <2>. QED
    BY <1>3, <1>4, <2>3, <2>4, <2>5, <2>6
<1>. QED
  BY <1>1, <1>6, <1>7

LEMMA NextPageKeepsInvariant ==
  ASSUME IInv, NextPage
  PROVE  IInv'
<1>. USE DEF IInv
<1>1. /\ pc = "next" /\ pc' = "count" /\ offset' = offset + limit
      /\ UNCHANGED <<table, ahead, status, inserted, writes, endpoint, limit, filter, before,
                     total, seen, shown, touched, left, moved>>
  BY DEF NextPage, request, history
<1>2. /\ Listing' = Listing /\ rows' = rows
      /\ \A r \in Listing : Ahead(r)' = Ahead(r)
      /\ \A n : First(n)' = First(n)
  BY <1>1, ListingStays
<1>3. offset' \in Nat \ {0} /\ Reached' = Reached
  BY <1>1 DEF TypeOK, ClientOK, Reached
<1>4. TypeOK'
  <2>1. TableOK'
    BY <1>1, TableStays
  <2>2. ViewOK'
    BY <1>1, <1>3 DEF TypeOK, ViewOK
  <2>. QED
    BY <2>1, <2>2, TypePartsNext
<1>5. ClientOK'
  BY <1>1, <1>2, <1>3 DEF ClientOK
<1>6. Stayers' = Stayers /\ Stayers \subseteq Listing
  BY <1>1 DEF Stayers, MissedOK
<1>7. EarlyUnseen' = EarlyUnseen /\ LateSeen' = LateSeen
  <2>1. EarlyUnseen' = EarlyUnseen
    BY <1>1, <1>2, <1>3, <1>6 DEF EarlyUnseen, Place
  <2>2. LateSeen' = LateSeen
    BY <1>1, <1>2, <1>3 DEF LateSeen, Place
  <2>. QED
    BY <2>1, <2>2
<1>8. MissedOK' /\ RepeatedOK'
  BY <1>1, <1>2, <1>6, <1>7 DEF MissedOK, RepeatedOK
<1>9. CollectionOK' /\ StatsOK'
  BY <1>1, <1>2, <1>3 DEF CollectionOK, StatsOK
<1>. QED
  BY <1>4, <1>5, <1>8, <1>9

LEMMA ForgetKeepsInvariant ==
  ASSUME IInv, Forget
  PROVE  IInv'
<1>. USE DEF IInv
<1>1. /\ pc' = "idle" /\ endpoint' = "none" /\ limit' = 0 /\ filter' = Statuses
      /\ offset' = 0 /\ total' = 0 /\ seen' = {} /\ shown' = 0 /\ writes' = 0
      /\ before' = {} /\ touched' = {} /\ left' = 0 /\ moved' = 0
      /\ UNCHANGED <<table, ahead, status, inserted>>
  BY DEF Forget
<1>2. TypeOK'
  <2>1. TableOK'
    BY <1>1, TableStays
  <2>2. ViewOK'
    BY <1>1, ListingBounds DEF ViewOK
  <2>. QED
    BY <2>1, <2>2, TypePartsNext
<1>3. ClientOK'
  BY <1>1 DEF ClientOK
<1>. QED
  BY <1>1, <1>2, <1>3 DEF MissedOK, RepeatedOK, CollectionOK, StatsOK

\* Whichever store a page is read from, it has the rows of limit places from offset on.
LEMMA PageIsBetween ==
  ASSUME TypeOK, limit \in Nat
  PROVE  /\ Page = Between(offset, limit) /\ Page \subseteq Listing
         /\ IsFiniteSet(Page) /\ Cardinality(Page) \in 0 .. limit
         /\ Cardinality(Page) < limit =>
              \A r \in Listing : Place(r) \in Nat /\ Place(r) < offset + limit
<1>1. offset \in Nat /\ table \in Tables
  BY DEF TypeOK
<1>2. Page = Slice(offset, limit)
  <2>1. offset + limit = limit + offset
    BY <1>1
  <2>. QED
    BY <1>1, <2>1 DEF Page, Tables, GetFileRecords, GetDeadQueueEntries, ListDocuments, Slice
<1>3. /\ Slice(offset, limit) = Between(offset, limit)
      /\ IsFiniteSet(Between(offset, limit)) /\ Cardinality(Between(offset, limit)) \in 0 .. limit
      /\ offset + limit <= Cardinality(Listing) => Cardinality(Between(offset, limit)) = limit
  BY <1>1, ListingPlaces
<1>4. Between(offset, limit) \subseteq Listing
  BY DEF Between
<1>5. ASSUME Cardinality(Page) < limit, NEW r \in Listing
      PROVE  Place(r) \in Nat /\ Place(r) < offset + limit
  <2>1. Cardinality(Listing) \in Nat /\ Place(r) \in 0 .. Cardinality(Listing) - 1
    BY TypePlaces DEF PlacesOK
  <2>2. ~(offset + limit <= Cardinality(Listing))
    BY <1>2, <1>3, <1>5
  <2>. QED
    BY <1>1, <2>1, <2>2
<1>. QED
  BY <1>2, <1>3, <1>4, <1>5

LEMMA ReadPageKeepsInvariant ==
  ASSUME IInv, ReadPage
  PROVE  IInv'
<1>. USE DEF IInv
<1>1. /\ pc = "page" /\ seen' = seen \cup Page /\ shown' = shown + Cardinality(Page)
      /\ pc' \in {"next", "done"}
      /\ pc' = "done" => endpoint = "chroma_stats" \/ Cardinality(Page) < limit
      /\ pc' = "next" => endpoint # "chroma_stats" /\ ~(Cardinality(Page) < limit)
      /\ UNCHANGED <<table, ahead, status, inserted, writes, endpoint, limit, filter, before,
                     offset, total, touched, left, moved>>
  BY DEF ReadPage, request, history
<1>2. /\ Listing' = Listing /\ rows' = rows
      /\ \A r \in Listing : Ahead(r)' = Ahead(r)
      /\ \A n : First(n)' = First(n)
  BY <1>1, ListingStays
<1>3. limit \in Nat \ {0} /\ offset \in Nat /\ Reached = offset /\ Reached' = offset + limit
  BY <1>1 DEF ClientOK, TypeOK, Reached
<1>4. /\ Page = Between(offset, limit) /\ Page \subseteq Listing
      /\ IsFiniteSet(Page) /\ Cardinality(Page) \in 0 .. limit
      /\ Cardinality(Page) < limit =>
           \A r \in Listing : Place(r) \in Nat /\ Place(r) < offset + limit
  BY <1>3, PageIsBetween
<1>5. \A r \in Listing : Place(r) \in Nat
  BY TypePlaces DEF PlacesOK
<1>6. Listing \subseteq Row /\ Listing \subseteq rows
  BY DEF rows, Listing
<1>. HIDE DEF Page
<1>7. TypeOK'
  <2>1. TableOK'
    BY <1>1, TableStays
  <2>2. seen' \subseteq Row /\ shown' \in Nat
    BY <1>1, <1>4, <1>6 DEF TypeOK
  <2>3. ViewOK'
    BY <1>1, <2>2 DEF TypeOK, ViewOK
  <2>. QED
    BY <2>1, <2>3, TypePartsNext
<1>8. ClientOK'
  BY <1>1, <1>2, <1>4, <1>6 DEF ClientOK
<1>9. Stayers' = Stayers /\ Stayers \subseteq Listing
  BY <1>1 DEF Stayers, MissedOK
<1>10. MissedOK'
  <2>1. EarlyUnseen' \subseteq EarlyUnseen
    <3>1. ASSUME NEW r \in EarlyUnseen'
          PROVE  r \in EarlyUnseen
      <4>1. r \in Stayers /\ r \in Listing /\ r \notin seen /\ r \notin Page /\ Place(r) < offset + limit
        BY <1>1, <1>2, <1>3, <1>9, <3>1 DEF EarlyUnseen, Place
      <4>2. Place(r) < offset
        BY <1>3, <1>4, <1>5, <4>1 DEF Between
      <4>. QED
        BY <1>3, <4>1, <4>2 DEF EarlyUnseen
    <3>. QED
      BY <3>1
  <2>2. IsFiniteSet(EarlyUnseen) /\ Cardinality(EarlyUnseen) <= left
    <3>1. EarlyUnseen \subseteq Row
      BY DEF EarlyUnseen, Stayers, TypeOK
    <3>. QED
      BY <1>1, <3>1, RowSetsFinite DEF MissedOK
  <2>3. \A S \in SUBSET EarlyUnseen : Cardinality(S) <= left
    <3>1. ASSUME NEW S \in SUBSET EarlyUnseen
          PROVE  Cardinality(S) <= left
      <4>1. Cardinality(S) <= Cardinality(EarlyUnseen) /\ IsFiniteSet(S)
        BY <2>2, FS_Subset
      <4>2. Cardinality(S) \in Nat /\ Cardinality(EarlyUnseen) \in Nat /\ left \in Nat
        BY <2>2, <4>1, FS_CardinalityType DEF TypeOK
      <4>. QED
        BY <2>2, <4>1, <4>2
    <3>. QED
      BY <3>1
  <2>4. ASSUME pc' = "done", endpoint # "chroma_stats"
        PROVE  Stayers \ seen' \in SUBSET EarlyUnseen
    <3>1. \A r \in Listing : Place(r) < offset + limit
      BY <1>1, <1>4, <2>4
    <3>2. \A r \in Stayers \ seen' : r \in Listing /\ r \notin seen /\ r \notin Page
      BY <1>1, <1>9
    <3>3. \A r \in Stayers \ seen' : Place(r) < offset
      BY <1>3, <1>4, <1>5, <3>1, <3>2 DEF Between
    <3>. QED
      BY <1>3, <3>2, <3>3 DEF EarlyUnseen
  <2>. QED
    BY <1>1, <1>2, <1>9, <2>1, <2>3, <2>4 DEF MissedOK
<1>11. RepeatedOK'
  <2>1. LateSeen = LateSeen' \cup (seen \cap Page) /\ LateSeen' \cap (seen \cap Page) = {}
    <3>1. \A r : r \in LateSeen' <=> r \in (seen \cup Page) \cap Listing /\ Place(r) >= offset + limit
      BY <1>1, <1>2, <1>3 DEF LateSeen, Place
    <3>2. \A r : r \in LateSeen <=> r \in seen \cap Listing /\ Place(r) >= offset
      BY <1>3 DEF LateSeen
    <3>3. \A r \in Listing : r \in Page <=> Place(r) >= offset /\ Place(r) < offset + limit
      BY <1>4 DEF Between
    <3>. QED
      BY <1>3, <1>4, <1>5, <3>1, <3>2, <3>3
  <2>. DEFINE again == seen \cap Page
  <2>2. IsFiniteSet(seen) /\ IsFiniteSet(LateSeen') /\ IsFiniteSet(again)
    <3>1. seen \subseteq Row /\ LateSeen' \subseteq Row /\ again \subseteq Row
      BY <1>2, <1>6 DEF TypeOK, LateSeen
    <3>. QED
      BY <3>1, RowSetsFinite
  <2>3. Cardinality(seen') = Cardinality(seen) + Cardinality(Page) - Cardinality(again)
    BY <1>1, <1>4, <2>2, FS_Union
  <2>4. Cardinality(LateSeen) = Cardinality(LateSeen') + Cardinality(again)
    <3>1. Cardinality(LateSeen' \cap again) = 0
      BY <2>1, FS_EmptySet
    <3>2. Cardinality(LateSeen) = Cardinality(LateSeen') + Cardinality(again) - Cardinality(LateSeen' \cap again)
      BY <2>1, <2>2, FS_Union
    <3>3. Cardinality(LateSeen') \in Nat /\ Cardinality(again) \in Nat
      BY <2>2, FS_CardinalityType
    <3>. QED
      BY <3>1, <3>2, <3>3
  <2>5. /\ Cardinality(LateSeen') \in Nat /\ Cardinality(again) \in Nat /\ Cardinality(seen) \in Nat
        /\ Cardinality(Page) \in Nat /\ shown \in Nat /\ moved \in Nat
    BY <1>4, <2>2, FS_CardinalityType DEF TypeOK
  <2>. HIDE DEF again
  <2>6. shown - Cardinality(seen) + Cardinality(LateSeen) <= moved
    BY <1>1 DEF RepeatedOK
  <2>7. shown' - Cardinality(seen') + Cardinality(LateSeen') <= moved
    BY <1>1, <2>3, <2>4, <2>5, <2>6
  <2>. QED
    BY <1>1, <2>7 DEF RepeatedOK
<1>12. CollectionOK'
  <2>. SUFFICES ASSUME endpoint = "chroma_list"
                PROVE  CollectionOK'
    BY <1>1 DEF CollectionOK
  <2>1. /\ seen = First(offset) /\ Cardinality(seen) = offset /\ shown = offset
        /\ total <= Cardinality(Listing)
    BY <1>1, <1>3 DEF CollectionOK
  <2>2. seen' = First(offset + limit)
    BY <1>1, <1>3, <1>4, <1>5, <2>1 DEF First, Between
  <2>3. seen \cap Page = {}
    BY <1>3, <1>4, <1>5, <2>1 DEF First, Between
  <2>4. IsFiniteSet(seen)
    BY RowSetsFinite DEF TypeOK
  <2>5. Cardinality(seen') = shown'
    <3>1. Cardinality(seen') = Cardinality(seen) + Cardinality(Page) - Cardinality(seen \cap Page)
      BY <1>1, <1>4, <2>4, FS_Union
    <3>2. Cardinality(seen \cap Page) = 0
      BY <2>3, FS_EmptySet
    <3>. QED
      BY <1>1, <1>3, <1>4, <2>1, <3>1, <3>2
  <2>6. CASE pc' = "next"
    <3>1. Cardinality(Page) = limit
      BY <1>1, <1>3, <1>4, <2>6
    <3>2. shown' = offset + limit
      BY <1>1, <2>1, <3>1
    <3>. QED
      BY <1>1, <1>2, <1>3, <2>2, <2>5, <2>6, <3>2 DEF CollectionOK
  <2>7. CASE pc' = "done"
    <3>1. \A r \in Listing : Place(r) < offset + limit
      BY <1>1, <1>4, <2>7
    <3>2. seen' = Listing
      BY <2>2, <3>1 DEF First
    <3>3. shown' = Cardinality(Listing) /\ Cardinality(Listing) \in Nat
      BY <2>5, <3>2, TypePlaces DEF PlacesOK
    <3>4. First(shown') = Listing
      <4>1. \A r \in Listing : Place(r) < shown'
        BY <3>3, TypePlaces DEF PlacesOK
      <4>. QED
        BY <4>1 DEF First
    <3>5. First(shown)' = Listing
      <4>1. First(shown)' = {r \in Listing : Cardinality(Ahead(r)) < shown'}
        BY <1>2 DEF First, Place
      <4>. QED
        BY <3>4, <4>1 DEF First, Place
    <3>. QED
      BY <1>1, <2>1, <2>5, <2>7, <3>2, <3>3, <3>5 DEF CollectionOK
  <2>. QED
    BY <1>1, <2>6, <2>7
<1>13. StatsOK'
  <2>. SUFFICES ASSUME endpoint = "chroma_stats", Cardinality(rows) <= StatsLimit
                PROVE  before \subseteq seen'
    BY <1>1, <1>2 DEF StatsOK
  <2>1. before \subseteq Listing /\ offset = 0 /\ limit = StatsLimit
    BY <1>1, <1>9 DEF ClientOK, Stayers
  <2>2. \A r \in Listing : Place(r) < limit
    <3>1. /\ Cardinality(Listing) \in Nat /\ Cardinality(rows) \in Nat
          /\ Cardinality(Listing) <= Cardinality(rows)
      BY RowCount, FS_CardinalityType
    <3>2. \A r \in Listing : Place(r) \in 0 .. Cardinality(Listing) - 1
      BY TypePlaces DEF PlacesOK
    <3>. QED
      BY <1>3, <2>1, <3>1, <3>2
  <2>3. Listing \subseteq Page
    BY <1>3, <1>4, <1>5, <2>1, <2>2 DEF Between
  <2>. QED
    BY <1>1, <2>1, <2>3
<1>. QED
  BY <1>7, <1>8, <1>10, <1>11, <1>12, <1>13

------------------------------------------------------------------------------
(* The theorems.                                                           *)

LEMMA InitInvariant == Init => IInv
<1>. SUFFICES ASSUME Init
              PROVE  IInv
  OBVIOUS
<1>1. entries = {} /\ rows = {} /\ stamps = {} /\ Listing = {}
  BY DEF Init, entries, rows, stamps, Listing
<1>2. TypeOK
  BY <1>1, ListingBounds DEF Init, TypeOK, Ordered, Statuses
<1>. QED
  BY <1>1, <1>2
     DEF Init, IInv, ClientOK, MissedOK, RepeatedOK, CollectionOK, StatsOK

\* A time that is taken or given up is none of the client's business.
LEMMA TimingKeepsListing ==
  ASSUME TypeOK, Timing
  PROVE  /\ TableOK' /\ Listing' = Listing /\ rows' = rows
         /\ \A r \in Listing : Ahead(r)' = Ahead(r)
         /\ \A n : First(n)' = First(n)
         /\ UNCHANGED <<table, status, inserted, writes, request, paging, history>>
<1>1. /\ TableOK' /\ rows' = rows
      /\ \A r \in rows : ahead'[r] \cap Row = ahead[r] \cap Row
      /\ UNCHANGED <<table, status, inserted, writes, request, paging, history>>
  BY TimingKeepsTable
<1>2. Listing' = Listing /\ Listing \subseteq rows /\ Listing \subseteq Row
  BY <1>1 DEF Listing, request, rows
<1>3. \A r \in Listing : Ahead(r)' = Ahead(r)
  BY <1>1, <1>2 DEF Ahead
<1>4. \A n : First(n)' = First(n)
  BY <1>2, <1>3 DEF First, Place
<1>. QED
  BY <1>1, <1>2, <1>3, <1>4

LEMMA OthersKeepInvariant == IInv /\ (Timing \/ UNCHANGED vars) => IInv'
<1>. SUFFICES ASSUME IInv, Timing \/ UNCHANGED vars
              PROVE  IInv'
  OBVIOUS
<1>. USE DEF IInv
<1>1. UNCHANGED <<table, status, inserted, writes, endpoint, limit, filter, before,
                  pc, offset, total, seen, shown, touched, left, moved>>
  BY TimingKeepsListing DEF vars, request, paging, history
<1>2. /\ Listing' = Listing /\ rows' = rows /\ TableOK'
      /\ \A r \in Listing : Ahead(r)' = Ahead(r)
      /\ \A n : First(n)' = First(n)
  <2>1. CASE Timing
    BY <2>1, TimingKeepsListing
  <2>2. CASE UNCHANGED vars
    <3>1. UNCHANGED <<table, ahead, status, filter, inserted>>
      BY <2>2 DEF vars, request
    <3>. QED
      BY <3>1, ListingStays, TableStays
  <2>. QED
    BY <2>1, <2>2
<1>3. TypeOK'
  <2>1. ViewOK'
    BY <1>1 DEF TypeOK, ViewOK
  <2>. QED
    BY <1>2, <2>1, TypePartsNext
<1>4. Stayers' = Stayers /\ Reached' = Reached
  BY <1>1 DEF Stayers, Reached
<1>5. ClientOK' /\ StatsOK'
  BY <1>1, <1>2 DEF ClientOK, StatsOK
<1>6. CollectionOK'
  BY <1>1, <1>2, <1>4 DEF CollectionOK
<1>7. CASE pc = "idle"
  BY <1>1, <1>3, <1>5, <1>6, <1>7 DEF MissedOK, RepeatedOK
<1>8. CASE pc # "idle"
  <2>1. Stayers \subseteq Listing
    BY <1>8 DEF MissedOK
  <2>2. EarlyUnseen' = EarlyUnseen
    BY <1>1, <1>2, <1>4, <2>1 DEF EarlyUnseen, Place
  <2>3. LateSeen' = LateSeen
    BY <1>1, <1>2, <1>4 DEF LateSeen, Place
  <2>4. MissedOK' /\ RepeatedOK'
    BY <1>1, <1>2, <1>4, <2>2, <2>3 DEF MissedOK, RepeatedOK
  <2>. QED
    BY <1>3, <1>5, <1>6, <2>4
<1>. QED
  BY <1>7, <1>8

\* The ledger is kept by every write of the pipeline and every step of an endpoint.
THEOREM Invariance == Spec => []IInv
<1>1. IInv /\ [Next]_vars => IInv'
  <2>. SUFFICES ASSUME IInv, [Next]_vars
                PROVE  IInv'
    OBVIOUS
  <2>1. CASE Writing
    BY <2>1, WritesKeepInvariant
  <2>2. CASE Request
    BY <2>2, RequestKeepsInvariant
  <2>3. CASE Count
    BY <2>3, CountKeepsInvariant
  <2>4. CASE ReadPage
    BY <2>4, ReadPageKeepsInvariant
  <2>5. CASE NextPage
    BY <2>5, NextPageKeepsInvariant
  <2>6. CASE Forget
    BY <2>6, ForgetKeepsInvariant
  <2>7. CASE Timing \/ UNCHANGED vars
    BY <2>7, OthersKeepInvariant
  <2>. QED
    BY <2>1, <2>2, <2>3, <2>4, <2>5, <2>6, <2>7 DEF Next, Writing, Commit, Timing, Request
<1>. QED
  BY <1>1, InitInvariant, PTL DEF Spec

\* The tables stay in one order, no id is given twice and a file keeps one
\* record, whatever is written while the endpoints read.
THEOREM TypeCorrect == Spec => []TypeOK
<1>1. IInv => TypeOK
  BY DEF IInv
<1>. QED
  BY <1>1, Invariance, PTL

\* A listing of list_files, of the dead queue or of chroma_list that has ended
\* has missed no more of the rows that stayed untouched than rows have left it or
\* were put back in it by a session that had taken its time before another.
THEOREM MissesAreBounded == Spec => []MissedAtMostLeftOrSunk
<1>1. IInv => MissedAtMostLeftOrSunk
  BY DEF IInv, MissedOK, Stayers, MissedAtMostLeftOrSunk
<1>. QED
  BY <1>1, Invariance, PTL

\* At any moment a listing has shown rows again no more often than rows were
\* given another place in it.
THEOREM RepeatsAreBounded == Spec => []RepeatedAtMostMoved
<1>1. IInv => RepeatedAtMostMoved
  <2>. SUFFICES ASSUME IInv
                PROVE  RepeatedAtMostMoved
    OBVIOUS
  <2>1. /\ Cardinality(LateSeen) \in Nat /\ Cardinality(seen) \in Nat
        /\ shown \in Nat /\ moved \in Nat
    <3>1. LateSeen \subseteq Row /\ seen \subseteq Row
      BY DEF IInv, TypeOK, LateSeen
    <3>. QED
      BY <3>1, RowSetsFinite DEF IInv, TypeOK
  <2>2. CASE pc = "idle"
    BY <2>2, FS_EmptySet DEF IInv, ClientOK, RepeatedAtMostMoved
  <2>3. CASE pc # "idle"
    BY <2>1, <2>3 DEF IInv, RepeatedOK, RepeatedAtMostMoved
  <2>. QED
    BY <2>2, <2>3
<1>. QED
  BY <1>1, Invariance, PTL

\* The pages of chroma_list are the collection from its start without a gap or a
\* repetition, and when it ends no shorter than the total reported.
THEOREM CollectionIsListed == Spec => []CollectionListed
<1>1. IInv => CollectionListed
  BY DEF IInv, CollectionOK, CollectionListed
<1>. QED
  BY <1>1, Invariance, PTL

\* chroma_stats has every file that had chunks when it was asked, if the
\* collection is within its limit.
THEOREM StatsAreComplete == Spec => []StatsComplete
<1>1. IInv => StatsComplete
  BY DEF IInv, StatsOK, StatsComplete
<1>. QED
  BY <1>1, Invariance, PTL
==============================================================================
