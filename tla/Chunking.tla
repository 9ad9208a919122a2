------------------------------- MODULE Chunking -------------------------------
(***************************************************************************)
(* chunk_text (dags/ingestion_dag/task_chunk.py): the loop that cuts the   *)
(* text of a file into overlapping chunks at sentence or word boundaries.  *)
(* A text is a function from positions to characters, of which only those  *)
(* that decide where to cut are told apart.                                *)
(***************************************************************************)
EXTENDS Integers, Sequences

CONSTANTS
  ChunkSize,     \* chunk_size, 512 in the DAG
  ChunkOverlap,  \* chunk_overlap, 50 in the DAG
  Letters,       \* the characters that are no white space
  MaxLength      \* bound: the longest text

Space == " "

\* What the code needs of its parameters and does not check: with a larger
\* overlap a cut just past the middle of a chunk moves the start backwards.
ASSUME ChunkingAssumption ==
  /\ ChunkSize \in Nat \ {0, 1}
  /\ ChunkOverlap \in Nat
  /\ ChunkOverlap < ChunkSize
  /\ ChunkOverlap <= ChunkSize \div 2 + 1
  /\ Space \notin Letters
  /\ MaxLength \in Nat

VARIABLES
  length, text,  \* the text, its white space normalised
  start,         \* where the next chunk begins
  chunks,        \* the chunks cut so far: where each begins and ends in text
  total          \* total_chunks, once written into every chunk

vars == <<length, text, start, chunks, total>>

\* The first characters of ". ", "! " and "? ", in the order they are tried.
\* The fourth separator, a newline, is gone once white space is normalised.
Separators == <<".", "!", "?">>
Characters == Letters \cup {Space}

\* " ".join(text.split()): single spaces, none at either end.
Normalised(n, t) ==
  \A p \in 0 .. n - 1 : t[p] = Space =>
    p > 0 /\ p < n - 1 /\ t[p + 1] # Space

Init ==
  /\ length \in 0 .. MaxLength
  /\ text \in [0 .. length - 1 -> Characters]
  /\ Normalised(length, text)
  /\ start = 0
  /\ chunks = <<>>
  /\ total = -1

\* Mutated forms of Middle: the test against the middle is dropped, and it
\* is made against the first quarter, which the overlap can reach back to.
NoMiddle == start
FirstQuarter == start + ChunkSize \div 4

\* Boundaries in the first half of a chunk are not used.
Middle == start + ChunkSize \div 2

\* The hits of text.rfind(sep, start, end) that lie in the second half.
SentenceEnds(k) ==
  {p \in Middle + 1 .. start + ChunkSize - 2 : text[p] = Separators[k] /\ text[p + 1] = Space}
WordEnds == {p \in Middle + 1 .. start + ChunkSize - 1 : text[p] = Space}

IsLast(p, positions) == p \in positions /\ \A q \in positions : q <= p

\* Where the chunk that begins at start ends: behind the last sentence end of
\* the first separator that has one, else behind the last word, else anywhere.
CutAt(end) ==
  IF start + ChunkSize >= length
  THEN end = start + ChunkSize
  ELSE \/ \E k \in DOMAIN Separators :
            /\ IsLast(end - 2, SentenceEnds(k))
            /\ \A j \in 1 .. k - 1 : SentenceEnds(j) = {}
       \/ /\ \A k \in DOMAIN Separators : SentenceEnds(k) = {}
          /\ IF WordEnds = {} THEN end = start + ChunkSize ELSE IsLast(end - 1, WordEnds)

Least(a, b) == IF a < b THEN a ELSE b

Content(from, to) == {p \in from .. to - 1 : text[p] # Space}

\* What strip leaves of text[from:to] becomes a chunk, if it leaves anything.
Stores(from, to) ==
  \/ /\ Content(from, to) = {}
     /\ UNCHANGED chunks
  \/ \E first, last \in Content(from, to) :
       /\ Content(from, to) \subseteq first .. last
       /\ chunks' = Append(chunks, [from |-> first, to |-> last + 1, index |-> Len(chunks)])

\* Mutated form of Advance: the overlap is taken at the end of the text too.
AdvanceAlways(end) == start' = end - ChunkOverlap

\* Mutated form of Advance: the sign of the overlap.
AdvanceBeyond(end) == start' = IF end < length THEN end + ChunkOverlap ELSE end

Advance(end) == start' = IF end < length THEN end - ChunkOverlap ELSE end

Cut ==
  /\ start < length
  /\ \E end \in start + 1 .. start + ChunkSize :
       /\ CutAt(end)
       /\ Stores(start, Least(end, length))
       /\ Advance(end)
  /\ UNCHANGED <<length, text, total>>

\* Mutated form of Finish: the last chunk_index is taken for the number.
FinishWithLastIndex ==
  /\ start >= length
  /\ total = -1
  /\ total' = IF chunks = <<>> THEN 0 ELSE chunks[Len(chunks)].index
  /\ UNCHANGED <<length, text, start, chunks>>

Finish ==
  /\ start >= length
  /\ total = -1
  /\ total' = Len(chunks)
  /\ UNCHANGED <<length, text, start, chunks>>

Next == Cut \/ Finish

Spec == Init /\ [][Next]_vars

------------------------------------------------------------------------------
Chunk == [from : Nat, to : Nat, index : Nat]

\* The text, the chunks and the position in the text have their types; start
\* is never negative.
TypeOK ==
  /\ length \in 0 .. MaxLength
  /\ text \in [0 .. length - 1 -> Characters]
  /\ start \in Nat
  /\ chunks \in Seq(Chunk)
  /\ total \in Nat \cup {-1}

\* Every character that is not white space is in some chunk when chunk_text
\* returns: no cut at a boundary and no overlap loses any of the file.
NothingLost ==
  total # -1 => \A p \in 0 .. length - 1 : text[p] # Space =>
    \E k \in DOMAIN chunks : chunks[k].from <= p /\ p < chunks[k].to

\* Every chunk fits chunk_size and ends behind the one before it, so none is
\* redundant; of the chunk_overlap characters that two chunks share, strip may
\* take a space from the end of the one and from the beginning of the other.
ChunksAdvance ==
  \A k \in DOMAIN chunks :
    /\ chunks[k].to - chunks[k].from \in 1 .. ChunkSize
    /\ k > 1 => /\ chunks[k].to > chunks[k - 1].to
                /\ chunks[k - 1].to - chunks[k].from \in ChunkOverlap - 2 .. ChunkOverlap

\* A chunk stored in ChromaDB begins and ends with a character that is no white
\* space, and chunk_index and total_chunks number the chunks without a gap.
ChunksNumbered ==
  /\ \A k \in DOMAIN chunks : /\ chunks[k].index = k - 1
                              /\ {chunks[k].from, chunks[k].to - 1}
                                   \subseteq Content(chunks[k].from, chunks[k].to)
  /\ total # -1 => total = Len(chunks) /\ (length > 0 => total > 0)

\* Every turn of the loop moves on in the text, so chunk_text returns: a cut
\* at a boundary is always further on than the overlap reaches back.
Progress == [][total' = total => start' > start]_vars
==============================================================================
