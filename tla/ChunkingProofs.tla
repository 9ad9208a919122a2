---------------------------- MODULE ChunkingProofs ----------------------------
(***************************************************************************)
(* Proofs about Chunking, for every chunk_size and chunk_overlap the       *)
(* assumption admits, and every text.  A turn of the loop cuts a window    *)
(* that begins chunk_overlap characters before the end of the last one and *)
(* ends behind it; white space being normalised, strip takes at most one   *)
(* character from either end of it, a space, and the rest is a chunk.      *)
(***************************************************************************)
EXTENDS Chunking, SequenceTheorems, TLAPS

\* The end of the last chunk.
Reached == IF chunks = <<>> THEN 0 ELSE chunks[Len(chunks)].to

Covered(p) == \E k \in DOMAIN chunks : chunks[k].from <= p /\ p < chunks[k].to

\* The end of the last window, while there is another one to come.
WindowEnd == start + ChunkOverlap

\* While the loop runs, all of the last window but a space at its end is in the
\* last chunk; then all of the text is cut.
Position ==
  /\ start < length =>
       /\ chunks = <<>> => start = 0
       /\ chunks # <<>> => /\ WindowEnd < length
                           /\ Reached \in {WindowEnd - 1, WindowEnd}
                           /\ Reached < WindowEnd => text[Reached] = Space
  /\ start >= length => Reached = length

\* Parts of ChunksAdvance.  The second needs windows that are twice as long as
\* what they overlap: cutting at a boundary may shorten them by half.
FitAndOverlap ==
  \A k \in DOMAIN chunks :
    /\ chunks[k].to - chunks[k].from \in 1 .. ChunkSize
    /\ k > 1 => chunks[k - 1].to - chunks[k].from \in ChunkOverlap - 2 .. ChunkOverlap

Onwards == \A k \in DOMAIN chunks : k > 1 => chunks[k].to > chunks[k - 1].to

Trimmed(k) ==
  /\ chunks[k].index = k - 1
  /\ {chunks[k].from, chunks[k].to - 1} \subseteq Content(chunks[k].from, chunks[k].to)

IInv ==
  /\ TypeOK
  /\ Normalised(length, text)
  /\ Position
  /\ \A p \in 0 .. length - 1 : text[p] # Space /\ p < Reached => Covered(p)
  /\ FitAndOverlap
  /\ 2 * ChunkOverlap < ChunkSize => Onwards
  /\ \A k \in DOMAIN chunks : Trimmed(k)
  /\ total # -1 => start >= length /\ total = Len(chunks)

\* strip takes at most one space from either end of a window, and none where
\* the text ends: what it leaves begins at first and ends at last.
LEMMA StripTakesSpaces ==
  ASSUME TypeOK, Normalised(length, text),
         NEW from \in Nat, NEW to \in Nat,
         from < to, to <= length,
         to - from >= 2 \/ to = length
  PROVE  /\ Content(from, to) # {}
         /\ \A first, last \in Content(from, to) :
              Content(from, to) \subseteq first .. last =>
                /\ first \in {from, from + 1}
                /\ last \in {to - 2, to - 1}
                /\ to = length => last = to - 1
<1>1. length \in Nat
  BY ChunkingAssumption DEF TypeOK
<1>2. text[to - 1] = Space => to < length /\ text[to - 2] # Space
  <2> SUFFICES ASSUME text[to - 1] = Space PROVE to < length /\ text[to - 2] # Space
    OBVIOUS
  <2>1. to - 1 < length - 1
    BY <1>1 DEF Normalised
  <2>2. to - 2 \in 0 .. length - 1 /\ (to - 2) + 1 = to - 1
    BY <1>1, <2>1
  <2>3. text[to - 2] = Space => text[(to - 2) + 1] # Space
    BY <2>2 DEF Normalised
  <2> QED BY <1>1, <2>1, <2>2, <2>3
<1>3. text[from] = Space => from + 1 < to /\ text[from + 1] # Space
  <2> SUFFICES ASSUME text[from] = Space PROVE from + 1 < to /\ text[from + 1] # Space
    OBVIOUS
  <2>1. from < length - 1 /\ text[from + 1] # Space
    BY <1>1 DEF Normalised
  <2> QED BY <1>1, <2>1
<1>4. \E p \in Content(from, to) : p \in {from, from + 1}
  <2>1. CASE text[from] = Space
    BY <1>1, <1>3, <2>1 DEF Content
  <2>2. CASE text[from] # Space
    BY <1>1, <2>2 DEF Content
  <2> QED BY <2>1, <2>2
<1>5. \E p \in Content(from, to) : p \in {to - 2, to - 1} /\ (to = length => p = to - 1)
  <2>1. CASE text[to - 1] = Space
    <3>1. to < length /\ text[to - 2] # Space /\ to - 2 >= from
      BY <1>1, <1>2, <2>1
    <3> QED BY <1>1, <3>1 DEF Content
  <2>2. CASE text[to - 1] # Space
    BY <1>1, <2>2 DEF Content
  <2> QED BY <2>1, <2>2
<1>6. Content(from, to) \subseteq from .. to - 1
  BY DEF Content
<1> QED BY <1>1, <1>4, <1>5, <1>6

\* Where a cut can fall: never so early that the overlap reaches back to start.
LEMMA CutIsFar ==
  ASSUME start \in Nat, length \in Nat,
         NEW end \in start + 1 .. start + ChunkSize, CutAt(end)
  PROVE  /\ end \in Nat
         /\ end - start >= 2
         /\ end - start > ChunkOverlap
         /\ 2 * ChunkOverlap < ChunkSize => end - start >= ChunkOverlap + 2
<1> DEFINE half == ChunkSize \div 2
<1>1. ChunkSize \in Nat /\ ChunkSize >= 2 /\ ChunkOverlap \in Nat
      /\ ChunkOverlap < ChunkSize /\ half \in Nat /\ ChunkOverlap <= half + 1
      /\ (2 * ChunkOverlap < ChunkSize => ChunkOverlap <= half)
  BY ChunkingAssumption
<1>2. end \in Nat
  BY <1>1
<1>3. CASE end = start + ChunkSize
  BY <1>1, <1>2, <1>3
<1>4. ASSUME NEW k \in DOMAIN Separators, IsLast(end - 2, SentenceEnds(k))
      PROVE  end - 2 >= start + half + 1
  BY <1>1, <1>2, <1>4 DEF IsLast, SentenceEnds, Middle
<1>5. ASSUME IsLast(end - 1, WordEnds)
      PROVE  end - 1 >= start + half + 1
  BY <1>1, <1>2, <1>5 DEF IsLast, WordEnds, Middle
<1>6. end = start + ChunkSize \/ end - 1 >= start + half + 1
  <2> HIDE DEF half
  <2> QED BY <1>1, <1>2, <1>4, <1>5 DEF CutAt
<1>7. CASE end - 1 >= start + half + 1
  <2> HIDE DEF half
  <2> QED BY <1>1, <1>2, <1>7
<1> QED BY <1>3, <1>6, <1>7

\* The initial states satisfy the invariant.
LEMMA InitIInv == Init => IInv
<1> SUFFICES ASSUME Init PROVE IInv
  OBVIOUS
<1>1. length \in Nat /\ MaxLength \in Nat
  BY ChunkingAssumption DEF Init
<1>2. TypeOK
  BY <1>1 DEF Init, TypeOK, Chunk
<1>3. DOMAIN chunks = {} /\ Reached = 0
  BY DEF Init, Reached
<1> QED BY <1>1, <1>2, <1>3 DEF Init, IInv, Position, FitAndOverlap, Onwards

LEMMA LastChunk ==
  ASSUME TypeOK, chunks # <<>>
  PROVE  Len(chunks) \in DOMAIN chunks /\ chunks[Len(chunks)] \in Chunk /\ Reached \in Nat
<1>1. chunks \in Seq(Chunk)
  BY DEF TypeOK
<1> HIDE DEF Chunk
<1>2. Len(chunks) \in Nat \ {0} /\ DOMAIN chunks = 1 .. Len(chunks)
  BY <1>1
<1>3. Len(chunks) \in DOMAIN chunks /\ chunks[Len(chunks)] \in Chunk
  BY <1>1, <1>2
<1> QED BY <1>3 DEF Chunk, Reached

\* What one turn of the loop does, given the invariant: it appends a chunk.
LEMMA CutAppends ==
  ASSUME IInv, start < length,
         NEW end \in start + 1 .. start + ChunkSize, CutAt(end),
         Stores(start, Least(end, length))
  PROVE  LET to == Least(end, length)
         IN  /\ to \in Nat
             /\ \E first \in {start, start + 1}, last \in {to - 2, to - 1} :
                  /\ first \in Nat /\ last \in Nat
                  /\ first <= last
                  /\ {first, last} \subseteq Content(first, last + 1)
                  /\ Content(start, to) \subseteq first .. last
                  /\ to = length => last = to - 1
                  /\ chunks' = Append(chunks, [from |-> first, to |-> last + 1,
                                               index |-> Len(chunks)])
<1> DEFINE to == Least(end, length)
<1>1. length \in Nat /\ start \in Nat /\ ChunkSize \in Nat
  BY ChunkingAssumption DEF IInv, TypeOK
<1>2. end \in Nat /\ end - start >= 2
  BY <1>1, CutIsFar
<1>3. /\ to \in Nat /\ start < to /\ to <= length
      /\ to - start >= 2 \/ to = length
  BY <1>1, <1>2 DEF Least
<1>4. Stores(start, to)
  OBVIOUS
<1> HIDE DEF to
<1>5. /\ Content(start, to) # {}
      /\ \A first, last \in Content(start, to) :
           Content(start, to) \subseteq first .. last =>
             /\ first \in {start, start + 1}
             /\ last \in {to - 2, to - 1}
             /\ to = length => last = to - 1
  BY <1>1, <1>3, StripTakesSpaces DEF IInv
<1>6. PICK first \in Content(start, to), last \in Content(start, to) :
        /\ Content(start, to) \subseteq first .. last
        /\ chunks' = Append(chunks, [from |-> first, to |-> last + 1, index |-> Len(chunks)])
  BY <1>4, <1>5 DEF Stores
<1>7. /\ first \in Nat /\ last \in Nat /\ first <= last
      /\ text[first] # Space /\ text[last] # Space
  BY <1>1, <1>3, <1>6 DEF Content
<1>8. {first, last} \subseteq Content(first, last + 1)
  BY <1>7 DEF Content
<1>9. first \in {start, start + 1} /\ last \in {to - 2, to - 1} /\ (to = length => last = to - 1)
  BY <1>5, <1>6
<1>10. to \in Nat /\ to = Least(end, length)
  BY <1>3 DEF to
<1> QED BY <1>6, <1>7, <1>8, <1>9, <1>10 DEF to

\* A turn of the loop preserves the invariant and moves start on.
LEMMA CutStep ==
  ASSUME IInv, Cut
  PROVE  IInv' /\ start' > start
<1>0. PICK end \in start + 1 .. start + ChunkSize :
        /\ CutAt(end)
        /\ Stores(start, Least(end, length))
        /\ Advance(end)
  BY DEF Cut
<1> DEFINE to == Least(end, length)
<1>1. /\ start < length /\ UNCHANGED <<length, text, total>>
  BY DEF Cut
<1>2. length \in Nat /\ start \in Nat /\ ChunkSize \in Nat /\ ChunkOverlap \in Nat
      /\ chunks \in Seq(Chunk) /\ total \in Nat \cup {-1}
  BY ChunkingAssumption DEF IInv, TypeOK
<1>3. end \in Nat /\ end - start > ChunkOverlap /\ end - start <= ChunkSize
      /\ (2 * ChunkOverlap < ChunkSize => end - start >= ChunkOverlap + 2)
  BY <1>0, <1>2, CutIsFar
<1>4. to \in Nat /\ to = IF end < length THEN end ELSE length
  BY <1>2, <1>3 DEF Least
<1>5. PICK first \in {start, start + 1}, last \in {to - 2, to - 1} :
        /\ first \in Nat /\ last \in Nat
        /\ first <= last
        /\ {first, last} \subseteq Content(first, last + 1)
        /\ Content(start, to) \subseteq first .. last
        /\ to = length => last = to - 1
        /\ chunks' = Append(chunks, [from |-> first, to |-> last + 1, index |-> Len(chunks)])
  BY <1>0, <1>1, CutAppends
<1> DEFINE new == [from |-> first, to |-> last + 1, index |-> Len(chunks)]
           n == Len(chunks)
<1> HIDE DEF to
<1>6. new \in Chunk /\ n \in Nat
  BY <1>2, <1>5 DEF Chunk
<1>7. /\ chunks' \in Seq(Chunk) /\ Len(chunks') = n + 1
      /\ DOMAIN chunks = 1 .. n /\ DOMAIN chunks' = 1 .. n + 1
      /\ chunks'[n + 1] = new
      /\ \A k \in 1 .. n : chunks'[k] = chunks[k]
  <2>1. chunks' = Append(chunks, new) /\ DOMAIN chunks = 1 .. n
    BY <1>2, <1>5
  <2> HIDE DEF new
  <2> QED BY <1>2, <1>6, <2>1, AppendProperties
<1>8. start' \in Nat /\ start' > start
  BY <1>0, <1>2, <1>3 DEF Advance
<1>9. /\ chunks'[n + 1].from = first /\ chunks'[n + 1].to = last + 1
      /\ chunks'[n + 1].index = n
  BY <1>7
<1> HIDE DEF new
<1>10. Reached' = last + 1 /\ chunks' # <<>>
  <2>1. chunks' # <<>>
    BY <1>6, <1>7
  <2> QED BY <1>7, <1>9, <2>1 DEF Reached
<1>pos. Position
  BY DEF IInv
<1>11. /\ chunks # <<>> => /\ n \in 1 .. n /\ Reached = chunks[n].to /\ Reached \in Nat
                           /\ WindowEnd < length /\ WindowEnd = start + ChunkOverlap
                           /\ Reached \in {WindowEnd - 1, WindowEnd}
                           /\ Reached < WindowEnd => text[Reached] = Space
       /\ chunks = <<>> => Reached = 0 /\ start = 0 /\ n = 0
  <2>1. CASE chunks # <<>>
    <3>1. n \in 1 .. n /\ Reached \in Nat
      BY <1>6, <1>7, <2>1, LastChunk DEF IInv
    <3>2. Reached = chunks[n].to
      BY <2>1 DEF Reached
    <3>3. /\ WindowEnd < length
          /\ Reached \in {WindowEnd - 1, WindowEnd}
          /\ Reached < WindowEnd => text[Reached] = Space
      BY <1>1, <1>pos, <2>1 DEF Position
    <3>4. WindowEnd = start + ChunkOverlap
      BY DEF WindowEnd
    <3> QED BY <2>1, <3>1, <3>2, <3>3, <3>4
  <2>2. CASE chunks = <<>>
    <3>1. Len(chunks) = 0 /\ Reached = 0
      BY <2>2 DEF Reached
    <3> QED BY <1>1, <1>pos, <2>2, <3>1 DEF Position
  <2> QED BY <2>1, <2>2
<1>12. TypeOK'
  BY <1>1, <1>7, <1>8 DEF IInv, TypeOK
<1>13. Normalised(length, text)'
  BY <1>1 DEF IInv, Normalised
<1>14. Position'
  <2>1. CASE end < length
    <3>1. start' = end - ChunkOverlap /\ to = end
      BY <1>0, <1>4, <2>1 DEF Advance
    <3>2. WindowEnd' = end /\ start' < length
      BY <1>2, <1>3, <2>1, <3>1 DEF WindowEnd
    <3>3. Reached' \in {end - 1, end}
      BY <1>3, <1>5, <1>10, <3>1
    <3>4. ASSUME last + 1 < end PROVE text[last + 1] = Space
      <4>1. last + 1 \in start .. to - 1 /\ last + 1 \notin first .. last
        BY <1>2, <1>3, <1>5, <3>1, <3>4
      <4> QED BY <1>5, <4>1 DEF Content
    <3>5. (Reached < WindowEnd => text[Reached] = Space)'
      BY <1>1, <1>10, <3>2, <3>4
    <3>6. length' = length /\ start' \in Nat
      BY <1>1, <1>8
    <3> QED BY <1>2, <1>10, <2>1, <3>2, <3>3, <3>5, <3>6 DEF Position
  <2>2. CASE ~(end < length)
    <3>1. start' = end /\ to = length
      BY <1>0, <1>4, <2>2 DEF Advance
    <3>2. Reached' = length
      BY <1>2, <1>5, <1>10, <3>1
    <3> QED BY <1>1, <1>2, <1>3, <2>2, <3>1, <3>2 DEF Position
  <2> QED BY <2>1, <2>2
<1>15. (\A p \in 0 .. length - 1 : text[p] # Space /\ p < Reached => Covered(p))'
  <2> SUFFICES ASSUME NEW p \in 0 .. length - 1, text[p] # Space, p < last + 1
               PROVE  \E k \in 1 .. n + 1 : chunks'[k].from <= p /\ p < chunks'[k].to
    BY <1>1, <1>7, <1>10 DEF Covered
  <2>1. CASE p < Reached
    <3>1. PICK k \in 1 .. n : chunks[k].from <= p /\ p < chunks[k].to
      BY <1>7, <2>1 DEF IInv, Covered
    <3>2. k \in 1 .. n + 1 /\ chunks'[k] = chunks[k]
      BY <1>6, <1>7, <3>1
    <3> QED BY <3>1, <3>2
  <2>2. CASE ~(p < Reached)
    <3>1. start <= p
      <4>1. CASE chunks = <<>>
        BY <1>2, <1>11, <4>1
      <4>2. CASE chunks # <<>>
        <5>1. p # Reached \/ Reached = start + ChunkOverlap
          BY <1>2, <1>11, <4>2
        <5> QED BY <1>2, <1>11, <2>2, <4>2, <5>1
      <4> QED BY <4>1, <4>2
    <3>2. p \in Content(start, to)
      BY <1>2, <1>4, <1>5, <3>1 DEF Content
    <3>3. first <= p
      BY <1>5, <3>2
    <3> QED BY <1>6, <1>9, <3>3
  <2> QED BY <2>1, <2>2
<1>16. FitAndOverlap'
  <2> SUFFICES ASSUME NEW k \in 1 .. n + 1
               PROVE  /\ chunks'[k].to - chunks'[k].from \in 1 .. ChunkSize
                      /\ k > 1 => chunks'[k - 1].to - chunks'[k].from
                                    \in ChunkOverlap - 2 .. ChunkOverlap
    BY <1>7 DEF FitAndOverlap
  <2>1. CASE k \in 1 .. n
    <3>1. chunks'[k] = chunks[k] /\ (k > 1 => chunks'[k - 1] = chunks[k - 1])
      BY <1>6, <1>7, <2>1
    <3> QED BY <1>7, <2>1, <3>1 DEF IInv, FitAndOverlap
  <2>2. CASE k = n + 1
    <3>1. (last + 1) - first \in 1 .. ChunkSize
      BY <1>2, <1>3, <1>4, <1>5
    <3>2. ASSUME k > 1
          PROVE  chunks'[k - 1].to - first \in ChunkOverlap - 2 .. ChunkOverlap
      <4>1. chunks # <<>> /\ k - 1 = n
        BY <1>6, <1>11, <2>2, <3>2
      <4>2. chunks'[k - 1].to = Reached
        BY <1>7, <1>11, <4>1
      <4> QED BY <1>2, <1>5, <1>11, <4>1, <4>2
    <3>3. chunks'[k].from = first /\ chunks'[k].to = last + 1
      BY <1>9, <2>2
    <3>4. chunks'[k].to - chunks'[k].from \in 1 .. ChunkSize
      BY <3>1, <3>3
    <3> QED BY <3>2, <3>3, <3>4
  <2> QED BY <1>6, <2>1, <2>2
<1>17. ASSUME 2 * ChunkOverlap < ChunkSize
       PROVE  Onwards'
  <2> SUFFICES ASSUME NEW k \in 1 .. n + 1, k > 1
               PROVE  chunks'[k].to > chunks'[k - 1].to
    BY <1>7 DEF Onwards
  <2>1. CASE k \in 1 .. n
    <3>1. chunks'[k] = chunks[k] /\ chunks'[k - 1] = chunks[k - 1]
      BY <1>6, <1>7, <2>1
    <3> QED BY <1>7, <1>17, <2>1, <3>1 DEF IInv, Onwards
  <2>2. CASE k = n + 1
    <3>1. chunks # <<>> /\ k - 1 = n
      BY <1>6, <1>11, <2>2
    <3>2. chunks'[k - 1].to = Reached /\ chunks'[k].to = last + 1
      BY <1>7, <1>9, <1>11, <2>2, <3>1
    <3>3. last + 1 > Reached
      BY <1>2, <1>3, <1>4, <1>5, <1>11, <1>17, <3>1
    <3> QED BY <3>2, <3>3
  <2> QED BY <1>6, <2>1, <2>2
<1>18. (\A k \in DOMAIN chunks : Trimmed(k))'
  <2> SUFFICES ASSUME NEW k \in 1 .. n + 1
               PROVE  /\ chunks'[k].index = k - 1
                      /\ {chunks'[k].from, chunks'[k].to - 1}
                           \subseteq Content(chunks'[k].from, chunks'[k].to)
    BY <1>1, <1>7 DEF Trimmed, Content
  <2>1. CASE k \in 1 .. n
    BY <1>7, <2>1 DEF IInv, Trimmed
  <2>2. CASE k = n + 1
    BY <1>5, <1>6, <1>9, <2>2
  <2> QED BY <1>6, <2>1, <2>2
<1>19. total' = -1
  BY <1>1, <1>2 DEF IInv
<1> QED BY <1>8, <1>12, <1>13, <1>14, <1>15, <1>16, <1>17, <1>18, <1>19 DEF IInv

\* The last step numbers the chunks; stuttering changes nothing.
LEMMA FinishStep ==
  ASSUME IInv, Finish
  PROVE  IInv' /\ total' # total
<1>1. total' # total /\ total' \in Nat /\ total' = Len(chunks)
  <2>1. chunks \in Seq(Chunk)
    BY DEF IInv, TypeOK
  <2> QED BY <2>1 DEF Finish
<1>2. TypeOK'
  BY <1>1 DEF Finish, IInv, TypeOK
<1> QED BY <1>1, <1>2 DEF Finish, IInv, Normalised, Position, WindowEnd, Reached, Covered,
                          FitAndOverlap, Onwards, Trimmed, Content

LEMMA StutterIInv ==
  ASSUME IInv, UNCHANGED vars
  PROVE  IInv'
BY DEF vars, IInv, TypeOK, Normalised, Position, WindowEnd, Reached, Covered,
       FitAndOverlap, Onwards, Trimmed, Content

LEMMA StepIInv == IInv /\ [Next]_vars => IInv'
  BY CutStep, FinishStep, StutterIInv DEF Next

LEMMA IInvImplies == IInv => TypeOK /\ NothingLost /\ ChunksNumbered
<1> SUFFICES ASSUME IInv PROVE TypeOK /\ NothingLost /\ ChunksNumbered
  OBVIOUS
<1>1. length \in Nat /\ start \in Nat /\ chunks \in Seq(Chunk)
  BY ChunkingAssumption DEF IInv, TypeOK
<1>2. total # -1 => Reached = length /\ total = Len(chunks)
  BY <1>1 DEF IInv, Position
<1>3. NothingLost
  BY <1>1, <1>2 DEF IInv, NothingLost, Covered
<1>4. total # -1 /\ length > 0 => chunks # <<>>
  BY <1>1, <1>2 DEF Reached
<1>5. chunks # <<>> => Len(chunks) > 0
  BY <1>1
<1>6. ChunksNumbered
  BY <1>2, <1>4, <1>5 DEF IInv, Trimmed, ChunksNumbered
<1> QED BY <1>3, <1>6 DEF IInv

\* The inductive invariant holds throughout.
THEOREM Invariance == Spec => []IInv
  BY InitIInv, StepIInv, PTL DEF Spec

\* The variables of chunk_text keep their types: start never becomes negative,
\* where Python would silently slice from the end of the text.
THEOREM TypeCorrect == Spec => []TypeOK
  BY Invariance, IInvImplies, PTL

\* No character of a file that is not white space is lost by chunking it.
THEOREM NothingIsLost == Spec => []NothingLost
  BY Invariance, IInvImplies, PTL

\* Chunks fit chunk_size and end one behind the other, and overlap as configured
\* but for the spaces that strip takes; boundaries are sought in the second half
\* of a window only, so a window twice as long as the overlap gets behind it.
THEOREM ChunksDoAdvance ==
  ASSUME 2 * ChunkOverlap < ChunkSize
  PROVE  Spec => []ChunksAdvance
<1>1. IInv => ChunksAdvance
  BY DEF IInv, FitAndOverlap, Onwards, ChunksAdvance
<1> QED BY Invariance, <1>1, PTL

\* chunk_index and total_chunks number the chunks, and strip left none empty.
THEOREM ChunksAreNumbered == Spec => []ChunksNumbered
  BY Invariance, IInvImplies, PTL

\* Every turn of the loop moves start on.
THEOREM LoopProgresses == Spec => Progress
<1>1. IInv /\ [Next]_vars => [total' = total => start' > start]_vars
  BY CutStep, FinishStep DEF Next
<1> QED BY Invariance, <1>1, PTL DEF Spec, Progress
==============================================================================
