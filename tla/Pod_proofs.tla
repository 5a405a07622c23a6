----------------------------- MODULE Pod_proofs -----------------------------
(***************************************************************************)
(* What the parts of a serving process keep, for every value of the        *)
(* constants: each part by an inductive invariant of its own, and the      *)
(* process because each of its behaviours is one of every part.  The       *)
(* stream's are proved in EventStream_proofs and only lifted here.         *)
(***************************************************************************)
EXTENDS Pod, EventStream_proofs, FiniteSetTheorems, SequenceTheorems

-----------------------------------------------------------------------------
(* The write buffer. *)

Distinct(s) == \A i, j \in 1..Len(s) : s[i] = s[j] => i = j

(* The sequences of the buffer, as sets of rows without repetition. *)
LEMMA RangeOfRows == ASSUME NEW S, NEW s \in Seq(S)
                     PROVE Range(s) = {s[i] : i \in 1..Len(s)} /\ Range(s) \subseteq S
BY RangeEquality, RangeOfSeq

LEMMA DistinctAppend ==
  ASSUME NEW S, NEW s \in Seq(S), NEW e \in S, Distinct(s), e \notin Range(s)
  PROVE  /\ Append(s, e) \in Seq(S) /\ Distinct(Append(s, e))
         /\ Range(Append(s, e)) = Range(s) \cup {e}
<1>1. /\ Append(s, e) \in Seq(S) /\ Len(Append(s, e)) = Len(s) + 1
      /\ \A i \in 1..Len(s) : Append(s, e)[i] = s[i]
      /\ Append(s, e)[Len(s) + 1] = e
  BY AppendProperties
<1>2. Len(s) \in Nat
  OBVIOUS
<1>3. 1..(Len(s) + 1) = (1..Len(s)) \cup {Len(s) + 1}
  BY <1>2
<1>4. Range(Append(s, e)) = Range(s) \cup {e}
  <2>1. Range(Append(s, e)) = {Append(s, e)[i] : i \in 1..(Len(s) + 1)}
    BY <1>1, RangeOfRows
  <2>2. Range(s) = {s[i] : i \in 1..Len(s)}
    BY RangeOfRows
  <2> QED BY <1>1, <1>3, <2>1, <2>2
<1>5. \A i \in 1..Len(s) : s[i] # e
  BY RangeOfRows
<1>6. Distinct(Append(s, e))
  BY <1>1, <1>3, <1>5 DEF Distinct
<1> QED BY <1>1, <1>4, <1>6

LEMMA DistinctConcat ==
  ASSUME NEW S, NEW s \in Seq(S), NEW t \in Seq(S), Distinct(s), Distinct(t),
         Range(s) \cap Range(t) = {}
  PROVE  /\ s \o t \in Seq(S) /\ Distinct(s \o t)
         /\ Range(s \o t) = Range(s) \cup Range(t)
<1>1. /\ s \o t \in Seq(S) /\ Len(s \o t) = Len(s) + Len(t)
      /\ \A i \in 1..Len(s) + Len(t) : (s \o t)[i] =
           IF i <= Len(s) THEN s[i] ELSE t[i - Len(s)]
  BY ConcatProperties
<1>2. Len(s) \in Nat /\ Len(t) \in Nat
  OBVIOUS
<1>3. \A i \in 1..Len(s), j \in 1..Len(t) : s[i] # t[j]
  BY RangeOfRows
<1>4. Distinct(s \o t)
  <2> SUFFICES ASSUME NEW i \in 1..Len(s) + Len(t), NEW j \in 1..Len(s) + Len(t),
                      (s \o t)[i] = (s \o t)[j]
               PROVE  i = j
    BY <1>1 DEF Distinct
  <2>1. CASE i <= Len(s) /\ j <= Len(s)
    BY <1>1, <1>2, <2>1 DEF Distinct
  <2>2. CASE i > Len(s) /\ j > Len(s)
    <3>1. i - Len(s) \in 1..Len(t) /\ j - Len(s) \in 1..Len(t)
      BY <1>2, <2>2
    <3>2. t[i - Len(s)] = t[j - Len(s)]
      BY <1>1, <1>2, <2>2
    <3>3. i - Len(s) = j - Len(s)
      BY <3>1, <3>2 DEF Distinct
    <3> QED BY <1>2, <3>3
  <2>3. CASE i <= Len(s) /\ j > Len(s)
    BY <1>1, <1>2, <1>3, <2>3
  <2>4. CASE i > Len(s) /\ j <= Len(s)
    BY <1>1, <1>2, <1>3, <2>4
  <2> QED BY <1>2, <2>1, <2>2, <2>3, <2>4
<1> QED BY <1>1, <1>4, RangeConcatenation

LEMMA DistinctSuffix ==
  ASSUME NEW S, NEW s \in Seq(S), NEW n \in Nat, Distinct(s), n <= Len(s)
  PROVE  LET t == SubSeq(s, n + 1, Len(s))
         IN  t \in Seq(S) /\ Distinct(t) /\ Range(t) \subseteq Range(s)
<1> DEFINE t == SubSeq(s, n + 1, Len(s))
<1>1. Len(s) \in Nat /\ \A i \in 1..Len(s) : s[i] \in S
  OBVIOUS
<1>2. /\ t \in Seq(S) /\ Len(t) = Len(s) - n
      /\ \A i \in 1..Len(s) - n : t[i] = s[n + i]
  <2>1. \A i \in (n + 1)..Len(s) : s[i] \in S
    BY <1>1
  <2>2. /\ t \in Seq(S)
        /\ Len(t) = IF n + 1 <= Len(s) THEN Len(s) - (n + 1) + 1 ELSE 0
        /\ \A i \in 1..Len(s) - (n + 1) + 1 : t[i] = s[n + 1 + i - 1]
    BY <1>1, <2>1, SubSeqProperties
  <2>3. Len(t) = Len(s) - n /\ Len(s) - (n + 1) + 1 = Len(s) - n
    BY <1>1, <2>2
  <2>4. \A i \in 1..Len(s) - n : n + 1 + i - 1 = n + i
    BY <1>1
  <2> QED BY <2>2, <2>3, <2>4
<1> HIDE DEF t
<1>3. \A i \in 1..Len(t) : n + i \in 1..Len(s)
  BY <1>1, <1>2
<1>4. Range(t) \subseteq Range(s)
  BY <1>2, <1>3, RangeOfRows
<1>5. Distinct(t)
  <2> SUFFICES ASSUME NEW i \in 1..Len(t), NEW j \in 1..Len(t), t[i] = t[j]
               PROVE  i = j
    BY DEF Distinct
  <2>1. s[n + i] = s[n + j]
    BY <1>2
  <2>2. n + i = n + j
    BY <1>3, <2>1 DEF Distinct
  <2> QED BY <2>2
<1> QED BY <1>2, <1>4, <1>5 DEF t

-----------------------------------------------------------------------------
(* The rows waiting are held once, in the buffer or in the one flush there  *)
(* is; and a row that enqueue has not given out is nowhere.                 *)
HeldOnce ==
  /\ Distinct(buf) /\ Distinct(batch)
  /\ Range(buf) \cap Range(batch) = {}
  /\ Range(buf) \cup Range(batch) \subseteq 1..accepted
  /\ \A r \in RowIds : r > accepted => written[r] = 0
OneFlush ==
  /\ ~Flushing => batch = <<>>
  /\ loop = "flush" => closing \in {"no", "wait"}
  /\ closing \in {"last", "flush", "shut"} => loop = "over"

BufferInv == BufferTypeOK /\ HeldOnce /\ OneFlush /\ RowsAccounted

LEMMA RowBounds ==
  /\ MaxRows \in Nat /\ MaxFailedFlushes \in Nat
  /\ ChunkSize \in Nat \ {0} /\ DropCount \in Nat \ {0} /\ Cap \in Nat \ {0}
  /\ DropCount <= Cap
BY BufferAssumption

LEMMA BufferInitInv == BufferInit => BufferInv
<1> SUFFICES ASSUME BufferInit PROVE BufferInv
  OBVIOUS
<1>1. Range(<<>>) = {} /\ Distinct(<<>>)
  BY DEF Range, Distinct
<1> QED
  BY <1>1, RowBounds DEF BufferInit, BufferInv, BufferTypeOK, HeldOnce, OneFlush, RowsAccounted,
                         RowIds, Flushing

(* Left is what the flush has not committed, Chunk what the next INSERT is  *)
(* to commit.                                                               *)
LEMMA LeftAndChunk ==
  ASSUME BufferInv
  PROVE  /\ Chunk \subseteq Left /\ Left \subseteq Range(batch)
         /\ Range(buf) \subseteq RowIds /\ Range(batch) \subseteq RowIds
         /\ Left \cap Range(buf) = {}
<1>1. Range(batch) = {batch[k] : k \in 1..Len(batch)} /\ Range(batch) \subseteq RowIds
  BY RangeOfRows DEF BufferInv, BufferTypeOK
<1>2. Range(buf) \subseteq RowIds
  BY RangeOfRows DEF BufferInv, BufferTypeOK
<1>3. done \in Nat /\ Len(batch) \in Nat
  BY DEF BufferInv, BufferTypeOK
<1>4. (done + 1)..Len(batch) \subseteq 1..Len(batch)
  BY <1>3
<1>5. \A j \in 1..Len(batch) : done < j => j \in (done + 1)..Len(batch)
  BY <1>3
<1>6. Left \subseteq Range(batch)
  BY <1>1, <1>4 DEF Left
<1>7. Chunk \subseteq Left
  BY <1>5 DEF Chunk, Left
<1> QED BY <1>1, <1>2, <1>6, <1>7 DEF BufferInv, HeldOnce

(* After a commit the rest is left. *)
LEMMA LeftAfterChunk ==
  ASSUME BufferInv
  PROVE  /\ done + ChunkSize < Len(batch) =>
              {batch[k] : k \in (done + ChunkSize + 1)..Len(batch)} = Left \ Chunk
         /\ ~(done + ChunkSize < Len(batch)) => Chunk = Left
<1>1. done \in Nat /\ Len(batch) \in Nat /\ ChunkSize \in Nat
  BY RowBounds DEF BufferInv, BufferTypeOK
<1>2. \A i, j \in 1..Len(batch) : batch[i] = batch[j] => i = j
  BY DEF BufferInv, HeldOnce, Distinct
<1>3. ~(done + ChunkSize < Len(batch)) => Chunk = Left
  <2> SUFFICES ASSUME ~(done + ChunkSize < Len(batch)) PROVE Left \subseteq Chunk
    BY LeftAndChunk
  <2>1. \A k \in (done + 1)..Len(batch) :
          k \in {j \in 1..Len(batch) : done < j /\ j <= done + ChunkSize}
    BY <1>1
  <2> QED BY <2>1 DEF Left, Chunk
<1>4. {batch[k] : k \in (done + ChunkSize + 1)..Len(batch)} = Left \ Chunk
  <2>1. \A k \in 1..Len(batch) :
          /\ k \in (done + ChunkSize + 1)..Len(batch) => k \in (done + 1)..Len(batch)
          /\ k \in (done + ChunkSize + 1)..Len(batch) <=> (done < k /\ ~(k <= done + ChunkSize))
          /\ k \in (done + 1)..Len(batch) <=> done < k
    BY <1>1
  <2>2. /\ (done + ChunkSize + 1)..Len(batch) \subseteq 1..Len(batch)
        /\ (done + 1)..Len(batch) \subseteq 1..Len(batch)
    BY <1>1
  <2> DEFINE Late == (done + ChunkSize + 1)..Len(batch)
             Rest == (done + 1)..Len(batch)
             Now  == {j \in 1..Len(batch) : done < j /\ j <= done + ChunkSize}
  <2>3. Late = Rest \ Now /\ Now \subseteq 1..Len(batch) /\ Rest \subseteq 1..Len(batch)
    BY <2>1, <2>2
  <2>4. Left = {batch[k] : k \in Rest} /\ Chunk = {batch[k] : k \in Now}
    BY DEF Left, Chunk
  <2> HIDE DEF Late, Rest, Now
  <2>5. ASSUME NEW x, x \in {batch[k] : k \in Late} PROVE x \in Left \ Chunk
    <3>1. PICK k \in Late : x = batch[k]
      BY <2>5
    <3>2. k \in 1..Len(batch) /\ k \in Rest /\ k \notin Now
      BY <2>3
    <3>3. ASSUME x \in Chunk PROVE FALSE
      <4>1. PICK j \in Now : x = batch[j]
        BY <2>4, <3>3
      <4>2. j \in 1..Len(batch)
        BY <2>3
      <4> QED BY <1>2, <3>1, <3>2, <4>1, <4>2
    <3> QED BY <2>4, <3>1, <3>2, <3>3
  <2>6. ASSUME NEW x, x \in Left \ Chunk PROVE x \in {batch[k] : k \in Late}
    BY <2>3, <2>4, <2>6
  <2>7. {batch[k] : k \in Late} = Left \ Chunk
    BY <2>5, <2>6
  <2> QED BY <2>7 DEF Late
<1> QED BY <1>3, <1>4

(* Rows of rs committed once more. *)
LEMMA InsertedOnce ==
  ASSUME BufferInv, NEW rs \in SUBSET RowIds, written' = Inserted(rs)
  PROVE  /\ written' \in [RowIds -> Nat]
         /\ \A r \in RowIds : written'[r] = written[r] + (IF r \in rs THEN 1 ELSE 0)
BY DEF BufferInv, BufferTypeOK, Inserted

LEMMA FlushOverStep ==
  ASSUME BufferInv, Flushing, FlushOver
  PROVE  /\ ~Flushing'
         /\ loop' \in {"sleep", "flush", "over"}
         /\ closing' \in {"no", "wait", "last", "flush", "shut"}
         /\ loop' = "flush" => closing' \in {"no", "wait"}
         /\ closing' \in {"last", "flush", "shut"} => loop' = "over"
BY DEF BufferInv, BufferTypeOK, OneFlush, Flushing, FlushOver

(* What a flush takes waits in it. *)
LEMMA TakeStep ==
  ASSUME BufferInv, batch = <<>>, Take
  PROVE  /\ buf' \in Seq(RowIds) /\ batch' \in Seq(RowIds) /\ done' \in Nat
         /\ HeldOnce' /\ RowsAccounted'
<1>1. /\ batch' = buf /\ done' = 0 /\ buf' = <<>>
      /\ UNCHANGED <<accepted, written, dropped, cut, failures>>
  BY DEF Take
<1>2. Range(<<>>) = {} /\ Distinct(<<>>)
  BY DEF Range, Distinct
<1>3. Left' = Range(buf)
  <2>1. Range(buf) = {buf[k] : k \in 1..Len(buf)}
    BY RangeOfRows DEF BufferInv, BufferTypeOK
  <2> QED BY <1>1, <2>1 DEF Left
<1>4. Left = {}
  BY <1>2, LeftAndChunk
<1>5. Waiting' = Waiting
  BY <1>1, <1>2, <1>3, <1>4 DEF Waiting
<1>6. RowsAccounted'
  BY <1>1, <1>5 DEF RowsAccounted, BufferInv
<1>7. HeldOnce'
  BY <1>1, <1>2 DEF HeldOnce, BufferInv
<1> QED BY <1>1, <1>6, <1>7 DEF BufferInv, BufferTypeOK

LEMMA EnqueueStep == BufferInv /\ Enqueue => BufferInv'
<1> SUFFICES ASSUME BufferInv, Enqueue PROVE BufferInv'
  OBVIOUS
<1> DEFINE kept == IF Len(buf) < Cap THEN buf ELSE SubSeq(buf, DropCount + 1, Len(buf))
           fresh == accepted + 1
<1>1. /\ accepted < MaxRows /\ accepted' = fresh /\ buf' = Append(kept, fresh)
      /\ dropped' = dropped \cup (Range(buf) \ Range(kept))
      /\ UNCHANGED <<batch, done, written, cut, loop, closing, failures>>
  BY DEF Enqueue
<1>2. kept \in Seq(RowIds) /\ Distinct(kept) /\ Range(kept) \subseteq Range(buf)
  <2>1. buf \in Seq(RowIds) /\ Distinct(buf) /\ Len(buf) \in Nat
    BY DEF BufferInv, BufferTypeOK, HeldOnce
  <2>2. CASE Len(buf) < Cap
    BY <2>1, <2>2
  <2>3. CASE ~(Len(buf) < Cap)
    <3>1. DropCount \in Nat /\ DropCount <= Len(buf)
      BY <2>1, <2>3, RowBounds
    <3> QED BY <2>1, <2>3, <3>1, DistinctSuffix
  <2> QED BY <2>2, <2>3
<1> HIDE DEF kept
<1>3. /\ accepted \in 0..MaxRows /\ fresh \in RowIds /\ fresh \notin 1..accepted
      /\ 1..fresh = (1..accepted) \cup {fresh}
  BY <1>1, RowBounds DEF RowIds, BufferInv, BufferTypeOK
<1>4. fresh \notin Range(buf) \cup Range(batch)
  BY <1>3 DEF BufferInv, HeldOnce
<1>5. buf' \in Seq(RowIds) /\ Distinct(buf') /\ Range(buf') = Range(kept) \cup {fresh}
  BY <1>1, <1>2, <1>3, <1>4, DistinctAppend
<1>6. Left' = Left
  BY <1>1 DEF Left
<1>7. BufferTypeOK'
  <2>1. Range(buf) \subseteq RowIds
    BY LeftAndChunk
  <2>2. dropped' \subseteq RowIds
    BY <1>1, <2>1 DEF BufferInv, BufferTypeOK
  <2>3. accepted' \in 0..MaxRows
    BY <1>1, <1>3, RowBounds
  <2> QED BY <1>1, <1>5, <2>2, <2>3 DEF BufferInv, BufferTypeOK
<1>8. HeldOnce'
  <2>1. \A r \in RowIds : r > fresh => r > accepted
    BY <1>3 DEF RowIds
  <2>2. Distinct(batch') /\ Range(buf') \cap Range(batch') = {}
    BY <1>1, <1>2, <1>4, <1>5 DEF BufferInv, HeldOnce
  <2>3. Range(buf') \cup Range(batch') \subseteq 1..fresh
    BY <1>1, <1>2, <1>3, <1>5 DEF BufferInv, HeldOnce
  <2> QED BY <1>1, <1>5, <2>1, <2>2, <2>3 DEF BufferInv, HeldOnce
<1>9. OneFlush'
  BY <1>1 DEF BufferInv, OneFlush, Flushing
<1>10. RowsAccounted'
  <2>1. written[fresh] = 0 /\ failures \in Nat
    <3>1. fresh > accepted
      BY <1>3
    <3> QED BY <1>3, <3>1, RowBounds DEF BufferInv, BufferTypeOK, HeldOnce
  <2>2. Waiting' = Range(kept) \cup {fresh} \cup Left /\ Waiting = Range(buf) \cup Left
    BY <1>5, <1>6 DEF Waiting
  <2>3. fresh \in Waiting'
    BY <2>2
  <2>4. ASSUME NEW r \in 1..accepted
        PROVE  /\ written[r] > 0 \/ r \in (Waiting \cup dropped \cup cut)'
               /\ written[r] + (IF r \in Waiting' THEN 1 ELSE 0) <= 1 + failures
    <3>1. r # fresh /\ r \in RowIds
      BY <1>3, RowBounds DEF RowIds
    <3>2. /\ written[r] > 0 \/ r \in Waiting \cup dropped \cup cut
          /\ written[r] + (IF r \in Waiting THEN 1 ELSE 0) <= 1 + failures
      BY <2>4 DEF BufferInv, RowsAccounted
    <3>3. r \in Waiting' => r \in Waiting
      BY <1>2, <2>2, <3>1
    <3>4. r \in Waiting \cup dropped \cup cut => r \in (Waiting \cup dropped \cup cut)'
      BY <1>1, <2>2
    <3>5. written[r] \in Nat
      BY <3>1 DEF BufferInv, BufferTypeOK
    <3> QED BY <2>1, <3>2, <3>3, <3>4, <3>5
  <2>5. ASSUME NEW r \in 1..fresh
        PROVE  /\ written[r] > 0 \/ r \in (Waiting \cup dropped \cup cut)'
               /\ written[r] + (IF r \in Waiting' THEN 1 ELSE 0) <= 1 + failures
    <3>1. CASE r = fresh
      BY <2>1, <2>3, <3>1
    <3>2. CASE r \in 1..accepted
      BY <2>4, <3>2
    <3> QED BY <1>3, <3>1, <3>2
  <2> QED BY <1>1, <2>5 DEF RowsAccounted
<1> QED BY <1>7, <1>8, <1>9, <1>10 DEF BufferInv

(* The rows of one INSERT are committed: they are not left any more. *)
LEMMA InsertStep == BufferInv /\ InsertChunk => BufferInv'
<1> SUFFICES ASSUME BufferInv, InsertChunk PROVE BufferInv'
  OBVIOUS
<1>1. /\ Flushing /\ written' = Inserted(Chunk)
      /\ UNCHANGED <<accepted, buf, dropped, cut, failures>>
  BY DEF InsertChunk
<1>2. Chunk \in SUBSET RowIds /\ Chunk \subseteq Left /\ Left \cap Range(buf) = {}
  BY LeftAndChunk
<1>3. /\ written' \in [RowIds -> Nat]
      /\ \A r \in RowIds : written'[r] = written[r] + (IF r \in Chunk THEN 1 ELSE 0)
  BY <1>1, <1>2, InsertedOnce
<1>4. /\ Left' = Left \ Chunk
      /\ batch' \in Seq(RowIds) /\ done' \in Nat
      /\ Distinct(batch') /\ Range(batch') \subseteq Range(batch)
      /\ loop' \in {"sleep", "flush", "over"}
      /\ closing' \in {"no", "wait", "last", "flush", "shut"}
      /\ OneFlush'
  <2>1. CASE done + ChunkSize < Len(batch)
    <3>1. done' = done + ChunkSize /\ UNCHANGED <<batch, loop, closing>>
      BY <2>1 DEF InsertChunk
    <3>2. Left' = {batch[k] : k \in (done + ChunkSize + 1)..Len(batch)}
      BY <3>1 DEF Left
    <3>3. Left' = Left \ Chunk
      BY <2>1, <3>2, LeftAfterChunk
    <3>4. done' \in Nat
      BY <3>1, RowBounds DEF BufferInv, BufferTypeOK
    <3>5. OneFlush'
      BY <3>1 DEF BufferInv, OneFlush, Flushing
    <3> QED BY <3>1, <3>3, <3>4, <3>5 DEF BufferInv, BufferTypeOK, HeldOnce
  <2>2. CASE ~(done + ChunkSize < Len(batch))
    <3>1. batch' = <<>> /\ done' = 0 /\ FlushOver
      BY <2>2 DEF InsertChunk
    <3>2. Left' = {} /\ Range(<<>>) = {} /\ Distinct(<<>>)
      BY <3>1 DEF Left, Range, Distinct
    <3>3. Left \ Chunk = {}
      BY <2>2, LeftAfterChunk
    <3>4. OneFlush'
      BY <1>1, <3>1, FlushOverStep DEF OneFlush
    <3> QED BY <1>1, <3>1, <3>2, <3>3, <3>4, FlushOverStep
  <2> QED BY <2>1, <2>2
<1>5. BufferTypeOK'
  BY <1>1, <1>3, <1>4 DEF BufferInv, BufferTypeOK
<1>6. HeldOnce'
  <2>1. ASSUME NEW r \in RowIds, r > accepted PROVE written'[r] = 0
    <3>1. r \notin 1..accepted
      BY <2>1 DEF BufferInv, BufferTypeOK, RowIds
    <3>2. r \notin Chunk
      BY <1>2, <3>1, LeftAndChunk DEF BufferInv, HeldOnce
    <3> QED BY <1>3, <2>1, <3>2 DEF BufferInv, BufferTypeOK, HeldOnce
  <2> QED BY <1>1, <1>4, <2>1 DEF BufferInv, HeldOnce
<1>7. RowsAccounted'
  <2> SUFFICES ASSUME NEW r \in 1..accepted
               PROVE  /\ written'[r] > 0 \/ r \in (Waiting \cup dropped \cup cut)'
                      /\ written'[r] + (IF r \in Waiting' THEN 1 ELSE 0) <= 1 + failures
    BY <1>1 DEF RowsAccounted
  <2>1. r \in RowIds
    BY RowBounds DEF BufferInv, BufferTypeOK, RowIds
  <2>2. /\ written[r] > 0 \/ r \in Waiting \cup dropped \cup cut
        /\ written[r] + (IF r \in Waiting THEN 1 ELSE 0) <= 1 + failures
        /\ written[r] \in Nat /\ failures \in Nat
    BY <2>1, RowBounds DEF BufferInv, BufferTypeOK, RowsAccounted
  <2>3. Waiting' = Range(buf) \cup (Left \ Chunk) /\ Waiting = Range(buf) \cup Left
    BY <1>1, <1>4 DEF Waiting
  <2>4. CASE r \in Chunk
    <3>1. r \notin Waiting' /\ r \in Waiting
      BY <1>2, <2>3, <2>4
    <3> QED BY <1>3, <2>1, <2>2, <2>4, <3>1
  <2>5. CASE r \notin Chunk
    <3>1. r \in Waiting' <=> r \in Waiting
      BY <2>3, <2>5
    <3> QED BY <1>1, <1>3, <2>1, <2>2, <2>5, <3>1
  <2> QED BY <2>4, <2>5
<1> QED BY <1>4, <1>5, <1>6, <1>7 DEF BufferInv

(* The whole batch goes back, the committed rows of it included: they are   *)
(* what a failure may add to the table once more.                           *)
LEMMA FailStep == BufferInv /\ InsertFails => BufferInv'
<1> SUFFICES ASSUME BufferInv, InsertFails PROVE BufferInv'
  OBVIOUS
<1>1. PICK rs \in {{}, Chunk} : written' = Inserted(rs)
  BY DEF InsertFails
<1>2. /\ Flushing /\ FlushOver
      /\ failures < MaxFailedFlushes /\ failures' = failures + 1
      /\ buf' = batch \o buf /\ batch' = <<>> /\ done' = 0
      /\ UNCHANGED <<accepted, dropped, cut>>
  BY DEF InsertFails
<1>3. /\ rs \in SUBSET RowIds /\ rs \subseteq Left /\ Left \subseteq Range(batch)
      /\ Range(batch) \cap Range(buf) = {}
  BY LeftAndChunk DEF BufferInv, HeldOnce
<1>4. /\ written' \in [RowIds -> Nat]
      /\ \A r \in RowIds : written'[r] = written[r] + (IF r \in rs THEN 1 ELSE 0)
  BY <1>1, <1>3, InsertedOnce
<1>5. /\ buf' \in Seq(RowIds) /\ Distinct(buf')
      /\ Range(buf') = Range(batch) \cup Range(buf)
  BY <1>2, <1>3, DistinctConcat DEF BufferInv, BufferTypeOK, HeldOnce
<1>6. Left' = {} /\ Range(<<>>) = {} /\ Distinct(<<>>)
  BY <1>2 DEF Left, Range, Distinct
<1>7. Waiting' = Range(batch) \cup Range(buf)
  BY <1>5, <1>6 DEF Waiting
<1>8. failures \in Nat /\ failures' \in 0..MaxFailedFlushes
  BY <1>2, RowBounds DEF BufferInv, BufferTypeOK
<1>9. BufferTypeOK'
  BY <1>2, <1>4, <1>5, <1>8, FlushOverStep DEF BufferInv, BufferTypeOK
<1>10. OneFlush'
  BY <1>2, FlushOverStep DEF OneFlush
<1>11. HeldOnce'
  <2>1. ASSUME NEW r \in RowIds, r > accepted PROVE written'[r] = 0
    <3>1. r \notin 1..accepted
      BY <2>1 DEF BufferInv, BufferTypeOK, RowIds
    <3>2. r \notin rs
      BY <1>3, <3>1 DEF BufferInv, HeldOnce
    <3> QED BY <1>4, <2>1, <3>2 DEF BufferInv, BufferTypeOK, HeldOnce
  <2> QED BY <1>2, <1>5, <1>6, <2>1 DEF BufferInv, HeldOnce
<1>12. RowsAccounted'
  <2> SUFFICES ASSUME NEW r \in 1..accepted
               PROVE  /\ written'[r] > 0 \/ r \in (Waiting \cup dropped \cup cut)'
                      /\ written'[r] + (IF r \in Waiting' THEN 1 ELSE 0) <= 1 + failures'
    BY <1>2 DEF RowsAccounted
  <2>1. r \in RowIds
    BY RowBounds DEF BufferInv, BufferTypeOK, RowIds
  <2>2. /\ written[r] > 0 \/ r \in Waiting \cup dropped \cup cut
        /\ written[r] + (IF r \in Waiting THEN 1 ELSE 0) <= 1 + failures
        /\ written[r] \in Nat
    BY <2>1 DEF BufferInv, BufferTypeOK, RowsAccounted
  <2>3. Waiting = Range(buf) \cup Left
    BY DEF Waiting
  <2>4. r \in Waiting => r \in Waiting'
    BY <1>3, <1>7, <2>3
  <2>5. r \in rs => r \in Waiting
    BY <1>3, <2>3
  <2>6. written'[r] <= 1 + failures /\ written'[r] >= written[r] /\ written'[r] \in Nat
    BY <1>4, <1>8, <2>1, <2>2, <2>5
  <2>7. written'[r] > 0 \/ r \in (Waiting \cup dropped \cup cut)'
    BY <1>2, <2>2, <2>4, <2>6
  <2>8. written'[r] + (IF r \in Waiting' THEN 1 ELSE 0) <= 1 + failures'
    BY <1>2, <1>8, <2>6
  <2> QED BY <2>7, <2>8
<1> QED BY <1>9, <1>10, <1>11, <1>12 DEF BufferInv

(* close() cancels a flush: what it has not committed is cut. *)
LEMMA TimeoutStep == BufferInv /\ TimesOut => BufferInv'
<1> SUFFICES ASSUME BufferInv, TimesOut PROVE BufferInv'
  OBVIOUS
<1>1. PICK rs \in {{}, Chunk} : written' = Inserted(rs)
  BY DEF TimesOut
<1>2. /\ closing = "wait" /\ loop = "flush"
      /\ cut' = cut \cup Left /\ batch' = <<>> /\ done' = 0
      /\ loop' = "over" /\ closing' = "last"
      /\ UNCHANGED <<accepted, buf, dropped, failures>>
  BY DEF TimesOut
<1>3. /\ rs \in SUBSET RowIds /\ rs \subseteq Left /\ Left \subseteq Range(batch)
      /\ Left \cap Range(buf) = {} /\ Range(batch) \subseteq RowIds
  BY LeftAndChunk
<1>4. /\ written' \in [RowIds -> Nat]
      /\ \A r \in RowIds : written'[r] = written[r] + (IF r \in rs THEN 1 ELSE 0)
  BY <1>1, <1>3, InsertedOnce
<1>5. Left' = {} /\ Range(<<>>) = {} /\ Distinct(<<>>)
  BY <1>2 DEF Left, Range, Distinct
<1>6. BufferTypeOK'
  BY <1>2, <1>3, <1>4 DEF BufferInv, BufferTypeOK
<1>7. OneFlush'
  BY <1>2 DEF OneFlush, Flushing
<1>8. HeldOnce'
  <2>1. ASSUME NEW r \in RowIds, r > accepted PROVE written'[r] = 0
    <3>1. r \notin 1..accepted
      BY <2>1 DEF BufferInv, BufferTypeOK, RowIds
    <3>2. r \notin rs
      BY <1>3, <3>1 DEF BufferInv, HeldOnce
    <3> QED BY <1>4, <2>1, <3>2 DEF BufferInv, BufferTypeOK, HeldOnce
  <2> QED BY <1>2, <1>5, <2>1 DEF BufferInv, HeldOnce
<1>9. RowsAccounted'
  <2> SUFFICES ASSUME NEW r \in 1..accepted
               PROVE  /\ written'[r] > 0 \/ r \in (Waiting \cup dropped \cup cut)'
                      /\ written'[r] + (IF r \in Waiting' THEN 1 ELSE 0) <= 1 + failures
    BY <1>2 DEF RowsAccounted
  <2>1. r \in RowIds
    BY RowBounds DEF BufferInv, BufferTypeOK, RowIds
  <2>2. /\ written[r] > 0 \/ r \in Waiting \cup dropped \cup cut
        /\ written[r] + (IF r \in Waiting THEN 1 ELSE 0) <= 1 + failures
        /\ written[r] \in Nat /\ failures \in Nat
    BY <2>1, RowBounds DEF BufferInv, BufferTypeOK, RowsAccounted
  <2>3. Waiting' = Range(buf) /\ Waiting = Range(buf) \cup Left
    BY <1>2, <1>5 DEF Waiting
  <2>4. r \in Left => r \in Waiting /\ r \notin Waiting' /\ r \in cut'
    BY <1>2, <1>3, <2>3
  <2>5. r \notin Left => (r \in Waiting' <=> r \in Waiting)
    BY <2>3
  <2>6. r \in rs => r \in Left
    BY <1>3
  <2>7. CASE r \in Left
    BY <1>4, <2>1, <2>2, <2>4, <2>7
  <2>8. CASE r \notin Left
    <3>1. written'[r] = written[r]
      BY <1>4, <2>1, <2>2, <2>6, <2>8
    <3> QED BY <1>2, <2>2, <2>5, <2>8, <3>1
  <2> QED BY <2>7, <2>8
<1> QED BY <1>6, <1>7, <1>8, <1>9 DEF BufferInv

(* Only the flags of the task and of close() change. *)
LEMMA IdleStep ==
  ASSUME BufferInv, UNCHANGED <<accepted, buf, batch, done, written, dropped, cut, failures>>,
         loop' \in {"sleep", "flush", "over"},
         closing' \in {"no", "wait", "last", "flush", "shut"},
         OneFlush'
  PROVE  BufferInv'
BY DEF BufferInv, BufferTypeOK, HeldOnce, RowsAccounted, Waiting, Left

LEMMA BufferStepInv == BufferInv /\ [BufferNext]_bufferVars => BufferInv'
<1> SUFFICES ASSUME BufferInv, [BufferNext]_bufferVars PROVE BufferInv'
  OBVIOUS
<1>1. CASE Wake
  <2>1. loop = "sleep" /\ UNCHANGED closing /\ batch = <<>>
    BY <1>1 DEF Wake, BufferInv, OneFlush, Flushing, BufferTypeOK
  <2>2. CASE buf = <<>>
    BY <1>1, <2>1, <2>2, IdleStep DEF Wake, BufferInv, OneFlush, Flushing, BufferTypeOK
  <2>3. CASE buf # <<>>
    <3>1. loop' = "flush" /\ Take
      BY <1>1, <2>3 DEF Wake
    <3>2. UNCHANGED <<accepted, written, dropped, cut, failures>>
      BY <3>1 DEF Take
    <3>3. OneFlush' /\ BufferTypeOK'
      BY <2>1, <3>1, <3>2, TakeStep DEF BufferInv, BufferTypeOK, OneFlush, Flushing
    <3> QED BY <2>1, <3>1, <3>3, TakeStep DEF BufferInv
  <2> QED BY <2>2, <2>3
<1>2. CASE LastFlush
  <2>1. closing = "last" /\ UNCHANGED loop /\ loop = "over" /\ batch = <<>>
    BY <1>2 DEF LastFlush, BufferInv, OneFlush, Flushing, BufferTypeOK
  <2>2. CASE buf = <<>>
    BY <1>2, <2>1, <2>2, IdleStep DEF LastFlush, BufferInv, OneFlush, Flushing, BufferTypeOK
  <2>3. CASE buf # <<>>
    <3>1. closing' = "flush" /\ Take
      BY <1>2, <2>3 DEF LastFlush
    <3>2. UNCHANGED <<accepted, written, dropped, cut, failures>>
      BY <3>1 DEF Take
    <3>3. OneFlush' /\ BufferTypeOK'
      BY <2>1, <3>1, <3>2, TakeStep DEF BufferInv, BufferTypeOK, OneFlush, Flushing
    <3> QED BY <2>1, <3>1, <3>3, TakeStep DEF BufferInv
  <2> QED BY <2>2, <2>3
<1>3. CASE CloseBegins
  BY <1>3, IdleStep DEF CloseBegins, BufferInv, OneFlush, Flushing, BufferTypeOK
<1>4. CASE TaskEnded
  BY <1>4, IdleStep DEF TaskEnded, BufferInv, OneFlush, Flushing, BufferTypeOK
<1>5. CASE UNCHANGED bufferVars
  BY <1>5, IdleStep DEF bufferVars, BufferInv, OneFlush, Flushing, BufferTypeOK
<1> QED
  BY <1>1, <1>2, <1>3, <1>4, <1>5, EnqueueStep, InsertStep, FailStep, TimeoutStep
     DEF BufferNext, Drain

(* RowsAccounted, for any cap, any sizes of chunks and batches and any      *)
(* failures.                                                               *)
THEOREM RowsStayAccounted == BufferSpec => [](BufferTypeOK /\ RowsAccounted)
<1>1. BufferInv => BufferTypeOK /\ RowsAccounted
  BY DEF BufferInv
<1> QED BY <1>1, BufferInitInv, BufferStepInv, PTL DEF BufferSpec

-----------------------------------------------------------------------------
(* The tool cache. *)

(* What a purge needs of the index: every key of the store is listed under  *)
(* its own tool, though not every listed key is in the store.               *)
CacheInv ==
  /\ store = [k \in DOMAIN store |-> store[k]]
  /\ DOMAIN store \subseteq Keys
  /\ \A k \in DOMAIN store : store[k] \in [late : BOOLEAN, epoch : Nat]
  /\ listed \in [Tools -> SUBSET Keys]
  /\ busy \in [Callers -> Keys \cup {Idle}]
  /\ purged \in [Tools -> Nat]
  /\ \A k \in DOMAIN store : k \in listed[Tool(k)]
  /\ PurgeReaches

LEMMA ToolOfKey == \A k \in Keys : Tool(k) \in Tools
BY DEF Keys, Tool

LEMMA CacheInitInv == CacheInit => CacheInv
BY DEF CacheInit, CacheInv, PurgeReaches

LEMMA CacheStepInv == CacheInv /\ [CacheNext]_cacheVars => CacheInv'
<1> SUFFICES ASSUME CacheInv, [CacheNext]_cacheVars
             PROVE  CacheInv'
  OBVIOUS
<1> USE DEF CacheInv, PurgeReaches
<1>1. ASSUME NEW c \in Callers, NEW k \in Keys, Hit(c, k) PROVE CacheInv'
  BY <1>1 DEF Hit
<1>2. ASSUME NEW c \in Callers, NEW k \in Keys, Miss(c, k) PROVE CacheInv'
  BY <1>2 DEF Miss, Without
<1>3. ASSUME NEW c \in Callers, Answer(c) PROVE CacheInv'
  <2> DEFINE k == busy[c]
  <2>1. k \in Keys /\ Tool(k) \in Tools
    BY <1>3, ToolOfKey DEF Answer
  <2>2. PICK evicted :
          /\ store' = [j \in (DOMAIN store \cup {k}) \ evicted |->
                         IF j = k THEN [late |-> FALSE, epoch |-> purged[Tool(k)]]
                                  ELSE store[j]]
          /\ listed' = [t \in Tools |->
                         (listed[t] \cup (IF t = Tool(k) THEN {k} ELSE {})) \ evicted]
    BY <1>3 DEF Answer, Put
  <2>3. UNCHANGED purged /\ busy' \in [Callers -> Keys \cup {Idle}]
    BY <1>3 DEF Answer
  <2>4. DOMAIN store' = (DOMAIN store \cup {k}) \ evicted
    BY <2>2
  <2>5. listed' \in [Tools -> SUBSET Keys]
    BY <2>1, <2>2
  <2>6. ASSUME NEW j \in DOMAIN store'
        PROVE  /\ j \in Keys /\ store'[j] \in [late : BOOLEAN, epoch : Nat]
               /\ j \in listed'[Tool(j)]
               /\ store'[j].epoch = purged[Tool(j)]
    <3>1. CASE j = k
      BY <2>1, <2>2, <2>4, <2>6, <3>1
    <3>2. CASE j # k
      <4>1. j \in DOMAIN store /\ j \notin evicted /\ store'[j] = store[j]
        BY <2>2, <2>4, <2>6, <3>2
      <4>2. Tool(j) \in Tools
        BY <4>1, ToolOfKey
      <4> QED BY <2>2, <4>1, <4>2
    <3> QED BY <3>1, <3>2
  <2>7. store' = [j \in DOMAIN store' |-> store'[j]]
    BY <2>2
  <2> QED BY <2>3, <2>5, <2>6, <2>7
<1>4. ASSUME NEW c \in Callers, NotKept(c) PROVE CacheInv'
  BY <1>4 DEF NotKept
<1>5. ASSUME NEW k \in Keys, Expire(k) PROVE CacheInv'
  <2>1. /\ DOMAIN store' = DOMAIN store
        /\ store' = [j \in DOMAIN store' |-> store'[j]]
        /\ UNCHANGED <<listed, busy, purged>>
    BY <1>5 DEF Expire
  <2>2. ASSUME NEW j \in DOMAIN store
        PROVE  /\ store'[j] \in [late : BOOLEAN, epoch : Nat]
               /\ store'[j].epoch = store[j].epoch
    <3>1. store[j] \in [late : BOOLEAN, epoch : Nat]
      BY <2>2
    <3>2. store'[j] = IF j = k THEN [store[j] EXCEPT !.late = TRUE] ELSE store[j]
      BY <1>5, <2>2 DEF Expire
    <3> QED BY <3>1, <3>2
  <2> QED BY <2>1, <2>2
<1>6. ASSUME NEW t \in Tools, PurgeTool(t) PROVE CacheInv'
  <2>1. /\ store' = [j \in DOMAIN store \ listed[t] |-> store[j]]
        /\ purged' = [purged EXCEPT ![t] = @ + 1]
        /\ listed' = [listed EXCEPT ![t] = {}]
        /\ UNCHANGED busy
    BY <1>6 DEF PurgeTool, Without
  <2>2. ASSUME NEW j \in DOMAIN store'
        PROVE  /\ j \in DOMAIN store /\ store'[j] = store[j]
               /\ Tool(j) # t /\ Tool(j) \in Tools
    BY <2>1, <2>2, ToolOfKey
  <2> QED BY <2>1, <2>2
<1>7. CASE PurgeAll
  BY <1>7 DEF PurgeAll
<1>8. CASE UNCHANGED cacheVars
  BY <1>8 DEF cacheVars
<1> QED BY <1>1, <1>2, <1>3, <1>4, <1>5, <1>6, <1>7, <1>8 DEF CacheNext

(* PurgeReaches, for any tools, arguments, callers and size of the store.  *)
THEOREM PurgesReach == CacheSpec => []PurgeReaches
<1>1. CacheInv => PurgeReaches
  BY DEF CacheInv
<1> QED BY <1>1, CacheInitInv, CacheStepInv, PTL DEF CacheSpec

-----------------------------------------------------------------------------
(* The moderation of corrections. *)

(* What an approval under way may rely on when it resolves: the row exists, *)
(* a rejection that came in between is noted, and the chunk it injected is  *)
(* live or was displaced.                                                   *)
DeskInv ==
  \A o \in Operators : desk[o] # Free =>
    /\ ruling[desk[o].c] \in {"pending", "approved", "rejected"}
    /\ ruling[desk[o].c] = "rejected" => desk[o].c \in crossed
    /\ desk[o].at = "resolve" =>
         chunk[Slot(desk[o].c)] = desk[o].c \/ desk[o].c \in displaced

ReviewInv == ReviewTypeOK /\ DeskInv /\ ReviewDecides

LEMMA SlotOfCorrection == \A c \in Corrections : Slot(c) \in Slots
BY DEF Corrections, Slot

LEMMA ReviewInitInv == ReviewInit => ReviewInv
BY ReviewAssumption, SlotOfCorrection
   DEF ReviewInit, ReviewInv, ReviewTypeOK, DeskInv, ReviewDecides, Free, Handling

(* The work of a desk: what it is on, and what taking it off leaves. *)
LEMMA DeskWork ==
  ASSUME ReviewTypeOK, NEW o \in Operators, desk[o] # Free
  PROVE  /\ desk[o] \in [c : Corrections, at : {"inject", "resolve"}]
         /\ desk[o] = [c |-> desk[o].c, at |-> desk[o].at]
         /\ desk[o].c \in Corrections /\ Slot(desk[o].c) \in Slots
         /\ desk[o].c # Nobody
BY SlotOfCorrection, ReviewAssumption DEF ReviewTypeOK

LEMMA ReviewStepInv == ReviewInv /\ [ReviewNext]_reviewVars => ReviewInv'
<1> SUFFICES ASSUME ReviewInv, [ReviewNext]_reviewVars
             PROVE  ReviewInv'
  OBVIOUS
<1> USE DEF ReviewInv
<1>1. ASSUME NEW c \in Corrections, Submit(c) PROVE ReviewInv'
  BY <1>1, SlotOfCorrection, ReviewAssumption
     DEF Submit, ReviewTypeOK, DeskInv, ReviewDecides, Handling
<1>2. ASSUME NEW o \in Operators, NEW c \in Corrections, OpenApproval(o, c) PROVE ReviewInv'
  BY <1>2, SlotOfCorrection, ReviewAssumption
     DEF OpenApproval, ReviewTypeOK, DeskInv, ReviewDecides, Handling, Free
<1>3. ASSUME NEW o \in Operators, Inject(o) PROVE ReviewInv'
  <2>1. desk[o] # Free
    BY <1>3 DEF Inject, Free
  <2> QED
  BY <1>3, <2>1, DeskWork, SlotOfCorrection, ReviewAssumption
     DEF Inject, Written, ReviewTypeOK, DeskInv, ReviewDecides, Handling, Free
<1>4. ASSUME NEW o \in Operators, InjectFails(o) PROVE ReviewInv'
  <2>1. desk[o] # Free
    BY <1>4 DEF InjectFails, Free
  <2> QED
  BY <1>4, <2>1, DeskWork, SlotOfCorrection, ReviewAssumption
     DEF InjectFails, Written, ReviewTypeOK, DeskInv, ReviewDecides, Handling, Free
<1>5. ASSUME NEW o \in Operators, Resolve(o) PROVE ReviewInv'
  <2>1. desk[o] # Free
    BY <1>5 DEF Resolve, Free
  <2> QED
  BY <1>5, <2>1, DeskWork, SlotOfCorrection, ReviewAssumption
     DEF Resolve, SetStatus, ReviewTypeOK, DeskInv, ReviewDecides, Handling, Free
<1>6. ASSUME NEW o \in Operators, ResolveFails(o) PROVE ReviewInv'
  <2>1. desk[o] # Free
    BY <1>6 DEF ResolveFails, Free
  <2> QED
  BY <1>6, <2>1, DeskWork, SlotOfCorrection, ReviewAssumption
     DEF ResolveFails, SetStatus, ReviewTypeOK, DeskInv, ReviewDecides, Handling, Free
<1>7. ASSUME NEW c \in Corrections, Reject(c) PROVE ReviewInv'
  BY <1>7, DeskWork, SlotOfCorrection, ReviewAssumption
     DEF Reject, SetStatus, ReviewTypeOK, DeskInv, ReviewDecides, Handling, Free
<1>8. ASSUME NEW s \in Slots, Delete(s) PROVE ReviewInv'
  BY <1>8, DeskWork, SlotOfCorrection, ReviewAssumption
     DEF Delete, ReviewTypeOK, DeskInv, ReviewDecides, Handling
<1>9. CASE ReviewCrash
  BY <1>9, SlotOfCorrection, ReviewAssumption
     DEF ReviewCrash, ReviewTypeOK, DeskInv, ReviewDecides, Handling, Free
<1>10. CASE UNCHANGED reviewVars
  BY <1>10 DEF reviewVars, ReviewTypeOK, DeskInv, ReviewDecides, Handling
<1> QED BY <1>1, <1>2, <1>3, <1>4, <1>5, <1>6, <1>7, <1>8, <1>9, <1>10 DEF ReviewNext

(* ReviewDecides, for any number of operators and slots. *)
THEOREM RulingsHold == ReviewSpec => [](ReviewTypeOK /\ ReviewDecides)
<1>1. ReviewInv => ReviewTypeOK /\ ReviewDecides
  BY DEF ReviewInv
<1> QED BY <1>1, ReviewInitInv, ReviewStepInv, PTL DEF ReviewSpec

-----------------------------------------------------------------------------
(* The rounds of an investigation. *)

(* What n calls take when each hangs until its timeout. *)
Due(n) == n * ToolTimeout

LEMMA DueNat == ASSUME NEW n \in Nat PROVE Due(n) \in Nat
BY ReasonerAssumption DEF Due

LEMMA DueNext == ASSUME NEW n \in Nat PROVE Due(n + 1) = Due(n) + ToolTimeout
BY ReasonerAssumption DEF Due

LEMMA DueMonotone ==
  ASSUME NEW m \in Nat, NEW n \in Nat, m <= n PROVE Due(m) <= Due(n)
<1>1. ToolTimeout \in Nat
  BY ReasonerAssumption
<1>2. PICK k \in Nat : n = m + k
  <2>1. n - m \in Nat /\ n = m + (n - m)
    OBVIOUS
  <2> QED BY <2>1
<1>3. Due(n) = Due(m) + Due(k) /\ Due(k) \in Nat /\ Due(m) \in Nat
  BY <1>1, <1>2 DEF Due
<1> QED BY <1>3

ToolsDue == WallClock - 1 + ModelTime + Due(RoundCap)

(* Where the loop is with its clock, and with the results of its calls: in *)
(* a round each call still to come has its timeout set aside.              *)
RoundInv ==
  /\ doing = "top" => clock <= ToolsDue + ModelTime
  /\ doing = "think" => clock < WallClock
  /\ doing = "tools" => clock + Due(asked + pending) <= ToolsDue
  /\ doing = "judge" => clock <= ToolsDue
  /\ doing = "conclude" => clock <= ToolsDue + ModelTime
  /\ doing = "concluded" => clock <= ToolsDue + ModelTime + ModelTime
  /\ doing \in {"think", "tools", "judge"} => round < MaxRounds
  /\ doing # "tools" => asked = 0 /\ pending = 0
  /\ doing \notin {"tools", "judge"} => judged = calls
  /\ results + pending = calls /\ calls <= CallBudget
  /\ judged <= results

ReasonerInv == ReasonerTypeOK /\ RoundInv

LEMMA ReasonerConstants ==
  /\ ToolsDue \in Nat /\ Due(RoundCap) \in Nat /\ WallClock - 1 + ModelTime <= ToolsDue
  /\ MaxRounds \in Nat /\ CallBudget \in Nat /\ RoundCap \in Nat
  /\ WallClock \in Nat /\ ModelTime \in Nat /\ ToolTimeout \in Nat
  /\ 0 < WallClock /\ 0 < CallBudget /\ 0 < MaxRounds
<1>1. Due(RoundCap) \in Nat
  BY ReasonerAssumption, DueNat
<1> QED BY <1>1, ReasonerAssumption DEF ToolsDue

LEMMA ReasonerInitInv == ReasonerInit => ReasonerInv
BY ReasonerConstants DEF ReasonerInit, ReasonerInv, ReasonerTypeOK, RoundInv

LEMMA ReasonerStepInv == ReasonerInv /\ [ReasonerNext]_reasonerVars => ReasonerInv'
<1> SUFFICES ASSUME ReasonerInv, [ReasonerNext]_reasonerVars
             PROVE  ReasonerInv'
  OBVIOUS
<1> USE ReasonerConstants DEF ReasonerInv, ReasonerTypeOK, RoundInv
<1>1. CASE BeginRound
  BY <1>1 DEF BeginRound, BudgetLeft
<1>2. CASE StopLoop
  BY <1>2 DEF StopLoop
<1>3. CASE Think
  <2>1. PICK n \in 1..MaxAsked, t \in 0..ModelTime :
          asked' = Smaller(n, RoundCap) /\ clock' = clock + t
    BY <1>3 DEF Think, Takes
  <2>2. asked' \in 0..RoundCap
    BY <2>1, ReasonerAssumption DEF Smaller
  <2>3. asked' + pending' = asked'
    BY <1>3, <2>2 DEF Think
  <2>4. Due(asked') <= Due(RoundCap) /\ Due(asked') \in Nat
    BY <2>2, DueMonotone, DueNat
  <2>5. clock' + Due(asked' + pending') <= ToolsDue
    BY <1>3, <2>1, <2>3, <2>4 DEF Think, ToolsDue
  <2> QED BY <1>3, <2>1, <2>2, <2>5 DEF Think
<1>4. CASE Declines
  <2>1. PICK t \in 0..ModelTime : clock' = clock + t
    BY <1>4 DEF Declines, Takes
  <2> QED BY <1>4, <2>1 DEF Declines
<1>5. CASE Dispatch
  <2>1. asked' + pending' = asked + pending /\ asked' \in 0..RoundCap
    BY <1>5 DEF Dispatch
  <2> QED BY <1>5, <2>1 DEF Dispatch
<1>6. CASE Returned
  <2>1. PICK t \in 0..ToolTimeout : clock' = clock + t
    BY <1>6 DEF Returned, Takes
  <2>2. asked + pending = asked + 1 /\ asked' + pending' = asked
    BY <1>6 DEF Returned
  <2>3. Due(asked + 1) = Due(asked) + ToolTimeout /\ Due(asked) \in Nat
    BY DueNext, DueNat
  <2>4. clock' + Due(asked' + pending') <= ToolsDue
    BY <1>6, <2>1, <2>2, <2>3 DEF Returned
  <2> QED BY <1>6, <2>1, <2>4 DEF Returned
<1>7. CASE RoundOver
  <2>1. Due(asked + pending) \in Nat
    BY DueNat
  <2>2. clock <= ToolsDue
    BY <1>7, <2>1 DEF RoundOver
  <2> QED BY <1>7, <2>2 DEF RoundOver
<1>8. CASE Judge
  <2>1. PICK t \in 0..ModelTime : clock' = clock + t
    BY <1>8 DEF Judge, Takes
  <2> QED BY <1>8, <2>1 DEF Judge
<1>9. CASE WriteAnswer
  <2>1. PICK t \in 0..ModelTime : clock' = clock + t
    BY <1>9 DEF WriteAnswer, Takes
  <2> QED BY <1>9, <2>1 DEF WriteAnswer
<1>10. CASE UNCHANGED reasonerVars
  BY <1>10 DEF reasonerVars
<1> QED BY <1>1, <1>2, <1>3, <1>4, <1>5, <1>6, <1>7, <1>8, <1>9, <1>10 DEF ReasonerNext

LEMMA ReasonerInvSuffices == ReasonerInv => OverrunBounded /\ EvidenceJudged
<1>1. RoundTime = ModelTime + Due(RoundCap) + ModelTime
  BY DEF RoundTime, Due
<1>2. WallClock + RoundTime + ModelTime = ToolsDue + ModelTime + ModelTime + 1
  BY <1>1, ReasonerConstants DEF ToolsDue
<1>3. ASSUME ReasonerInv PROVE clock <= ToolsDue + ModelTime + ModelTime
  <2>1. Due(asked + pending) \in Nat
    BY <1>3, DueNat, ReasonerConstants DEF ReasonerInv, ReasonerTypeOK
  <2> QED
    BY <1>3, <2>1, ReasonerConstants DEF ReasonerInv, ReasonerTypeOK, RoundInv, ToolsDue
<1> QED
  BY <1>2, <1>3, ReasonerConstants DEF ReasonerInv, ReasonerTypeOK, RoundInv,
                                       OverrunBounded, EvidenceJudged

(* OverrunBounded and EvidenceJudged, for any limits and any timeouts. *)
THEOREM OverrunsAreBounded == ReasonerSpec => [](ReasonerTypeOK /\ OverrunBounded /\ EvidenceJudged)
<1>1. ReasonerInv => ReasonerTypeOK
  BY DEF ReasonerInv
<1> QED BY <1>1, ReasonerInitInv, ReasonerStepInv, ReasonerInvSuffices, PTL DEF ReasonerSpec

-----------------------------------------------------------------------------
(* The chat channels. *)

(* A heartbeat that may still edit belongs to a message whose agent runs,   *)
(* it has sent at most an edit for each phrase, and a final text is shown   *)
(* when on_message is over with the message only.                           *)
BeatInv ==
  \A m \in Msgs :
    /\ stage[m] \in {"new", "placing"} => beat[m] = "off"
    /\ beat[m] \in {"sleep", "edit", "reply"} => stage[m] = "running"
    /\ beat[m] # "over" =>
         rung[m] < Rungs /\ sent[m] <= rung[m] + (IF beat[m] = "reply" THEN 1 ELSE 0)
    /\ shown[m] \in Final => stage[m] = "over"

ChannelInv == ChannelTypeOK /\ BeatInv

LEMMA ChannelInitInv == ChannelInit => ChannelInv
BY ChannelAssumption DEF ChannelInit, ChannelInv, ChannelTypeOK, BeatInv, Final, InHand

LEMMA ChannelStepInv == ChannelInv /\ [ChannelNext]_channelVars => ChannelInv'
<1> SUFFICES ASSUME ChannelInv, [ChannelNext]_channelVars
             PROVE  ChannelInv'
  OBVIOUS
<1> USE ChannelAssumption DEF ChannelInv, ChannelTypeOK, BeatInv, Final, InHand
<1>1. ASSUME NEW m \in Msgs, Refuse(m) PROVE ChannelInv'
  BY <1>1 DEF Refuse
<1>2. ASSUME NEW m \in Msgs, Accept(m) PROVE ChannelInv'
  <2>1. Cardinality(HandledOf(sender[m])) \in Nat
    <3>1. IsFiniteSet(HandledOf(sender[m]))
      BY FS_Subset DEF HandledOf
    <3> QED BY <3>1, FS_CardinalityType
  <2>2. peak' \in [Users -> Nat]
    BY <1>2, <2>1 DEF Accept
  <2>3. /\ stage' = [stage EXCEPT ![m] = "placing"] /\ stage[m] = "new"
        /\ UNCHANGED <<sender, bucket, beat, rung, sent, shown>>
    BY <1>2 DEF Accept
  <2> QED BY <2>2, <2>3
<1>3. ASSUME NEW m \in Msgs, Placed(m) PROVE ChannelInv'
  BY <1>3 DEF Placed
<1>4. ASSUME NEW m \in Msgs, PlaceFails(m) PROVE ChannelInv'
  BY <1>4 DEF PlaceFails
<1>5. ASSUME NEW m \in Msgs, Beat(m) PROVE ChannelInv'
  BY <1>5 DEF Beat
<1>6. ASSUME NEW m \in Msgs, Beaten(m) PROVE ChannelInv'
  BY <1>6 DEF Beaten
<1>7. ASSUME NEW m \in Msgs, NEW s \in Final, Finish(m, s) PROVE ChannelInv'
  BY <1>7 DEF Finish
<1>8. ASSUME NEW m \in Msgs, Finalized(m) PROVE ChannelInv'
  BY <1>8 DEF Finalized
<1>9. ASSUME NEW u \in Users, Age(u) PROVE ChannelInv'
  BY <1>9 DEF Age
<1>10. CASE UNCHANGED channelVars
  BY <1>10 DEF channelVars
<1>11. ASSUME NEW m \in Msgs, BeatSent(m) PROVE ChannelInv'
  BY <1>11 DEF BeatSent
<1>12. ASSUME NEW m \in Msgs, BeatLands(m) PROVE ChannelInv'
  <2>1. shown' \in [Msgs -> {"nothing", "phrase"} \cup Final]
        /\ \A n \in Msgs : shown'[n] \in Final => shown[n] \in Final
    BY <1>12 DEF BeatLands
  <2>2. sent[m] - 1 \in 0..Rungs /\ sent' = [sent EXCEPT ![m] = sent[m] - 1]
    BY <1>12 DEF BeatLands
  <2>3. \A n \in Msgs : sent'[n] \in 0..Rungs /\ sent'[n] <= sent[n]
    BY <2>2
  <2>4. /\ UNCHANGED <<sender, stage, bucket, peak, beat, rung>>
        /\ sent' \in [Msgs -> 0..Rungs]
    BY <1>12, <2>2 DEF BeatLands
  <2>5. BeatInv'
    BY <2>1, <2>3, <2>4
  <2> QED BY <2>1, <2>4, <2>5
<1> QED
  BY <1>1, <1>2, <1>3, <1>4, <1>5, <1>6, <1>7, <1>8, <1>9, <1>10, <1>11, <1>12 DEF ChannelNext

(* AnswerStays, for any messages and any number of phrases: once finalize_* *)
(* has begun no edit of the heartbeat is sent any more, and only one sent   *)
(* before can overwrite what is shown in the end.                           *)
THEOREM AnswersStay == ChannelSpec => []ChannelTypeOK /\ AnswerStays
<1>1. ASSUME ChannelInv, [ChannelNext]_channelVars
      PROVE  [\A m \in Msgs :
                /\ stage[m] \in Final \cup {"over"} => sent'[m] <= sent[m]
                /\ shown[m] \in Final /\ sent[m] = 0 => shown'[m] = shown[m]]_channelVars
  <2> SUFFICES ASSUME NEW m \in Msgs, ChannelNext
               PROVE  /\ stage[m] \in Final \cup {"over"} => sent'[m] <= sent[m]
                      /\ shown[m] \in Final /\ sent[m] = 0 => shown'[m] = shown[m]
    BY <1>1
  <2>1. /\ stage[m] \in Final \cup {"over"} => beat[m] # "edit"
        /\ shown[m] \in Final => stage[m] = "over"
        /\ sent[m] \in Int
    BY <1>1, ChannelAssumption DEF ChannelInv, ChannelTypeOK, BeatInv, Final
  <2>2. stage[m] \in Final \cup {"over"} => sent'[m] <= sent[m]
    BY <1>1, <2>1 DEF ChannelInv, ChannelTypeOK, ChannelNext, Refuse, Accept, Placed, PlaceFails,
                      Beat, BeatSent, BeatLands, Beaten, Finish, Finalized, Age
  <2>3. shown[m] \in Final /\ sent[m] = 0 => shown'[m] = shown[m]
    BY <1>1, <2>1 DEF ChannelInv, ChannelTypeOK, ChannelNext, Refuse, Accept, Placed, PlaceFails,
                      Beat, BeatSent, BeatLands, Beaten, Finish, Finalized, Age, Final
  <2> QED BY <2>2, <2>3
<1>2. ChannelInv => ChannelTypeOK
  BY DEF ChannelInv
<1> QED BY <1>1, <1>2, ChannelInitInv, ChannelStepInv, PTL DEF ChannelSpec, AnswerStays

-----------------------------------------------------------------------------
LEMMA HandledFinite ==
  ASSUME NEW u PROVE IsFiniteSet(HandledOf(u)) /\ Cardinality(HandledOf(u)) \in Nat
<1>1. IsFiniteSet(HandledOf(u))
  BY ChannelAssumption, FS_Subset DEF HandledOf
<1> QED BY <1>1, FS_CardinalityType

(* A message that is taken up, and one that is let go. *)
LEMMA HandledMore ==
  ASSUME NEW m \in Msgs, NEW u, m \notin HandledOf(u),
         HandledOf(u)' = HandledOf(u) \cup {m}
  PROVE  Cardinality(HandledOf(u)') = Cardinality(HandledOf(u)) + 1
BY HandledFinite, FS_AddElement

LEMMA HandledLess ==
  ASSUME NEW m \in Msgs, NEW u, m \in HandledOf(u),
         HandledOf(u)' = HandledOf(u) \ {m}
  PROVE  Cardinality(HandledOf(u)') = Cardinality(HandledOf(u)) - 1
BY HandledFinite, FS_RemoveElement

LEMMA QuotaStep == ChannelInv /\ QuotaOverrun /\ [ChannelNext]_channelVars => QuotaOverrun'
<1> SUFFICES ASSUME ChannelInv, QuotaOverrun, [ChannelNext]_channelVars, NEW u \in Users,
                    ChannelInv'
             PROVE  (bucket[u] + Cardinality(HandledOf(u)) <= Quota - 1 + peak[u])'
  BY ChannelStepInv DEF QuotaOverrun
<1> DEFINE held == Cardinality(HandledOf(u))
<1>0. /\ held \in Nat /\ bucket[u] \in Nat /\ peak[u] \in Nat /\ Quota \in Nat
      /\ bucket[u] + held <= Quota - 1 + peak[u]
  BY HandledFinite, ChannelAssumption DEF ChannelInv, ChannelTypeOK, QuotaOverrun
<1>nat. held' \in Nat
  <2>1. IsFiniteSet(HandledOf(u)')
    BY ChannelAssumption, FS_Subset DEF HandledOf
  <2> QED BY <2>1, FS_CardinalityType
<1>1. ASSUME NEW m \in Msgs, stage' = [stage EXCEPT ![m] = stage'[m]], UNCHANGED sender,
             stage[m] \in InHand <=> stage'[m] \in InHand
      PROVE  held' = held
  <2>1. HandledOf(u)' = HandledOf(u)
    BY <1>1 DEF HandledOf, ChannelInv, ChannelTypeOK
  <2> QED BY <2>1
<1>2. ASSUME NEW m \in Msgs, stage' = [stage EXCEPT ![m] = "over"], UNCHANGED sender,
             stage[m] \in InHand
      PROVE  held' = IF sender[m] = u THEN held - 1 ELSE held
  <2>1. CASE sender[m] = u
    <3>1. m \in HandledOf(u) /\ HandledOf(u)' = HandledOf(u) \ {m}
      BY <1>2, <2>1 DEF HandledOf, InHand, Final, ChannelInv, ChannelTypeOK
    <3> QED BY <2>1, <3>1, HandledLess
  <2>2. CASE sender[m] # u
    <3>1. HandledOf(u)' = HandledOf(u)
      BY <1>2, <2>2 DEF HandledOf, ChannelInv, ChannelTypeOK
    <3> QED BY <2>2, <3>1
  <2> QED BY <2>1, <2>2
<1>3. ASSUME NEW m \in Msgs, Refuse(m) PROVE held' = held /\ UNCHANGED <<bucket, peak>>
  <2>1. /\ stage[m] = "new" /\ stage' = [stage EXCEPT ![m] = "over"]
        /\ UNCHANGED <<sender, bucket, peak>>
    BY <1>3 DEF Refuse
  <2>2. stage' = [stage EXCEPT ![m] = stage'[m]] /\ stage'[m] = "over"
    BY <2>1 DEF ChannelInv, ChannelTypeOK
  <2>3. stage[m] \notin InHand /\ stage'[m] \notin InHand
    BY <2>1, <2>2 DEF InHand, Final
  <2> QED BY <1>1, <2>1, <2>2, <2>3
<1>4. ASSUME NEW m \in Msgs, Accept(m)
      PROVE  bucket'[u] + held' <= Quota - 1 + peak'[u]
  <2>1. stage[m] \notin InHand /\ stage' = [stage EXCEPT ![m] = "placing"] /\ UNCHANGED <<sender, bucket>>
    BY <1>4 DEF Accept, InHand, Final
  <2>2. CASE sender[m] = u
    <3>1. m \notin HandledOf(u) /\ HandledOf(u)' = HandledOf(u) \cup {m}
      BY <2>1, <2>2 DEF HandledOf, InHand, ChannelInv, ChannelTypeOK
    <3>2. held' = held + 1
      BY <3>1, HandledMore
    <3>3. bucket[u] < Quota /\ peak'[u] = IF peak[u] < held + 1 THEN held + 1 ELSE peak[u]
      BY <1>4, <2>2 DEF Accept, ChannelInv, ChannelTypeOK
    <3> QED BY <1>0, <2>1, <3>2, <3>3
  <2>3. CASE sender[m] # u
    <3>1. HandledOf(u)' = HandledOf(u)
      BY <2>1, <2>3 DEF HandledOf, ChannelInv, ChannelTypeOK
    <3>2. held' = held /\ peak'[u] = peak[u]
      BY <1>4, <2>3, <3>1 DEF Accept, ChannelInv, ChannelTypeOK
    <3> QED BY <1>0, <2>1, <3>2
  <2> QED BY <2>2, <2>3
<1>5. ASSUME NEW m \in Msgs, Placed(m) PROVE held' = held /\ UNCHANGED <<bucket, peak>>
  BY <1>1, <1>5 DEF Placed, ChannelInv, ChannelTypeOK, InHand
<1>6. ASSUME NEW m \in Msgs, PlaceFails(m)
      PROVE  held' <= held /\ held' \in Nat /\ UNCHANGED <<bucket, peak>>
  <2>1. held' = IF sender[m] = u THEN held - 1 ELSE held
    BY <1>2, <1>6 DEF PlaceFails, InHand
  <2> QED BY <1>0, <1>nat, <1>6, <2>1 DEF PlaceFails
<1>7. ASSUME NEW m \in Msgs, Beat(m) \/ BeatSent(m) \/ BeatLands(m) \/ Beaten(m)
      PROVE  held' = held /\ UNCHANGED <<bucket, peak>>
  BY <1>7 DEF Beat, BeatSent, BeatLands, Beaten, HandledOf
<1>8. ASSUME NEW m \in Msgs, NEW s \in Final, Finish(m, s)
      PROVE  held' = held /\ UNCHANGED <<bucket, peak>>
  BY <1>1, <1>8 DEF Finish, ChannelInv, ChannelTypeOK, InHand
<1>9. ASSUME NEW m \in Msgs, Finalized(m)
      PROVE  bucket'[u] + held' <= bucket[u] + held /\ UNCHANGED peak
  <2>1. held' = IF sender[m] = u THEN held - 1 ELSE held
    BY <1>2, <1>9 DEF Finalized, InHand
  <2>2. bucket'[u] = bucket[u] \/ (sender[m] = u /\ bucket'[u] = bucket[u] + 1)
    BY <1>9 DEF Finalized, ChannelInv, ChannelTypeOK
  <2> QED BY <1>0, <1>9, <2>1, <2>2 DEF Finalized
<1>10. ASSUME NEW v \in Users, Age(v)
       PROVE  bucket'[u] <= bucket[u] /\ bucket'[u] \in Nat /\ held' = held /\ UNCHANGED peak
  BY <1>0, <1>10 DEF Age, HandledOf, ChannelInv, ChannelTypeOK
<1>11. CASE UNCHANGED channelVars
  BY <1>0, <1>11 DEF channelVars, HandledOf
<1> HIDE DEF held
<1>13. CASE ChannelNext
  <2>1. bucket'[u] + held' <= Quota - 1 + peak'[u]
    <3>1. CASE \E m \in Msgs : Accept(m)
      BY <1>4, <3>1
    <3>2. CASE \E m \in Msgs : Finalized(m)
      BY <1>0, <1>9, <1>nat, <3>2, ChannelInv' DEF ChannelInv, ChannelTypeOK
    <3>3. CASE \E m \in Msgs : PlaceFails(m)
      BY <1>0, <1>6, <3>3
    <3>4. CASE \E v \in Users : Age(v)
      BY <1>0, <1>10, <3>4
    <3>5. CASE \E m \in Msgs : \/ Refuse(m) \/ Placed(m)
                              \/ Beat(m) \/ BeatSent(m) \/ BeatLands(m) \/ Beaten(m)
                              \/ \E s \in Final : Finish(m, s)
      BY <1>0, <1>3, <1>5, <1>7, <1>8, <3>5
    <3> QED BY <1>13, <3>1, <3>2, <3>3, <3>4, <3>5 DEF ChannelNext
  <2> QED BY <2>1 DEF held
<1> QED BY <1>11, <1>13

(* QuotaOverrun, for any users, messages and quota. *)
THEOREM QuotaHolds == ChannelSpec => []QuotaOverrun
<1>1. ChannelInit => QuotaOverrun
  <2> SUFFICES ASSUME ChannelInit, NEW u \in Users
               PROVE  bucket[u] + Cardinality(HandledOf(u)) <= Quota - 1 + peak[u]
    BY DEF QuotaOverrun
  <2>1. HandledOf(u) = {}
    BY DEF ChannelInit, HandledOf, InHand, Final
  <2> QED BY <2>1, FS_EmptySet, ChannelAssumption DEF ChannelInit
<1> QED BY <1>1, ChannelInitInv, ChannelStepInv, QuotaStep, PTL DEF ChannelSpec

-----------------------------------------------------------------------------
(* The process. *)

(* A step of the process is a step of each part, or leaves it as it is. *)
LEMMA PodSteps ==
  ASSUME [PodNext]_podVars
  PROVE  /\ [Next]_vars /\ [BufferNext]_bufferVars /\ [CacheNext]_cacheVars
         /\ [ReviewNext]_reviewVars /\ [ReasonerNext]_reasonerVars /\ [ChannelNext]_channelVars
BY DEF PodNext, podVars, StreamStep, BufferStep, CacheStep, ReviewStep, ReasonerStep, ChannelStep

(* The process implements each of its parts. *)
THEOREM PodImplementsParts ==
  PodSpec => Spec /\ BufferSpec /\ CacheSpec /\ ReviewSpec /\ ReasonerSpec /\ ChannelSpec
<1>1. PodInit => Init /\ BufferInit /\ CacheInit /\ ReviewInit /\ ReasonerInit /\ ChannelInit
  BY DEF PodInit
<1> QED
  BY <1>1, PodSteps, PTL
     DEF PodSpec, Spec, BufferSpec, CacheSpec, ReviewSpec, ReasonerSpec, ChannelSpec

(* So what each part keeps, the process keeps. *)
THEOREM PodKeeps ==
  PodSpec => /\ [](TypeOK /\ OneEnd /\ CompletedIsStamped /\ HeardExactly)
             /\ [](RowsAccounted /\ PurgeReaches /\ ReviewDecides)
             /\ [](OverrunBounded /\ EvidenceJudged /\ QuotaOverrun)
             /\ AnswerStays
BY PodImplementsParts, TypeCorrect, OutcomeIsLast, CompletionIsStamped, PagesHearExactly,
   RowsStayAccounted, PurgesReach, RulingsHold, OverrunsAreBounded, QuotaHolds, AnswersStay, PTL
=============================================================================
