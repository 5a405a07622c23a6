---------------------------- MODULE WriteBuffer ----------------------------
(***************************************************************************)
(* The write-behind buffer of opsrag/usage_persistence.py, and of          *)
(* opsrag/mcp_server/audit.py, which has the same one: callers append rows *)
(* under a lock, one task swaps the buffer out and inserts it in chunks    *)
(* that commit one by one, and a flush that fails puts its whole batch     *)
(* back at the front.                                                      *)
(*                                                                         *)
(* Rows are numbered in the order they are accepted.                       *)
(***************************************************************************)
EXTENDS Integers, Sequences, FiniteSets, Functions

CONSTANTS Cap,             \* rows the buffer holds before it drops some
          DropCount,       \* rows it drops then
          ChunkSize,       \* rows of one INSERT
          MaxRows,         \* bound on the rows accepted
          MaxFailedFlushes \* bound on the flushes that fail

ASSUME BufferAssumption ==
  /\ {Cap, DropCount, ChunkSize} \subseteq Nat \ {0}
  /\ {MaxRows, MaxFailedFlushes} \subseteq Nat
  /\ DropCount <= Cap

VARIABLES accepted,  \* rows accepted so far
          buf,       \* _buf
          batch,     \* the rows a flush has swapped out
          done,      \* how many of them its INSERTs have committed
          written,   \* written[r]: how often row r is in the table
          dropped,   \* the rows the cap has dropped
          cut,       \* the rows of a flush that close() cancelled, but for the
                    \* chunks whose INSERTs had returned
          loop,      \* the flush task: "sleep", "flush" or "over"
          closing,   \* close(): "no", "wait", "last", "flush" or "shut"
          failures   \* flushes that have failed

bufferVars ==
  <<accepted, buf, batch, done, written, dropped, cut, loop, closing, failures>>

RowIds == 1..MaxRows

BufferInit ==
  /\ accepted = 0
  /\ buf = <<>>
  /\ batch = <<>>
  /\ done = 0
  /\ written = [r \in RowIds |-> 0]
  /\ dropped = {}
  /\ cut = {}
  /\ loop = "sleep"
  /\ closing = "no"
  /\ failures = 0

-----------------------------------------------------------------------------
(* enqueue, log: the oldest rows make room, then the row is appended. *)
Enqueue ==
  LET kept == IF Len(buf) < Cap THEN buf ELSE SubSeq(buf, DropCount + 1, Len(buf))
  IN  /\ closing # "shut"
      /\ accepted < MaxRows
      /\ accepted' = accepted + 1
      /\ buf' = Append(kept, accepted + 1)
      /\ dropped' = dropped \cup (Range(buf) \ Range(kept))
      /\ UNCHANGED <<batch, done, written, cut, loop, closing, failures>>

(* Mutant of Take: the rows stay in the buffer while they are written. *)
TakeCopy ==
  /\ batch' = buf
  /\ done' = 0
  /\ UNCHANGED <<accepted, buf, written, dropped, cut, failures>>

(* A flush takes the buffer. *)
Take ==
  /\ batch' = buf
  /\ done' = 0
  /\ buf' = <<>>
  /\ UNCHANGED <<accepted, written, dropped, cut, failures>>

Flushing == loop = "flush" \/ closing = "flush"

(* Mutant of FlushOver: the task ends with its first flush. *)
FlushOverDies ==
  /\ loop' = IF loop = "flush" THEN "over" ELSE loop
  /\ closing' = IF closing = "flush" THEN "shut" ELSE closing

(* _flush_once has returned or raised: the task goes back to sleep, or     *)
(* ends when it finds the stop event, and close() goes on.                 *)
FlushOver ==
  /\ loop' = IF loop # "flush" THEN loop
             ELSE IF closing = "no" THEN "sleep" ELSE "over"
  /\ closing' = IF closing = "flush" THEN "shut" ELSE closing

(* The interval is over, or the stop event is set: one flush. *)
Wake ==
  /\ loop = "sleep"
  /\ IF buf = <<>>
     THEN /\ loop' = IF closing = "no" THEN "sleep" ELSE "over"
          /\ UNCHANGED <<accepted, buf, batch, done, written, dropped, cut, failures>>
     ELSE loop' = "flush" /\ Take
  /\ UNCHANGED closing

Left == {batch[k] : k \in (done + 1)..Len(batch)}
Chunk == {batch[k] : k \in {j \in 1..Len(batch) : done < j /\ j <= done + ChunkSize}}
Inserted(rs) == [r \in RowIds |-> written[r] + (IF r \in rs THEN 1 ELSE 0)]

(* One INSERT commits; after the last one the flush is over. *)
InsertChunk ==
  /\ Flushing
  /\ written' = Inserted(Chunk)
  /\ IF done + ChunkSize < Len(batch)
     THEN /\ done' = done + ChunkSize
          /\ UNCHANGED <<batch, loop, closing>>
     ELSE /\ batch' = <<>>
          /\ done' = 0
          /\ FlushOver
  /\ UNCHANGED <<accepted, buf, dropped, cut, failures>>

(* An INSERT raises, and may be committed nevertheless: the whole batch    *)
(* goes back to the front, the rows of its committed chunks too.           *)
InsertFails ==
  /\ Flushing
  /\ failures < MaxFailedFlushes
  /\ failures' = failures + 1
  /\ \E rs \in {{}, Chunk} : written' = Inserted(rs)
  /\ buf' = batch \o buf
  /\ batch' = <<>>
  /\ done' = 0
  /\ FlushOver
  /\ UNCHANGED <<accepted, dropped, cut>>

-----------------------------------------------------------------------------
(* close(): the stop event. *)
CloseBegins ==
  /\ closing = "no"
  /\ closing' = "wait"
  /\ UNCHANGED <<accepted, buf, batch, done, written, dropped, cut, loop, failures>>

(* wait_for has the task's end. *)
TaskEnded ==
  /\ closing = "wait" /\ loop = "over"
  /\ closing' = "last"
  /\ UNCHANGED <<accepted, buf, batch, done, written, dropped, cut, loop, failures>>

(* The task is cancelled in its flush: no handler catches CancelledError,  *)
(* so the batch is gone, but for the chunks that are committed.            *)
TimesOut ==
  /\ closing = "wait" /\ loop = "flush"
  /\ \E rs \in {{}, Chunk} : written' = Inserted(rs)
  /\ cut' = cut \cup Left
  /\ batch' = <<>>
  /\ done' = 0
  /\ loop' = "over"
  /\ closing' = "last"
  /\ UNCHANGED <<accepted, buf, dropped, failures>>

(* The flush of close() itself; then the pool is closed, and what the      *)
(* flush put back stays in a buffer nobody reads.                          *)
LastFlush ==
  /\ closing = "last"
  /\ IF buf = <<>>
     THEN /\ closing' = "shut"
          /\ UNCHANGED <<accepted, buf, batch, done, written, dropped, cut, failures>>
     ELSE closing' = "flush" /\ Take
  /\ UNCHANGED loop

Drain == Wake \/ InsertChunk
BufferNext ==
  \/ Enqueue
  \/ Drain \/ InsertFails
  \/ CloseBegins \/ TaskEnded \/ TimesOut \/ LastFlush

BufferSpec == BufferInit /\ [][BufferNext]_bufferVars

-----------------------------------------------------------------------------
Waiting == Range(buf) \cup Left

BufferTypeOK ==
  /\ accepted \in 0..MaxRows
  /\ buf \in Seq(RowIds) /\ batch \in Seq(RowIds)
  /\ done \in Nat
  /\ written \in [RowIds -> Nat]
  /\ dropped \subseteq RowIds /\ cut \subseteq RowIds
  /\ loop \in {"sleep", "flush", "over"}
  /\ closing \in {"no", "wait", "last", "flush", "shut"}
  /\ failures \in 0..MaxFailedFlushes

(* No row vanishes and none is counted twice without a cause: a row that   *)
(* enqueue took is in the table, or waits, or went with the oldest at the  *)
(* cap or with a flush that close() cancelled; and it is in the table at   *)
(* most once, and not while it waits, as long as no flush has failed.      *)
RowsAccounted ==
  \A r \in 1..accepted :
    /\ written[r] > 0 \/ r \in Waiting \cup dropped \cup cut
    /\ written[r] + (IF r \in Waiting THEN 1 ELSE 0) <= 1 + failures

(* A row reaches the table whatever flush fails, unless it is one of those *)
(* at the cap or in a cancelled flush, or the process shuts down first:    *)
(* again and again none is left of the rows accepted so far (their number  *)
(* is bounded here, so that no new row hides one that stays behind).       *)
RowsDelivered ==
  []<>(\/ closing = "shut"
       \/ \A r \in 1..accepted : written[r] > 0 \/ r \in dropped \cup cut)
=============================================================================
