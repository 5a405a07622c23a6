----------------------------- MODULE FileQueue ------------------------------
(***************************************************************************)
(* The bounded producer/consumer pipeline inside                           *)
(* IngestionPipeline._index_repo_locked (opsrag/ingestion/pipeline.py).    *)
(*                                                                         *)
(* One producer streams the files of a repository into an asyncio.Queue of *)
(* bounded capacity; a fixed pool of workers drains it.  When the stream   *)
(* ends, or raises, the producer puts one sentinel per worker.  The run    *)
(* then waits for queue.join(), gathers the workers and decides whether    *)
(* the deletion sweep may run.                                             *)
(*                                                                         *)
(* asyncio runs one coroutine at a time between awaits, so an action is    *)
(* what happens from one await to the next.                                *)
(***************************************************************************)
EXTENDS Naturals, Sequences, FiniteSets, SequencesExt

CONSTANTS Listing,    \* the paths scm.list_files returned, in order
          Workers,    \* the worker tasks; file_parallel of them
          ScmBatch,   \* files get_files_batch fetches at a time
          Sentinel,   \* the end-of-stream object
          Faults      \* which of "drop", "stream", "crash" may happen

Files == {Listing[i] : i \in 1..Len(Listing)}

ASSUME FileQueueAssumption ==
  /\ Listing \in Seq(Files)
  /\ \A i, j \in 1..Len(Listing) : Listing[i] = Listing[j] => i = j
  /\ IsFiniteSet(Workers)
  /\ Workers # {}
  /\ ScmBatch \in Nat \ {0}
  /\ Sentinel \notin Files
  /\ Files \cap {"get", "exited", "crashed"} = {}
  /\ Faults \subseteq {"drop", "stream", "crash"}

VARIABLES next,         \* first position get_files_batch has not asked for
          requested,    \* files of the current batch still being fetched
          fetched,      \* files of the batch in memory, not yielded yet
          inHand,       \* {} or the one file the producer is about to put
          queue,        \* the asyncio.Queue
          unfinished,   \* the queue's count of items without a task_done()
          sentinels,    \* sentinels still to be put
          producer,     \* "stream", "seal", "join", "gather" or "over"
          streamOk,     \* the SCM stream did not raise
          worker,       \* worker[w]: "get", "exited", "crashed", or its file
          settled,      \* files a worker is done with, or not fetched
          verdict       \* what the run did after gathering the workers

scmVars    == <<next, requested, fetched>>
queueVars  == <<queue, unfinished>>
runVars    == <<sentinels, producer, streamOk, verdict>>
vars == <<scmVars, inHand, queueVars, runVars, worker, settled>>

FileParallel == Cardinality(Workers)
Capacity == IF 2 * FileParallel > 4 THEN 2 * FileParallel ELSE 4

Busy(w)   == worker[w] \in Files
Queued    == {f \in Files : \E i \in DOMAIN queue : queue[i] = f}
Working   == {f \in Files : \E w \in Workers : worker[w] = f}
Crashed   == \E w \in Workers : worker[w] = "crashed"
Unstreamed  == {Listing[i] : i \in next..Len(Listing)}
Undelivered == Unstreamed \cup requested \cup fetched

Init ==
  /\ next = 1
  /\ requested = {}
  /\ fetched = {}
  /\ inHand = {}
  /\ queue = <<>>
  /\ unfinished = 0
  /\ sentinels = FileParallel
  /\ producer = "stream"
  /\ streamOk = TRUE
  /\ worker = [w \in Workers |-> "get"]
  /\ settled = {}
  /\ verdict = "running"

-----------------------------------------------------------------------------
(* get_files_batch: LocalFSSCM reads one file at a time (ScmBatch = 1),    *)
(* GitLab starts a task per file of a batch, GitHub a task for every file  *)
(* of the listing.  Fetch tasks complete whether or not the consumer asks. *)

RequestBatch ==
  LET last == IF next + ScmBatch - 1 < Len(Listing)
              THEN next + ScmBatch - 1 ELSE Len(Listing)
  IN
  /\ producer = "stream"
  /\ inHand = {}
  /\ requested = {}
  /\ fetched = {}
  /\ next <= Len(Listing)
  /\ requested' = {Listing[i] : i \in next..last}
  /\ next' = last + 1
  /\ UNCHANGED <<fetched, inHand, queueVars, runVars, worker, settled>>

FetchReturns(f) ==
  /\ f \in requested
  /\ requested' = requested \ {f}
  /\ fetched' = fetched \cup {f}
  /\ UNCHANGED <<next, inHand, queueVars, runVars, worker, settled>>

(* The failed fetch of one file is swallowed: except Exception: continue. *)
FetchFails(f) ==
  /\ "drop" \in Faults
  /\ f \in requested
  /\ requested' = requested \ {f}
  /\ settled' = settled \cup {f}
  /\ UNCHANGED <<next, fetched, inHand, queueVars, runVars, worker>>

-----------------------------------------------------------------------------
(* The producer *)

(* The generator yields a fetched file to the producer. *)
YieldFile(f) ==
  /\ producer = "stream"
  /\ inHand = {}
  /\ f \in fetched
  /\ fetched' = fetched \ {f}
  /\ inHand' = {f}
  /\ UNCHANGED <<next, requested, queueVars, runVars, worker, settled>>

(* Mutant of PutFile: put_nowait on an unbounded queue. *)
PutFileUnbounded ==
  /\ producer = "stream"
  /\ \E f \in inHand : queue' = Append(queue, f)
  /\ inHand' = {}
  /\ unfinished' = unfinished + 1
  /\ UNCHANGED <<scmVars, runVars, worker, settled>>

(* await queue.put(file): blocks while the queue is full. *)
PutFile ==
  /\ producer = "stream"
  /\ \E f \in inHand : queue' = Append(queue, f)
  /\ Len(queue) < Capacity
  /\ inHand' = {}
  /\ unfinished' = unfinished + 1
  /\ UNCHANGED <<scmVars, runVars, worker, settled>>

(* The stream is exhausted, or raises; both reach the producer's finally. *)
EndStream ==
  /\ producer = "stream"
  /\ inHand = {}
  /\ Undelivered = {}
  /\ producer' = "seal"
  /\ UNCHANGED <<scmVars, inHand, queueVars, sentinels, streamOk, verdict,
                 worker, settled>>

StreamRaises ==
  /\ "stream" \in Faults
  /\ producer = "stream"
  /\ inHand = {}
  /\ producer' = "seal"
  /\ streamOk' = FALSE
  /\ UNCHANGED <<scmVars, inHand, queueVars, sentinels, verdict, worker,
                 settled>>

PutSentinel ==
  /\ producer = "seal"
  /\ sentinels > 0
  /\ Len(queue) < Capacity
  /\ queue' = Append(queue, Sentinel)
  /\ unfinished' = unfinished + 1
  /\ sentinels' = sentinels - 1
  /\ UNCHANGED <<scmVars, inHand, producer, streamOk, verdict, worker, settled>>

(* The producer returns, so join() comes next; or it re-raises, and the    *)
(* outer finally goes straight to gathering the workers.                   *)
ProducerReturns ==
  /\ producer = "seal"
  /\ sentinels = 0
  /\ producer' = IF streamOk THEN "join" ELSE "gather"
  /\ UNCHANGED <<scmVars, inHand, queueVars, sentinels, streamOk, verdict,
                 worker, settled>>

(* await queue.join() *)
Join ==
  /\ producer = "join"
  /\ unfinished = 0
  /\ producer' = "gather"
  /\ UNCHANGED <<scmVars, inHand, queueVars, sentinels, streamOk, verdict,
                 worker, settled>>

(* Mutant of Gather: only the workers decide, an SCM error is forgotten. *)
GatherForgetsStream ==
  /\ producer = "gather"
  /\ \A w \in Workers : worker[w] \in {"exited", "crashed"}
  /\ producer' = "over"
  /\ verdict' = IF Crashed THEN "partial" ELSE "swept"
  /\ UNCHANGED <<scmVars, inHand, queueVars, sentinels, streamOk, worker,
                 settled>>

(* Gather the workers (return_exceptions=True), then decide on the sweep. *)
Gather ==
  /\ producer = "gather"
  /\ \A w \in Workers : worker[w] \in {"exited", "crashed"}
  /\ producer' = "over"
  /\ verdict' = IF ~streamOk THEN "raised"
                ELSE IF Crashed THEN "partial" ELSE "swept"
  /\ UNCHANGED <<scmVars, inHand, queueVars, sentinels, streamOk, worker,
                 settled>>

-----------------------------------------------------------------------------
(* The workers *)

(* Mutant of GetFile: the item is read but left in the queue. *)
GetFilePeeks(w) ==
  /\ worker[w] = "get"
  /\ queue # <<>>
  /\ Head(queue) # Sentinel
  /\ worker' = [worker EXCEPT ![w] = Head(queue)]
  /\ UNCHANGED <<scmVars, inHand, queueVars, runVars, settled>>

GetFile(w) ==
  /\ worker[w] = "get"
  /\ queue # <<>>
  /\ Head(queue) # Sentinel
  /\ queue' = Tail(queue)
  /\ worker' = [worker EXCEPT ![w] = Head(queue)]
  /\ UNCHANGED <<scmVars, inHand, unfinished, runVars, settled>>

(* Mutant of GetSentinel: return without the finally. *)
GetSentinelNoTaskDone(w) ==
  /\ worker[w] = "get"
  /\ queue # <<>>
  /\ Head(queue) = Sentinel
  /\ queue' = Tail(queue)
  /\ worker' = [worker EXCEPT ![w] = "exited"]
  /\ UNCHANGED <<scmVars, inHand, unfinished, runVars, settled>>

(* A sentinel makes the worker return; the finally calls task_done(). *)
GetSentinel(w) ==
  /\ worker[w] = "get"
  /\ queue # <<>>
  /\ Head(queue) = Sentinel
  /\ queue' = Tail(queue)
  /\ unfinished' = unfinished - 1
  /\ worker' = [worker EXCEPT ![w] = "exited"]
  /\ UNCHANGED <<scmVars, inHand, runVars, settled>>

(* Mutant of TaskDone: task_done() both in the body and in the finally. *)
TaskDoneTwice(w, after) ==
  /\ Busy(w)
  /\ worker' = [worker EXCEPT ![w] = after]
  /\ unfinished' = unfinished - 2
  /\ UNCHANGED <<scmVars, inHand, queue, runVars>>

(* Every way out of _process_one reaches task_done(). *)
TaskDone(w, after) ==
  /\ Busy(w)
  /\ worker' = [worker EXCEPT ![w] = after]
  /\ unfinished' = unfinished - 1
  /\ UNCHANGED <<scmVars, inHand, queue, runVars>>

(* _process_one returns: an Exception was logged and counted as skipped. *)
FinishFile(w) ==
  /\ TaskDone(w, "get")
  /\ settled' = settled \cup {worker[w]}

(* A BaseException (CancelledError) passes _process_one's except Exception *)
(* and ends the worker task; its file is lost.                             *)
CrashWorker(w) ==
  /\ "crash" \in Faults
  /\ TaskDone(w, "crashed")
  /\ UNCHANGED settled

-----------------------------------------------------------------------------
FetchStep == \E f \in Files : FetchReturns(f) \/ FetchFails(f)

ProducerStep ==
  \/ RequestBatch
  \/ \E f \in Files : YieldFile(f)
  \/ PutFile
  \/ EndStream
  \/ StreamRaises
  \/ PutSentinel
  \/ ProducerReturns
  \/ Join
  \/ Gather

WorkerStep(w) ==
  \/ GetFile(w)
  \/ GetSentinel(w)
  \/ FinishFile(w)
  \/ CrashWorker(w)

(* index_repo has returned or raised. *)
Over == producer = "over" /\ UNCHANGED vars

Next == FetchStep \/ ProducerStep \/ (\E w \in Workers : WorkerStep(w)) \/ Over

Spec == Init /\ [][Next]_vars

(* The event loop resumes every coroutine that can run, and every await in *)
(* a fetch and in _process_file returns or raises.                         *)
FairSpec ==
  /\ Spec
  /\ WF_vars(FetchStep)
  /\ WF_vars(ProducerStep)
  /\ \A w \in Workers : WF_vars(WorkerStep(w))

-----------------------------------------------------------------------------
TypeOK ==
  /\ next \in 1..(Len(Listing) + 1)
  /\ requested \subseteq Files
  /\ fetched \subseteq Files
  /\ inHand \subseteq Files
  /\ queue \in Seq(Files \cup {Sentinel})
  /\ unfinished \in Nat
  /\ sentinels \in 0..FileParallel
  /\ producer \in {"stream", "seal", "join", "gather", "over"}
  /\ streamOk \in BOOLEAN
  /\ worker \in [Workers -> Files \cup {"get", "exited", "crashed"}]
  /\ settled \subseteq Files
  /\ verdict \in {"running", "swept", "partial", "raised"}

(* "A partial run must NOT purge": when the sweep is allowed, every file   *)
(* of the listing went through a worker or was dropped by its own failed   *)
(* fetch, and none is left in the queue or with a worker.                  *)
SweepOnlyWhenSettled ==
  verdict = "swept" => /\ settled = Files
                       /\ Queued = {}
                       /\ Working = {}

(* join()'s counter is the number of items queued or being processed: the  *)
(* lemma on which the counter's type rests.                                *)
UnfinishedExact ==
  unfinished = Len(queue) + Cardinality({w \in Workers : Busy(w)})

(* The files whose bodies are in memory. *)
InMemory == fetched \cup inHand \cup Queued \cup Working

(* Backpressure: the queue, the workers, the producer's hand and one batch *)
(* of the SCM bound the file bodies held at once, whatever the size of the *)
(* repository.                                                             *)
MemoryBound == Cardinality(InMemory) <= Capacity + FileParallel + ScmBatch

(* index_repo returns or raises: unless a worker task dies, neither the    *)
(* producer nor join() waits forever.                                      *)
Terminates == <>(producer = "over" \/ Crashed)

Pass == INSTANCE FilePass
          WITH waiting <- Undelivered \cup inHand \cup Queued,
               working <- Working

(* The pipeline implements the promise of a pass: each file is taken once, *)
(* and the sweep comes after all of them.                                  *)
ImplementsPass == Pass!Spec
=============================================================================
