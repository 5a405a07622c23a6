# opsrag in TLA+

opsrag answers operations questions from an index of repositories and documents,
and runs investigations that stream their findings to a browser. Most of it is
calls to models and to outside systems. What can go wrong in ways a unit test
hardly reaches is elsewhere: an agent whose state outlives a question and whose
loops share budgets, several processes that change the same Postgres tables and
vector store in separate steps, tasks that hand work to each other, and readers
that follow what others write. These modules are about that part. Paths below
are relative to the repository's root.

1. [The system](#1-the-system)
2. [Modules](#2-modules)
3. [Runs](#3-runs)
4. [Fairness](#4-fairness)
5. [Proofs](#5-proofs)
6. [Where the code and its words disagree](#6-where-the-code-and-its-words-disagree)
7. [What is not modelled](#7-what-is-not-modelled)

## 1. The system

`PROJECT.json` lists every component with its sources and every hazard with the
line where it bites. The parts with state of their own, what they do, what is
hard about them, what makes them right, and the modules that say so:

| part | state | operations | what is hard | what makes it right | modules |
|---|---|---|---|---|---|
| Agent graph (`opsrag/agent/`) | the checkpointed channels of a thread | entry, retrieve, rerank, grade, rewrite, generate, verify, triage, tool_caller, reasoner | channels keep the last turn's values; loops with separate budgets under one recursion limit | each turn ends with an answer, from its own evidence; nothing ungrounded is cached | Turn, ToolTurn, CragTurn, Chat |
| File pipeline (`opsrag/ingestion/pipeline.py` `_index_repo_locked`) | asyncio.Queue and its join counter, worker tasks | stream files, put, get, task_done, sentinels, join, gather | one producer and many workers, a stream that raises half way, a worker that dies | ends; sweep only when every file is settled; memory bounded | FileQueue, FilePass |
| Repository index (`ingestion/pipeline.py`, `indexed_files/postgres.py`, `vectorstores/`) | tracker rows per (repo, branch, path), chunks per (repo, path), an advisory lock per (repo, branch) | index_repo: lock, list, skip or rewrite each file, record, sweep, purge | two stores and no common transaction; overlapping runs; crashes; two branches | a recorded file is indexed; only deleted files are swept; a clean run mirrors the branch; the index catches up | Ingestion |
| Schema migrations (`opsrag/db/migrate.py`) | migration table, advisory lock, open transactions | apply_all, roll_back | every replica and job runs it at its start; lock and commit are not one step | nothing applied twice; no gaps; a return means migrated | Migrations |
| Investigations (`opsrag/investigations/`) | event table with a BIGSERIAL, lifecycle row, the rounds of the reasoner | run_one: emit, mark_status; rounds of tools and verdicts | detached task, errors swallowed, numbers drawn before the commit; a budget looked at in two places | one outcome, last, and in agreement with the row; verdicts over all results | EventLedger, Reasoner |
| Event stream and page (`api/routes_investigations.py`, `ui/src/hooks`, `ui/src/components`) | cursors, the EventSource, reducer state | poll, close, reconnect, snapshot | streams end and are opened again; snapshot and stream race | no event lost, none twice, the end is heard | EventStream, InvestigationPage |
| Usage persistence, MCP audit log (`usage_persistence.py`, `mcp_server/audit.py`) | a buffer, a flush task, a table | enqueue, flush, put back, close | a batch that fails half way, a cap, a cancel | no row vanishes or is doubled without a cause; rows are delivered | WriteBuffer |
| Tool result cache (`mcp/tool_cache.py`) | LRU entries, an index per tool | get_or_compute, purge, expiry | computing outside the lock; an index kept apart from the store | a purge leaves nothing behind | ToolCache |
| Correction moderation (`pending_corrections.py`, `correction_store.py`, `api/routes.py`) | pending rows, injected chunks | submit, approve, reject, delete | approve writes to two stores | what is live was approved and what is approved is live | Review |
| Channels (`opsrag/channels/`) | quotas, placeholder messages, heartbeat tasks | on_message, heartbeat, finalize | check and use of a quota are two steps; two tasks edit one message | overruns only by overlap; the answer stays | Channel |
| Index progress (`indexing_tracker.py`, `indexing/pg_store.py`) | trackers in each process, a row per repository | start, progress, finish, flush | several writers of a row; a job that dies | a finished run is shown as finished | none (section 7) |
| Answer cache (`qa_cache.py`) | cached answers with the repositories they used | lookup, store, invalidate_repo | answering during a reindex | what is stored is grounded; none outlives its chunks | what is stored: Chat |
| Index jobs and schedule (`job/`, `scheduler/`, webhooks) | Kubernetes jobs, a daily loop | launch, daily, push webhook | overlapping callers of index_repo | see the repository index | StartRun of Ingestion |
| Cloned repositories (`scm/git_clone.py`) | a directory per repository | clone, pull, list, read | long-lived process, several branches | what is read is the branch's head | none (section 7) |
| Sessions, memory, users, tokens, settings, runbooks, feedback | rows | one statement each | little | | none |
| Connectors, document sources, models, parsers, vector and graph stores, UI | none of their own | I/O and pure functions | | | none |

How they meet: jobs, the scheduler, webhooks and the API all call `index_repo`,
in different processes; it is kept from overlapping itself by the advisory lock
only. It writes the vector store that the agent reads, invalidates the answer
cache, and reports to the tracker. All stores of a process share Postgres pools
that `apply_all` has migrated first. An investigation is a task of the API
server; its events reach the browser through Postgres, so that any replica can
serve the stream. Chat questions, from the web or from a channel, are turns of
a thread of the agent; its tools go through the tool cache, every call of a
model leaves a row in the usage buffer, and an approved correction becomes a
chunk that retrieval finds.

## 2. Modules

Every definition that models code names the lines it stands for in
`PROJECT.json` under `map`. A definition whose comment starts with "Mutant of"
is a plausible bug in the definition it names; each property is violated when
one of them takes that definition's place, which is how we know the property can
fail.

```
Turn <-extends- ToolTurn  <-+
Turn <-extends- CragTurn  <-+- Chat <- MCChat                  Chat_proofs

FilePass  <--implements--  FileQueue  <- MCFileQueue      FileQueue_proofs
                           Ingestion  <- MCIngestion      Ingestion_proofs
                                                          IndexRuns_proofs
                           Migrations <- MCMigrations     Migrations_proofs

EventLedger <-extends- EventStream <-+- InvestigationPage
                                     |               EventStream_proofs
WriteBuffer, ToolCache, Review,      |
Reasoner, Channel    <---extends-----+- Pod                     Pod_proofs
```

The MC modules only name listings and symmetry sets.

**Turn, ToolTurn, CragTurn, Chat** are a thread of questions to one compiled
LangGraph graph. A node is one superstep and one action; `at` is the node that
runs next, and `Enter`/`Leave` keep the count against the recursion limit
(`Cut` is GraphRecursionError). The channels are three records: `tool` (the
batch under way, rows owed a result, the budgets), `doc` (retrieved, merged and
graded chunks, the counters of the two loops) and `out` (the answer and its
chunks). `Ask` resets what `query_with_session` resets and keeps the rest.
`Turn` has the start, the end and the nodes the graphs share, `ToolTurn` the
lane of live tools, `CragTurn` the corrective loop of the full graph; `Chat` is
their union, and its constant `Graphs` names which of the three graphs of
`agent/graph.py` a deployment may have compiled. Evidence is where it came from:
the pass of the turn that retrieved it. A model's decisions are
nondeterministic: which tools it calls and how many, what is relevant, whether
an answer is grounded, whether a call raises. `kept` is what the nodes stored in
the answer cache and the investigation cache, with the verdict it had.

**FileQueue** is the queue inside `_index_repo_locked`. asyncio runs one
coroutine from one await to the next, so an action is what lies between two
awaits. `RequestBatch`/`FetchReturns`/`FetchFails`/`YieldFile` are
`get_files_batch` of the SCMs, which differ only in how many files they fetch
ahead (`ScmBatch`: 1 for a local directory, the semaphore for GitLab, the whole
listing for GitHub). `PutFile` blocks on a full queue. A stream that ends or
raises goes to `"seal"` (the producer's `finally`, `PutSentinel`), then to
`queue.join()` or past it. `Gather` takes the verdict: `"swept"`, `"partial"` (a
worker died) or `"raised"`. `CrashWorker` is a BaseException such as
CancelledError, which `except Exception` lets through. What a worker does with
its file is `Ingestion`'s subject; here it is done or dies.

**FilePass** is what a pass promises with no queue in it: each file is waiting,
worked on, settled or lost, and the sweep comes after all are settled.

**Ingestion** is any number of concurrent `index_repo` calls on one repository,
with the two stores. A run's `phase` is where `_index_repo_locked` is,
`job[r][p]` where `_process_file` is with one path; every await is one action,
so that another run, a push, a failure or a crash may come between any two. The
chunk store is a set of (path, content, upsert batch), with no branch, as the
ids and the filters of the code have none; a tracker row belongs to a branch.
`last_seen_at < run_started_at` is the only comparison of times, so `touched[r]`
keeps the rows seen since `r` started instead of the times. `Barren` contents
are those no parser takes or that give no chunks: `_process_file` returns before
any write. Each failure the code handles is an action of its own, enabled by its
name in `Faults`; what the handler does is what the action does ("proceeding
(may orphan)", "Failure here is non-fatal", ...). A call may also fail with its
effect. `SweepFails` has both outcomes, as the sweep's DELETE commits by itself
and its answer, the list of the paths to purge, may be lost ("reply"); so has
`MarkSeenFails`. "clock" is a database behind the application's clock: what it
records (`RecordEarly`) or touches (`MarkSeenEarly`) looks older than the run.
`clean[r]` is a history variable: no failure in the run and no push to its
branch since it listed the files.

**Migrations** is `apply_all` on replicas with images of different age. The
pools of all three callers have autocommit off: the statement that takes the
advisory lock opens the transaction, the `transaction()` blocks inside are
savepoints, and what was inserted is committed by `pool.connection()` when it
closes, after the `finally` has unlocked. `inserted[r]` is therefore the open
transaction, `table` what is committed, and `Close` comes after `Unlock`. An
uncommitted key of another transaction blocks an insert (`Blocked`), a committed
one rejects it. `Restart` stands for a crash at any point, for an ordinary
restart and for a redeployment with a newer or older image.

**EventLedger** is the writers of an investigation's events: `run_one` and
`_run_pipeline` as far as the order of their writes goes. The events before the
outcome are counted, not told apart: a `started`, then any number of `step`s. An
INSERT draws its number (`EmitBegin`) and is committed (`EmitCommit`) or lost
(`EmitLost`), and the caller cannot tell, as `emit_event` swallows every
exception. `mark_status` may raise with its UPDATE committed or not (`Stamp`,
`Unstamp`). A failed INSERT may leave a gap in the numbers or not; no reader can
tell, so the model always leaves one.

**EventStream** is the readers: the generator of the SSE endpoint (`Poll`,
`Check`: rows first, then the status, as in the code) and the hook in the
browser (`Connect`, `Receive`, `StreamEnds`). A poll reads `FirstOf` the events
after its cursor, which is ORDER BY and LIMIT said by what they give. The wire is a FIFO that a broken
connection (`Blip`) empties. When another investigation is picked, the page
passes the last number of what it still shows, which may be of an earlier
investigation than the one it followed, or even of the new one, if a snapshot
never came; `Switch` allows the number of any committed event, or 0.

**InvestigationPage** adds what the page does beside the hook: it asks for a
snapshot at the moment the hook opens the stream, replaces its state when the
snapshot arrives and appends what the stream brings.

**WriteBuffer** is the buffer of both `usage_persistence.py` and the audit log.
Rows are numbered as they are accepted. A flush is `Take` and one `InsertChunk`
for each chunk, which commits by itself; `InsertFails` puts the whole batch back
in front, whatever was committed, and may itself be committed. `TimesOut` is the
cancel of `close()`: no handler catches CancelledError, so the batch is gone.

**ToolCache** has an action for each section under the lock; the tool runs
between `Miss` and `Answer`. An expired entry is popped from the store and stays
in the index, as in the code. `epoch`, the purges a tool has had when an entry
was put, is a history.

**Review** is a correction from its submission to its chunk. An approval is
three awaits (`OpenApproval`, `Inject`, `Resolve`) of one operator; others
approve, reject and delete in between, each await may fail with its effect or
without it, and the server may die. The chunk's id is a digest of the question
and the author, so corrections of one slot replace each other. `torn`,
`crossed` and `displaced` are histories that say why a row and a chunk differ.

**Reasoner** is the loop of `_run_pipeline` over `_reasoner_tool_round` with
`_RunBudget`: time in ticks, each tool within its timeout, each model within
`ModelTime`. `RoundOver` goes on to the evaluator whenever there is a result it
has not seen.

**Channel** is `on_message` with the quota of `permission.py` and the heartbeat
of `streaming.py`: `Accept` reads the bucket, `Finalized` writes it, and the
heartbeat edits the placeholder beside the agent until `Finish` has cancelled
and awaited it. An edit is in three parts: the adapter is called (`Beat`), the
request leaves (`BeatSent`), and the platform applies it or drops it
(`BeatLands`), at any later time. The cancel ends the task of this process, so
it stops an edit in the first part and no other; `sent[m]` counts those that may
still land, after the answer too.

**Pod** puts these five and the event stream into one serving process. They
share no variable, so in each behaviour one of them moves: what a part may do
does not depend on the others, and the theorem `PodImplementsParts` says that
each behaviour of the process is one of every part.

## 3. Runs

All are `tlc -config <run>.cfg <module>`; none uses a state constraint. Where a
run declares a symmetry, its sets are only compared for equality and the run
checks no liveness. "Violation" runs are discussed in section 6.

| run | properties | instance |
|---|---|---|
| Chat | TypeOK, FirstCallServed, AnsweredOrDropped, LimitIsBackstop, FreshEvidence, KeptIsGrounded, RegensSpent | each of the three graphs, 2 turns, batches of 2 calls, 2 calls and 2 unknown names a turn, 1 rewrite, 2 regenerations, 22 supersteps |
| ChatCarry (violation) | SourcesOfTurn | the multi-agent graph, 2 turns |
| FileQueue | TypeOK, SweepOnlyWhenSettled, MemoryBound, ImplementsPass, Terminates | 9 files, 2 workers (queue of 4), batches of 2; fetches fail, the stream raises, workers die |
| IngestionExact | TypeOK, TrackedIndexed, CleanRunExact | 2 paths, 3 contents (1 barren) that may come back, 2 runs, 2 failures of 7 kinds |
| IngestionFaults | CleanRunComplete, CleanRunReplaces, SkipSound, PurgeSpares, CatchesUp, RunsEnd | 1 path, 3 contents (1 barren) that never come back, 2 upserts a file, 2 runs, 3 failures of 12 kinds, crashes and lost sweep answers included; fair |
| IngestionSweep | SweepOnlyGone | 1 path, 2 runs with and without the lock, 2 failures of 10 kinds |
| IngestionFetch (violation) | SweepOnlyGone | 2 paths, 1 run, one fetch fails |
| IngestionBranches (violation) | SkipSound | 2 branches, 1 path, no failure |
| Migrations | TypeOK, AppliedOnce, NoGaps, ReturnsMigrated, Ends | 2 replicas, 2 migrations, contents good, edited or broken, every pair of images, 2 restarts; fair |
| MigrationsReread (violation) | SeesEarlierWork | the same with 1 restart |
| InvestigationPage (violation) | ShownExactly | 1 investigation, no failure |
| Pod | TypeOK, OneEnd, CompletedIsStamped, HeardExactly, HearsTheEnd (stream); RowsAccounted, RowsDelivered (buffer); PurgeReaches (tool cache); ReviewDecides (corrections); OverrunBounded, EvidenceJudged (rounds); QuotaOverrun, AnswerStays (channel) | see below; fair |

What they show:

- **Chat.** Whatever the models decide and whatever the previous turn left in
  the channels: `tool_caller` never meets a batch of which no call can be
  served; a call without a result row means that the budget is spent; the
  recursion limit cuts no turn but one with a refused call; the answers of the
  retrieval lane rest on the latest pass of their own turn; no cache keeps an
  answer that failed its check; and a flagged answer of the full graph has had
  all its regenerations. In the program the limit is 48, for 10 calls, 3
  unknown names, 3 rewrites and 3 regenerations. The run's is 22, which is
  exactly what its budgets need (`LimitSuffices`), so that one superstep more
  in any loop is found. Two turns let one's leftovers meet the next's nodes; a
  batch of two with a budget of two is dropped in its middle; refused tools,
  the only calls no budget is charged for, are two and symmetric.
- **FileQueue.** The sweep is allowed only when each listed file has been
  through a worker or was dropped by its own failed fetch; the file bodies in
  memory are bounded by the queue, the workers, the producer's hand and one SCM
  batch; and unless a worker dies, the run ends: `queue.join()` returns, and it
  would not if one sentinel were taken and not counted. That the join counter
  is exact at every moment is the theorem `JoinCounterExact`. Nine files are more than the queue, the
  workers and the hand together can hold (4 + 2 + 1), so backpressure is met and
  so is a queue full of files when the sentinels are to be put. Two workers are
  enough for one to leave or die while the other works.
- **IngestionExact.** With the lock working, a run that met no failure and no
  push leaves the index of its branch exact: every file's chunks and row, and
  nothing else, whatever earlier runs left. `TrackedIndexed` says that between
  rewritings a row never vouches for chunks that are not there. The failures are
  those that do not leave chunks without a row; with those, exactness is not
  promised by the code (section 6). Two paths let one file's failure meet
  another's success; three contents let one change to another, to nothing to
  index, and back.
- **IngestionFaults.** With the failures of the write path, a clock that lags,
  and crashes between any two awaits, a skipped file still has all its chunks,
  the first run without a failure leaves every file indexed, and no purge
  deletes chunks a row vouches for. What a sweep or a purge that fails leaves
  behind is of files that are gone: a clean run leaves a file of its branch with
  the chunks of its content and no others (`CleanRunReplaces`), which is what
  remains of `CleanRunExact` here. That stands on the delete before the upsert,
  whose own failure ("may orphan") is therefore left out; the theorems about
  skips and complete runs allow it. Each run ends and gives the lock back; once
  pushes and failures stop (both are finite here, since contents do not come
  back), the daily run brings the index up to date and it stays so. Two upserts
  make a half-written file possible; three failures let the repair of one fail,
  and its repair too. It assumes contents that never come back; section 6 says
  what happens otherwise.
- **IngestionSweep.** The sweep takes only files that are gone or give no
  chunks, even with the lock lost and two runs at once, as long as the run
  records or touches every file it was given. Six failures prevent that, each
  alone: a fetch, a parse, an embedding, an upsert or a record that fails, and
  the clock. With any one of them as its `Faults`, IngestionFetch finds a listed
  file that is swept (section 6). One path suffices as
  the sweep looks at each row by itself; the theorem `SweepTakesOnlyGone` is for
  any number.
- **Migrations.** Although the lock is free before the commit, no migration is
  applied twice, the committed schema is always a prefix in the files' order, a
  replica whose `apply_all` returned finds all its files applied with the
  contents it has on disk, and no replica waits forever. Two migrations give an
  order and a gap to make; two restarts let a replica crash in an open
  transaction, come back with another image, and do so again.
- **Pod**, part by part. *Stream*: 2 investigations, a page that opens both, 2
  events before the outcome, polls of 1 row, 2 polls a stream, 1 failure of 5
  kinds. One outcome and nothing after it; a reported completion is in the
  lifecycle row; what the hook passes on is what the ledger holds from where it
  began to the last number it has seen, in order and once, across recycled
  streams, broken connections and a server that dies; a terminal event reaches
  the page that stays. Two investigations interleave their numbers, so that
  one's commit can fall below the other's; polls of one row make a backlog
  longer than a poll. *Buffer*: a cap of 3 that drops 1, chunks of 2, 5 rows, 2
  failed flushes: a batch of two chunks can fail in the middle, go back, and
  fill the buffer past the cap. Rows are lost or doubled only where
  `RowsAccounted` says, and the rest is delivered. *Tool cache*: 2 tools with 2
  arguments, 2 callers, 2 entries, 2 purges a tool: eviction, expiry and
  replacement in any order between a call and a purge. *Corrections*: 2 texts
  for 1 slot, 2 operators, any number of crashes. *Rounds*: 3 rounds of at most
  2 served calls of 3 asked for, a budget of 5 calls that ends in the middle of
  a round, and a clock of 4 ticks that one slow round overruns. *Channel*: 2
  users, 2 messages, a quota of 1: two messages of one user overlap and take the
  bucket past its quota, or come one after the other and the second is refused;
  each has a heartbeat with one edit, which may land before the answer, after
  it, or never.

The bounds are the CONSTANTS `MaxTurns`, `MaxBatch`, `MaxMishaps`,
`MaxRestarts`, `MaxEvents`, `MaxVisits`, `MaxRows`, `MaxFailedFlushes`,
`MaxPurges`, `MaxAsked` and `ModelTime`, which cut behaviours short; the others
(`Polls`, 60 in the code, `Limit`, 200 in the stream and 48 in the chat, `Cap`,
`ChunkSize`, `Quota`, ...) are parameters of the algorithms, taken small so that
they are reached.

Deadlock is checked in all Ingestion runs. The others may really stop: a thread
after its last question, a replica that has migrated, a page whose investigation
is over, a process that was shut down, a pipeline whose workers died
(`FileQueue` says it with an `Over` step; section 6 has the hang).

## 4. Fairness

- **FileQueue**: weak fairness of the fetches, of the producer and of each
  worker. The event loop resumes each coroutine that can run, and the awaits in
  a fetch and in `_process_file` are network calls whose clients time out. A
  worker may always choose to crash, so fairness of a worker's step does not
  promise that a file is finished.
- **Ingestion**: weak fairness of each run's step, for the same reason, and of
  starting a run on each branch when the lock is free (`scheduler/daily.py`).
  Nothing is asked of pushes or of failures.
- **Migrations**: weak fairness of each replica's step. Acquiring the lock needs
  no more than that here, since each holder releases it and asks for it once in
  a start, and restarts are bounded; Postgres queues waiters anyhow.
- **Pod**: weak fairness of each page's reading step: the server polls, the
  browser receives and reconnects 1.5 s after an error. Of the buffer's task,
  which wakes at each interval and whose INSERTs answer (`Drain`), and of
  `close()` going on when the task has ended. Nothing is asked of the runners
  (they may stop at any event), of the user, who may switch away, of callers, of
  failures, or of shutting down.
- **Chat** has no fairness: that a turn ends is `LimitIsBackstop`, a safety
  property.

## 5. Proofs

TLAPS checks these for every value of the constants that satisfies the `ASSUME`
of their module. The assumptions only say what kinds of values the constants are
(finite non-empty workers, a listing without duplicates, bounds that are natural
numbers, `None` distinct from the rest) and, in `Chat`, that the recursion limit
is as large as the program's is for its budgets; a theorem that needs more says
so.

**Chat_proofs.** One invariant follows the control. `ServedInv`: a batch comes
to `tool_caller` with budget left. `FreshInv` and `GroundInv`: which channels a
node may find filled, by whom in this turn, and what backs an answer that may
be kept. `RegenInv`: the answers written are the regenerations and one.
`ToolSteps` and `LaneSteps` bound the supersteps at each node by the budgets
spent to get there, which gives `BudgetsEndTurns`. `CallsAreAnswered` needs one
more thing: calls are served in the order of the batch and charged as they are,
so the first call that was not served found the budget spent; everything before
it was served. The count of the rows owed then comes down to cardinalities.

**FileQueue_proofs.** `TypeCorrect` and `JoinCounterExact` go together, as the
join counter is a natural number only because it equals the queue's length plus
the busy workers. `SweepSafe` is the argument that makes the sweep safe. The
property alone is not inductive; `SweepInv` adds what the code relies on without
saying it: no listed file is forgotten while no worker has died (`Accounted`);
past its loop the producer holds nothing, and an SCM stream that did not raise
is exhausted (`Drained`); sentinels are put after every file (`FilesFirst`), so
that a worker that has met one leaves no file behind it (`ExitedSawAll`); and
the verdict comes after all workers have ended (`Verdict`). With all workers at
their sentinels and no file forgotten, each file is settled. Whether `join()`
returned is not used: the sentinels alone make the sweep safe. `MemoryBounded`
adds up the batch, the queue, the hand and the workers' files.
`PassImplemented` is the refinement: each file is in one place at a time
(`OnePlace`), so a step of the queue moves a file of the abstract pass or leaves
the pass alone, and at `Gather` the invariant of the sweep gives the pass's
guard.

**Ingestion_proofs.** `SweepTakesOnlyGone` assumes that none of the failures
that leave a file unrecorded in a run that completes can happen (`Unfinishing`:
fetch, parse, embed, upsert, record, clock) and nothing about the lock, crashes
or the number of branches. `SeenOrGone` is the invariant: while a run streams, a listed file
whose work is over and whose row stands was touched by the run. Another run may
take the row away, but whoever brings one back touches it for all runs of the
branch. `PurgeSparesTracked` assumes a lock that never fails and one branch: a
run at work holds the lock (`HoldsLock`), so between the sweep and the purge
nobody else records the doomed path (`DoomedUntracked`). `RowsAreIndexed` builds
on the same and assumes besides that nothing fails between the deletion of a
file's chunks and its record: a file being written has its chunks up to the last
upsert (`Written`), so the row comes when all are there, and only the run that
rewrites the file, or purges it when its row is gone, takes them away.

**IndexRuns_proofs** extends it to what a whole run relies on and leaves behind,
for one branch and a lock that never fails. `SkipsAreSound` rests on either of
two reasons why a row that agrees with the fetched content can be believed. If
nothing fails between the deletion of a file's chunks and its record, every row
vouches for chunks that are there, which is the invariant of `RowsAreIndexed`.
If such failures and crashes do happen, rows are left that vouch for nothing,
and then it is the history of the contents that helps (`TrustInv`): such a row
is of a content the path had before and, as contents do not come back, will not
have again, so it never agrees with a fetched one. That needs that a run which
rewrites a file found no row that agrees with the branch, hence the condition
that the tracker's reads do not fail (`Doubting`): a run that rewrites a file
which was up to date, and dies, leaves a false row that does agree. The
condition `Trusty` says "one or the other": the failures of IngestionExact meet
the first, the constants of IngestionFaults the second. `CleanRunsComplete` adds
`CleanInv`: a run stays clean while nothing fails and nothing is pushed to its
branch; what it has fetched is then what the branch holds, a file whose work is
over is recorded and has its chunks, and the run has touched its row, so the
sweep does not take it. `CleanRunsExact` says
that nothing else is there either: each chunk of a path belongs to the content
being written or, when none is, to the path's row or to a path that is about to
be purged (`Owned`), and what a run has touched is over and recorded
((`TouchedAt`), so after the sweep a row is of what the branch holds. It excludes
the failures that leave chunks no row and no sweep knows of (`Littering`), the
sweep whose answer is lost among them. `CleanRunsReplace` admits those, all but
a failed delete before the upsert, and says what they cannot spoil. Its
invariant `OnlyInv` is about one file's chunks: while it is written they are of
the content being written; when it is not, they are of its row's content, or,
where a write was torn, the row is of a content that the path will not have
again and the next run writes it anew. Litter of a path that has no row goes
when the path is next written.
 the sweep a row is of what the branch holds. It excludes
the failures that leave chunks no row and no sweep knows of (`Littering`).

**Migrations_proofs.** The question is why an advisory lock that is released
before the commit does no damage to the schema. The invariant says that rows
only accumulate, so what a replica read still stands (`StillRecorded`); that a
transaction inserts its own files (`OwnFiles`), each after those below it
(`InOrder`); and, with `AppliedOnce`, that no two open transactions carry one
migration. `InOrder` survives the race as a replica that sees less than it
should waits at the first key it misses, and is rejected there if the other
commits: the primary key does what the lock is there for. `Verified` and
`LoopDone` carry the checksums and the loop to `ReturnMeansMigrated`.

**EventStream_proofs.** `LedgerInv` ranges over the ledger's part of the state,
so each step of a reader leaves it alone. `OutcomeIsLast` holds as the runner
that commits a terminal event is over (`Ended`), and has one event under way at
most, with a number above all its committed ones (`Latest`): one writer per
investigation, which awaits each commit. `CompletionIsStamped` needs `Stamped`:
the row is written before the event, and `mark_status(FAILED)` is never reached
after it, lost answers included. `TypeCorrect` needs that a stream which polls
has polls left and that frames are under way only while a generator serves the
page (`Linked`), and of a runner that it emits within its bound (`Room`).
`PagesHearExactly` is the promise to the pages. What a page has heard is the
window of its investigation's events from its start to `seqRef` (`HeardAt`),
what is under way to it the window from there to the cursor of its stream
(`WireAt`): a poll widens the second, a received frame moves the boundary, a new
stream begins at the boundary with nothing under way. The windows do not change
while the runners write (`WindowStays`), and this is `Latest` again: numbers are
drawn before the commits and by all investigations, but an event that becomes
visible is above those of its investigation that are, and a cursor is the
number of one of them or the place where the page began.

**Pod_proofs.** One inductive invariant for each part. `RowsStayAccounted`: a
row is in one place of the buffer (`HeldOnce`) and one flush is under way at
most (`OneFlush`), which is why the put-back doubles a row once for each failed
flush and no more. `PurgesReach`: every key in the store is in the index of its
tool, whatever expired or was evicted. `RulingsHold` needs what an approval
holds in its frame (`DeskInv`): a row that was pending can only have been
rejected across it, and the chunk it injected is live or displaced.
`OverrunsAreBounded`: inside a round, the clock plus a timeout for each call
still to come stays below one round past the limit (`RoundInv`).
`AnswersStay`: a heartbeat that may still send belongs to a message whose agent
runs (`BeatInv`), so after `Finish` only what was sent before can land.
`QuotaHolds` counts the messages in hand, which are finite. `PodImplementsParts`
maps each step of the process to a step or a stutter of each part, and
`PodKeeps` carries the theorems of the six parts over, the stream's included.

Every invariant and action property that a passing run checks is stated by a
theorem, except the liveness properties (CatchesUp, RunsEnd, Ends, Terminates,
HearsTheEnd, RowsDelivered): fairness is out of the prover's reach, and they
stay with TLC. The conditions that the theorems about `Ingestion` have on
`Faults`, `Reverts` and the number of branches are not there for the proof's
sake. With "lock", with two branches, or with "tracker" or "seen" beside "crash"
TLC finds `SkipSound` violated; with any one of "record", "crash", "delete",
"purge" and "reply", with "upsert" when a file has two batches, or with "embed"
beside "stream" (a failed embedding does no harm as long as the sweep of the
same run takes the row), it finds `CleanRunExact` violated; with "lock", with
"delete", or with "crash" and contents that come back, `CleanRunReplaces`.
Section 6 tells these stories.

## 6. Where the code and its words disagree

Each "violation" run checks what a comment says against what the code does.

- **A failed fetch deletes a file from the index** (IngestionFetch;
  `scm/github.py:149`, `scm/gitlab.py:155`). The exception of one fetch is
  swallowed, the run counts as complete, and the sweep takes the untouched row
  for a deleted file and purges its chunks. The next run restores them.
- **Branches replace each other's chunks** (IngestionBranches;
  `ingestion/pipeline.py:975`). Rows are kept per branch, chunks are not. After
  another branch was indexed, a file is skipped whose chunks are the other's.
- **The migration lock is released before the commit** (MigrationsReread;
  `db/migrate.py:263`). The next holder reads the table before the rows are
  committed, runs the same migration again after they are, and fails on the
  primary key, where the comment has it "see our work as already done". The
  proofs show that the schema is unharmed; the replica's start is not.
- **The page shows an event twice** (InvestigationPage;
  `ui/src/components/InvestigationPage.tsx:381`). The hook starts from the
  sequence number known when the snapshot is asked for, not when it is there.
- **A turn ships the chunks of the turn before** (ChatCarry;
  `agent/nodes/multi_agent.py:1795`). `tool_retrieved_chunks` is not among the
  channels a turn resets.

Seen while modelling, with no run of their own.

Agent graph:

- `plan` and `grounding_checked` are not reset between turns either. A turn that
  makes no plan returns the last one's with its answer. The apology of the
  friendly lane for a model that failed is stored in the answer cache, unless an
  earlier turn of the thread happened to leave `grounding_checked` set.
- A tool call that is refused for lack of permission is charged to no budget:
  only the recursion limit ends a turn in which the model insists.
- Answers to questions that are classified as live or casual are stored in the
  answer cache with the default life of 14 days, though a comment says that live
  answers do not reach that branch; refusals are stored in the investigation
  cache; and the minimal graph keeps answers that rest on no chunk and were
  never checked.
- The stuck detector looks at the last three tool_call rows, where its comment
  has the last three hops of the reasoner: one batch of three equal calls trips
  it.

Repository index:

- A process dies between deleting a file's old chunks and recording the new
  hash, and then the file gets back the content it had: the old row vouches for
  chunks that are gone, and the file is skipped until it changes.
  (IngestionFetch with `Reverts = TRUE`, `Faults = {"crash"}`, property
  `SkipSound`.) This is why IngestionFaults has contents that never come back.
- A `record` that fails after the chunks are written lets the sweep of the same
  run take the row for a deleted file's and purge the chunks just written, where
  the comment at `ingestion/pipeline.py:1156` has it "the file IS indexed; we
  just won't dedup it next run". (IngestionFetch with `Faults = {"record"}`.) A
  parse that fails loses the file's old chunks the same way. The next run
  restores them.
- Two runs after the lock was lost, or could not be taken: one purges chunks the
  other has just recorded. (IngestionFaults with "lock" among its `Faults`,
  property `PurgeSpares`.)
- A sweep whose purge fails, or whose answer is lost after its DELETE was
  committed (`ingestion/pipeline.py:459`), forgets its paths: their rows are
  gone, and no later run deletes their chunks, which stay searchable until a
  file of that path is written again. This is why IngestionExact leaves these
  failures out. (IngestionExact with `Faults = {"purge"}` or `{"reply"}`,
  property `CleanRunExact`.)
- A database whose clock is behind the application's makes files just recorded,
  and unchanged files just touched, look older than the run, and its sweep takes
  them all. (IngestionFetch with `Faults = {"clock"}`.)
- A worker's death hangs the run. The sentinel of a worker that died of a
  BaseException stays in the queue, `queue.join()` (`ingestion/pipeline.py:724`)
  waits for it forever, and the gather that should report the crash (`:706`) is
  not reached; the lock stays taken. `Terminates` is stated for runs in which no
  worker dies.
- "At most `file_parallel * 2` files exist in memory at once"
  (`ingestion/pipeline.py:635`): that is the queue alone. The workers, the
  producer and the SCM hold more; `MemoryBound` is what holds.

Investigations:

- A snapshot that arrives after the stream's last event replaces it: the hook
  has closed, and the page shows an investigation that runs forever. (In
  InvestigationPage: `over[p]` and a snapshot that is done, but no terminal
  event in `shown[p]`.)
- The row of an investigation whose server dies stays `running`, and its page
  reconnects forever, although `docs/investigations.md:165` promises a terminal
  event. Nothing in the code takes such a row up.
- The budget of 40 calls can never be spent: 3 rounds of 6 calls are 18. A
  REASONER_STEP announces the calls beyond the sixth, which never run.
- A comment of the tool round (`investigations/runner.py:1694`) says that the
  evaluator and the reasoner can reason over a tool's failure;
  `format_evidence_pool` reads only the `result`, which is empty for a failure.
- An evaluator call that fails replaces the verdicts so far by "untested" for
  every hypothesis.

Serving process:

- The cap of the write buffers is looked at when a row is added: after a batch
  was put back they hold up to a batch more, though their comments say "Cap the
  buffer" and "bounded"; and the count of dropped rows may include rows that
  are in the table.
- The tool cache keeps the answer of a call that was under way when its tool was
  purged, and of two calls of one key the one that ends last, be it the older
  or an error. Expired entries stay in the index until the next purge.
- A rejection that crosses an approval leaves a rejected correction live, where
  `reject_correction` says that it "never reaches retrieval". A second try of a
  torn approval injects again a chunk that was deleted in between.
- The last edit of a placeholder may be undone: `stop_heartbeat` cancels and
  awaits its own task (`channels/streaming.py:117`), and an edit whose request
  has left by then may be applied by the platform after the answer's. Nothing in
  the code orders the two or looks again. `AnswerStays` therefore says no more
  than the code does: from the start of `finalize_*` no edit is sent, and an
  answer stays once no edit is outstanding. (In Pod: an answer is shown, then
  `BeatLands`.)
- Overlapping messages of a user all pass the quota (`QuotaOverrun` says by how
  much), the quota is forgotten with the process, and the placeholder of a
  process that dies stays.

Not in the models:

- A serving process flushes its own snapshot, restored at its start, over the
  row of a job that has finished: the guard of `indexing/pg_store.py:77`
  protects rows in 'listing' and 'indexing' only. `job/indexer.py:17` says that
  the durable state carries the status and error of each target regardless. A
  second job that the lock turns away flushes 'queued' over the row of the
  first; a job that dies leaves 'indexing' for good. In one process, a request
  for a repository that is being indexed replaces its entry and its counts.
- `invalidate_repo` is called by the handlers of the API process only; a reindex
  by a job or by the daily run leaves the answers made from the old chunks to
  their TTL, and so does an answer that is stored after the invalidation.
- `roll_back` takes no lock and reverts the migrations with the latest
  `applied_at`, which is when the transaction began.
- The task of a push webhook is neither awaited nor kept.

## 7. What is not modelled

Left out of the modules that exist, and why:

- Agent graph: the older tool-calling graph, which `multi_agent` replaces; the
  wiring without its optional parts (`verify_grounding` and the others are on,
  as by default); the compaction of tool messages, which keeps one row for
  another; the text of questions and answers.
- Repository index: the entity graph beside the chunks, document sources other
  than repositories (no sweep follows them), the reconcile and cleanup
  endpoints.
- Migrations: `roll_back`. With it `NoGaps` is not a property of the code: its
  order is of transaction starts, and a replica that starts between two of its
  transactions leaves a gap.
- Investigations: the lanes and the hypotheses before the rounds, which change
  no state but the events; what is in an event. That an event is lost is in
  EventLedger, not in Reasoner.
- Channels: the allow-lists, which only refuse, and thread context and images,
  which only shape the query.
- Corrections: the feedback row beside a submission, which is a log.

Components with no module:

- Index progress: a display of what `index_repo` does, which nothing reads back
  to decide anything; what its writers do to each other is in section 6.
- Answer cache and investigation cache: similarity searches and filters in
  Qdrant; what they are given to keep is `KeptIsGrounded`.
- Cloned repositories: `Ingestion` and `FileQueue` take an SCM by its interface;
  a clone that is pulled once per process is one whose `source` lags.
- Index jobs, schedule and webhooks: callers of `index_repo`, which `StartRun`
  stands for.
- Connectors, document sources, models, parsers, vector and graph stores (I/O or
  functions of a document; `Ingestion` keeps whether they fail and what they
  leave); sessions, memory, tokens, settings, runbooks and feedback (one
  statement an operation); scopes and rate limits (tables and counters a unit
  test covers); the UI beyond the investigation page.

What would come next: the guarded and unguarded writers of the progress rows,
with a job that dies; an answer under way against a reindex, as the composition
of `Chat`'s caches with `Ingestion`.
