----------------------------- MODULE Ingestion ------------------------------
(***************************************************************************)
(* Index runs over one repository: IngestionPipeline.index_repo with the   *)
(* vector store, the indexed_files tracker and the per-(repo, branch)      *)
(* advisory lock.                                                          *)
(*                                                                         *)
(* The two stores are keyed differently.  A tracker row belongs to         *)
(* (repo, branch, path) and holds the hash of the content last recorded    *)
(* and the time the file was last seen.  A chunk carries (repo, path) and  *)
(* a hash of its content in its id, and no branch.  No transaction spans   *)
(* the two, so every step below is one await of the code.                  *)
(*                                                                         *)
(* A call that raises may have had its effect all the same: its reply was  *)
(* lost.  For the two calls where that leads to new states, the sweep's    *)
(* query and mark_seen, both outcomes are there.  For the others it leads  *)
(* where the call leads when it succeeds and the run goes on or fails at   *)
(* its next step.                                                          *)
(*                                                                         *)
(* Times are compared in one place only, last_seen_at < run_started_at in  *)
(* sweep_deleted, so a run keeps the set of rows touched since it started. *)
(*                                                                         *)
(* FileQueue models how a run hands files to its workers; here a run may   *)
(* have any number of its files in progress at once.                       *)
(***************************************************************************)
EXTENDS Naturals, FiniteSets

CONSTANTS Paths,        \* the paths the repository may contain
          Branches,     \* the branches that are indexed
          Versions,     \* file contents (with the index fingerprint)
          Barren,       \* the contents that give no chunks, or no parser takes
          Batches,      \* upsert calls needed for the chunks of one file
          Runs,         \* concurrent calls of index_repo, over all processes
          None,         \* no file, no row, nobody
          Reverts,      \* whether a path may get back a content it had before
          Faults,       \* the failures that may happen, by name
          MaxMishaps    \* bound on the number of failures

AllFaults == {"lock", "list", "fetch", "stream", "tracker", "seen", "parse",
              "delete", "embed", "upsert", "record", "query", "reply",
              "purge", "clock", "crash"}

ASSUME IngestionAssumption ==
  /\ Barren \subseteq Versions
  /\ Batches \in Nat \ {0}
  /\ None \notin Versions \cup Runs
  /\ Reverts \in BOOLEAN
  /\ Faults \subseteq AllFaults
  /\ MaxMishaps \in Nat

VARIABLES source,   \* source[b][p]: the content at the head of b, or None
          used,     \* used[b][p]: every content the path ever had, kept
                    \* when Reverts is FALSE
          points,   \* the vector store: <<path, content, batch>> chunk groups
          row,      \* row[b][p]: the tracker's content_hash, or None
          lock,     \* lock[b]: the run holding the advisory lock, or None
          phase,    \* phase[r]: "idle", "list", "stream", "drain", "purge"
          branch,   \* branch[r]
          listing,  \* listing[r]: what list_files returned
          touched,  \* touched[r]: rows of its branch with last_seen_at at or
                    \* after run_started_at
          doomed,   \* doomed[r]: swept paths whose chunks are still to delete
          job,      \* job[r][p]: the run's work on one file
          clean,    \* clean[r]: the run met no failure, and nobody pushed to
                    \* its branch since it listed the files (history)
          mishaps   \* failures that may still happen (bound)

index  == <<points, row>>
env    == <<source, used>>
vars   == <<env, index, lock, phase, branch, listing, touched, doomed, job,
            clean, mishaps>>

(* content: what the file held when the stream asked for it, kept as a     *)
(* history value when the fetch fails or the work is over.                 *)
(* The stages of _process_file.  "skip": should_skip said yes; "parse": it *)
(* said no; "write": old chunks deleted, done of Batches upserts finished; *)
(* "over": returned, or never fetched; "failed": raised, or not recorded.  *)
Stages == {"none", "fetched", "skip", "parse", "write", "over", "failed"}
Underway == {"fetched", "skip", "parse", "write"}
Jobs ==
  {j \in [stage : Stages, content : Versions \cup {None}, done : 0..Batches] :
     j.stage \in Underway => j.content \in Versions}
NoJob == [stage |-> "none", content |-> None, done |-> 0]

Chunks(p, v) == IF v \in Versions \ Barren THEN {p} \X {v} \X (1..Batches) ELSE {}
PointsOf(p)  == {x \in points : x[1] = p}
Complete(p, v) == Chunks(p, v) \subseteq points

Active(r) == phase[r] # "idle"
Stage(r, p, s) == phase[r] \in {"stream", "drain"} /\ job[r][p].stage = s

(* A failure of the given kind, in run r. *)
Mishap(kind, r) ==
  /\ kind \in Faults
  /\ mishaps > 0
  /\ mishaps' = mishaps - 1
  /\ clean' = [clean EXCEPT ![r] = FALSE]

NoMishap == UNCHANGED <<clean, mishaps>>

Init ==
  /\ source \in [Branches -> [Paths -> Versions \cup {None}]]
  /\ used = [b \in Branches |-> [p \in Paths |->
               IF Reverts THEN {} ELSE {source[b][p]}]]
  /\ points = {}
  /\ row = [b \in Branches |-> [p \in Paths |-> None]]
  /\ lock = [b \in Branches |-> None]
  /\ phase = [r \in Runs |-> "idle"]
  /\ branch \in [Runs -> Branches]
  /\ listing = [r \in Runs |-> {}]
  /\ touched = [r \in Runs |-> {}]
  /\ doomed = [r \in Runs |-> {}]
  /\ job = [r \in Runs |-> [p \in Paths |-> NoJob]]
  /\ clean = [r \in Runs |-> FALSE]
  /\ mishaps = MaxMishaps

-----------------------------------------------------------------------------
(* The world: somebody pushes to a branch. *)
Push(b, p, v) ==
  /\ v # source[b][p]
  /\ v = None \/ Reverts \/ v \notin used[b][p]
  /\ source' = [source EXCEPT ![b][p] = v]
  /\ used' = IF Reverts THEN used ELSE [used EXCEPT ![b][p] = @ \cup {v}]
  /\ clean' = [r \in Runs |-> clean[r] /\ branch[r] # b]
  /\ UNCHANGED <<index, lock, phase, branch, listing, touched, doomed, job,
                 mishaps>>

-----------------------------------------------------------------------------
(* A run *)

Begin(r, b) ==
  /\ phase' = [phase EXCEPT ![r] = "list"]
  /\ branch' = [branch EXCEPT ![r] = b]
  /\ touched' = [touched EXCEPT ![r] = {}]
  /\ UNCHANGED <<env, index, listing, doomed, job>>

(* Mutant of StartRun: a run that finds the lock taken goes on. *)
StartRunAnyway(r, b) ==
  /\ phase[r] = "idle"
  /\ lock' = [lock EXCEPT ![b] = r]
  /\ Begin(r, b)
  /\ clean' = [clean EXCEPT ![r] = TRUE]
  /\ UNCHANGED mishaps

(* pg_try_advisory_lock succeeds; a run that finds it taken returns 0 and  *)
(* changes nothing.  run_started_at is read next.                          *)
StartRun(r, b) ==
  /\ phase[r] = "idle"
  /\ lock[b] = None
  /\ lock' = [lock EXCEPT ![b] = r]
  /\ Begin(r, b)
  /\ clean' = [clean EXCEPT ![r] = TRUE]
  /\ UNCHANGED mishaps

(* repo_lock cannot reach Postgres: "proceeding without lock". *)
StartUnlocked(r, b) ==
  /\ phase[r] = "idle"
  /\ Mishap("lock", r)
  /\ Begin(r, b)
  /\ UNCHANGED lock

(* list_files *)
ListFiles(r) ==
  LET b == branch[r]
      found == {p \in Paths : source[b][p] # None}
  IN
  /\ phase[r] = "list"
  /\ phase' = [phase EXCEPT ![r] = "stream"]
  /\ listing' = [listing EXCEPT ![r] = found]
  /\ job' = [job EXCEPT ![r] = [p \in Paths |->
              IF p \in found THEN NoJob ELSE [NoJob EXCEPT !.stage = "over"]]]
  /\ NoMishap
  /\ UNCHANGED <<env, index, lock, branch, touched, doomed>>

(* The run's coroutine ends; leaving the async with releases its lock. *)
Leave(r) ==
  /\ phase' = [phase EXCEPT ![r] = "idle"]
  /\ lock' = [b \in Branches |-> IF lock[b] = r THEN None ELSE lock[b]]
  /\ listing' = [listing EXCEPT ![r] = {}]
  /\ touched' = [touched EXCEPT ![r] = {}]
  /\ doomed' = [doomed EXCEPT ![r] = {}]
  /\ job' = [job EXCEPT ![r] = [p \in Paths |-> NoJob]]
  /\ UNCHANGED <<env, index, branch>>

(* list_files raises out of index_repo. *)
ListRaises(r) ==
  /\ phase[r] = "list"
  /\ Mishap("list", r)
  /\ Leave(r)

(* The process dies; Postgres drops the lock with the connection. *)
Crash(r) ==
  /\ Active(r)
  /\ Mishap("crash", r)
  /\ Leave(r)

(* The lock's connection drops under a running run. *)
LoseLock(r) ==
  /\ Active(r)
  /\ lock[branch[r]] = r
  /\ Mishap("lock", r)
  /\ lock' = [lock EXCEPT ![branch[r]] = None]
  /\ UNCHANGED <<env, index, phase, branch, listing, touched, doomed, job>>

-----------------------------------------------------------------------------
(* One file *)

SetJob(r, p, new) ==
  /\ job' = [job EXCEPT ![r][p] = new]
  /\ UNCHANGED <<env, lock, phase, branch, listing, doomed>>

GoTo(r, p, stage) == SetJob(r, p, [job[r][p] EXCEPT !.stage = stage])

(* last_seen_at = NOW(): from then on the row is newer than the start of   *)
(* every run in progress, unless the application's clock is ahead.         *)
Touch(b, p) ==
  touched' = [r \in Runs |-> IF Active(r) /\ branch[r] = b
                               THEN touched[r] \cup {p} ELSE touched[r]]

(* The stream delivers the file as it is now; one that was deleted since   *)
(* the listing fails to fetch, and get_files_batch goes on without it.     *)
Fetch(r, p) ==
  LET v == source[branch[r]][p] IN
  /\ phase[r] = "stream"
  /\ job[r][p].stage = "none"
  /\ SetJob(r, p, [stage |-> IF v = None THEN "over" ELSE "fetched",
                   content |-> v, done |-> 0])
  /\ NoMishap
  /\ UNCHANGED <<index, touched>>

FetchFails(r, p) ==
  /\ phase[r] = "stream"
  /\ job[r][p].stage = "none"
  /\ Mishap("fetch", r)
  /\ SetJob(r, p, [stage |-> "over", content |-> source[branch[r]][p], done |-> 0])
  /\ UNCHANGED <<index, touched>>

(* The stream raises: what it has not delivered is never processed. *)
StreamRaises(r) ==
  /\ phase[r] = "stream"
  /\ Mishap("stream", r)
  /\ phase' = [phase EXCEPT ![r] = "drain"]
  /\ job' = [job EXCEPT ![r] = [p \in Paths |->
              IF @[p].stage = "none" THEN [NoJob EXCEPT !.stage = "over"] ELSE @[p]]]
  /\ UNCHANGED <<env, index, lock, branch, listing, touched, doomed>>

(* Mutant of Lookup: any recorded row is a reason to skip. *)
LookupIgnoresHash(r, p) ==
  /\ Stage(r, p, "fetched")
  /\ GoTo(r, p, IF row[branch[r]][p] # None THEN "skip" ELSE "parse")
  /\ NoMishap
  /\ UNCHANGED <<index, touched>>

(* should_skip compares the recorded hash with the content's. *)
Lookup(r, p) ==
  /\ Stage(r, p, "fetched")
  /\ GoTo(r, p, IF row[branch[r]][p] = job[r][p].content THEN "skip" ELSE "parse")
  /\ NoMishap
  /\ UNCHANGED <<index, touched>>

LookupFails(r, p) ==
  /\ Stage(r, p, "fetched")
  /\ Mishap("tracker", r)
  /\ GoTo(r, p, "parse")
  /\ UNCHANGED <<index, touched>>

(* Mutant of MarkSeen: a skipped file returns without mark_seen. *)
SkipWithoutSeen(r, p) ==
  /\ Stage(r, p, "skip")
  /\ GoTo(r, p, "over")
  /\ NoMishap
  /\ UNCHANGED <<index, touched>>

(* mark_seen updates the row if it is still there. *)
MarkSeen(r, p) ==
  LET b == branch[r] IN
  /\ Stage(r, p, "skip")
  /\ GoTo(r, p, "over")
  /\ IF row[b][p] = None THEN UNCHANGED touched ELSE Touch(b, p)
  /\ NoMishap
  /\ UNCHANGED index

(* mark_seen on a database whose clock is behind the application's: the    *)
(* new last_seen_at predates run_started_at.                               *)
MarkSeenEarly(r, p) ==
  /\ Stage(r, p, "skip")
  /\ Mishap("clock", r)
  /\ GoTo(r, p, "over")
  /\ UNCHANGED <<index, touched>>

(* mark_seen raises inside the same try, the row touched or not: the file  *)
(* is processed anyway.                                                    *)
MarkSeenFails(r, p) ==
  LET b == branch[r] IN
  /\ Stage(r, p, "skip")
  /\ Mishap("seen", r)
  /\ GoTo(r, p, "parse")
  /\ \/ UNCHANGED touched
     \/ row[b][p] # None /\ Touch(b, p)
  /\ UNCHANGED index

(* No parser, or no chunks: _process_file returns 0 before any write. *)
NothingToIndex(r, p) ==
  /\ Stage(r, p, "parse")
  /\ job[r][p].content \in Barren
  /\ GoTo(r, p, "over")
  /\ NoMishap
  /\ UNCHANGED <<index, touched>>

ParseFails(r, p) ==
  /\ Stage(r, p, "parse")
  /\ Mishap("parse", r)
  /\ GoTo(r, p, "failed")
  /\ UNCHANGED <<index, touched>>

(* Mutant of DeleteOld: the new chunks are added to the old ones. *)
KeepOld(r, p) ==
  /\ Stage(r, p, "parse")
  /\ job[r][p].content \notin Barren
  /\ GoTo(r, p, "write")
  /\ NoMishap
  /\ UNCHANGED <<index, touched>>

(* delete_by_filter({repo, source_path}): every chunk of the path goes,    *)
(* whichever branch it came from.                                          *)
DeleteOld(r, p) ==
  /\ Stage(r, p, "parse")
  /\ job[r][p].content \notin Barren
  /\ GoTo(r, p, "write")
  /\ points' = points \ PointsOf(p)
  /\ NoMishap
  /\ UNCHANGED <<row, touched>>

(* "pre-upsert delete failed ... proceeding (may orphan)" *)
DeleteOldFails(r, p) ==
  /\ Stage(r, p, "parse")
  /\ job[r][p].content \notin Barren
  /\ Mishap("delete", r)
  /\ GoTo(r, p, "write")
  /\ UNCHANGED <<index, touched>>

(* Mutant of WriteFails: the hash is recorded whatever the upserts did. *)
WriteFailsRecorded(r, p) ==
  /\ Stage(r, p, "write")
  /\ job[r][p].done < Batches
  /\ \/ job[r][p].done = 0 /\ Mishap("embed", r)
     \/ Mishap("upsert", r)
  /\ GoTo(r, p, "over")
  /\ row' = [row EXCEPT ![branch[r]][p] = job[r][p].content]
  /\ UNCHANGED <<points, touched>>

(* Embedding, or one of the upserts, raises out of _process_file. *)
WriteFails(r, p) ==
  /\ Stage(r, p, "write")
  /\ job[r][p].done < Batches
  /\ \/ job[r][p].done = 0 /\ Mishap("embed", r)
     \/ Mishap("upsert", r)
  /\ GoTo(r, p, "failed")
  /\ UNCHANGED <<index, touched>>

(* Mutant of Upsert: one batch too many. *)
UpsertPastEnd(r, p) ==
  LET j == job[r][p] IN
  /\ Stage(r, p, "write")
  /\ j.done <= Batches
  /\ points' = points \cup {<<p, j.content, j.done + 1>>}
  /\ SetJob(r, p, [j EXCEPT !.done = @ + 1])
  /\ NoMishap
  /\ UNCHANGED <<row, touched>>

(* The next 256 chunks of the file. *)
Upsert(r, p) ==
  LET j == job[r][p] IN
  /\ Stage(r, p, "write")
  /\ j.done < Batches
  /\ points' = points \cup {<<p, j.content, j.done + 1>>}
  /\ SetJob(r, p, [j EXCEPT !.done = @ + 1])
  /\ NoMishap
  /\ UNCHANGED <<row, touched>>

(* Mutant of Record: the hash is recorded before the last upsert. *)
RecordFirst(r, p) ==
  LET j == job[r][p]
      b == branch[r]
  IN
  /\ Stage(r, p, "write")
  /\ row' = [row EXCEPT ![b][p] = j.content]
  /\ Touch(b, p)
  /\ GoTo(r, p, "over")
  /\ NoMishap
  /\ UNCHANGED points

(* indexed_files.record, then _process_file returns. *)
Record(r, p) ==
  LET j == job[r][p]
      b == branch[r]
  IN
  /\ Stage(r, p, "write")
  /\ j.done = Batches
  /\ row' = [row EXCEPT ![b][p] = j.content]
  /\ Touch(b, p)
  /\ GoTo(r, p, "over")
  /\ NoMishap
  /\ UNCHANGED points

(* record on a database whose clock is behind. *)
RecordEarly(r, p) ==
  LET j == job[r][p] IN
  /\ Stage(r, p, "write")
  /\ j.done = Batches
  /\ Mishap("clock", r)
  /\ row' = [row EXCEPT ![branch[r]][p] = j.content]
  /\ GoTo(r, p, "over")
  /\ UNCHANGED <<points, touched>>

(* "Failure here is non-fatal": the exception is logged. *)
RecordFails(r, p) ==
  /\ Stage(r, p, "write")
  /\ job[r][p].done = Batches
  /\ Mishap("record", r)
  /\ GoTo(r, p, "failed")
  /\ UNCHANGED <<index, touched>>

-----------------------------------------------------------------------------
(* The end of a run *)

Settled(r) == \A p \in Paths : job[r][p].stage \in {"over", "failed"}

(* The rows sweep_deleted matches. *)
Unseen(r) ==
  {p \in Paths : row[branch[r]][p] # None /\ p \notin touched[r]}

Swept(r) == [row EXCEPT ![branch[r]] =
              [p \in Paths |-> IF p \in Unseen(r) THEN None ELSE @[p]]]

(* DELETE ... WHERE last_seen_at < run_started_at RETURNING path *)
SweepRows(r) ==
  /\ phase[r] = "stream"
  /\ Settled(r)
  /\ phase' = [phase EXCEPT ![r] = "purge"]
  /\ doomed' = [doomed EXCEPT ![r] = Unseen(r)]
  /\ row' = Swept(r)
  /\ NoMishap
  /\ UNCHANGED <<env, points, lock, branch, listing, touched, job>>

(* The sweep's query raises: logged, and the run purges nothing.  The      *)
(* statement commits by itself, so when only its reply is lost the rows    *)
(* are gone, and with them all knowledge of their chunks.                  *)
SweepFails(r) ==
  /\ phase[r] = "stream"
  /\ Settled(r)
  /\ \/ Mishap("query", r) /\ UNCHANGED row
     \/ Mishap("reply", r) /\ row' = Swept(r)
  /\ phase' = [phase EXCEPT ![r] = "purge"]
  /\ UNCHANGED <<env, points, lock, branch, listing, touched, doomed, job>>

(* The chunks of one swept path are deleted. *)
Purge(r, p) ==
  /\ phase[r] = "purge"
  /\ p \in doomed[r]
  /\ doomed' = [doomed EXCEPT ![r] = @ \ {p}]
  /\ points' = points \ PointsOf(p)
  /\ NoMishap
  /\ UNCHANGED <<env, row, lock, phase, branch, listing, touched, job>>

PurgeFails(r, p) ==
  /\ phase[r] = "purge"
  /\ p \in doomed[r]
  /\ Mishap("purge", r)
  /\ doomed' = [doomed EXCEPT ![r] = @ \ {p}]
  /\ UNCHANGED <<env, index, lock, phase, branch, listing, touched, job>>

(* Mutant of EndRun: a run whose stream raised waits for its sweep. *)
EndRunAfterSweep(r) ==
  /\ phase[r] = "purge" /\ doomed[r] = {}
  /\ NoMishap
  /\ Leave(r)

(* repo_done, or the SCM's exception leaves index_repo. *)
EndRun(r) ==
  /\ \/ phase[r] = "purge" /\ doomed[r] = {}
     \/ phase[r] = "drain" /\ Settled(r)
  /\ NoMishap
  /\ Leave(r)

-----------------------------------------------------------------------------
FileStep(r, p) ==
  \/ Fetch(r, p)
  \/ FetchFails(r, p)
  \/ Lookup(r, p)
  \/ LookupFails(r, p)
  \/ MarkSeen(r, p)
  \/ MarkSeenEarly(r, p)
  \/ MarkSeenFails(r, p)
  \/ NothingToIndex(r, p)
  \/ ParseFails(r, p)
  \/ DeleteOld(r, p)
  \/ DeleteOldFails(r, p)
  \/ WriteFails(r, p)
  \/ Upsert(r, p)
  \/ Record(r, p)
  \/ RecordEarly(r, p)
  \/ RecordFails(r, p)
  \/ Purge(r, p)
  \/ PurgeFails(r, p)

RunStep(r) ==
  \/ ListFiles(r)
  \/ ListRaises(r)
  \/ StreamRaises(r)
  \/ SweepRows(r)
  \/ SweepFails(r)
  \/ EndRun(r)
  \/ Crash(r)
  \/ LoseLock(r)
  \/ \E p \in Paths : FileStep(r, p)

Next ==
  \/ \E b \in Branches, p \in Paths, v \in Versions \cup {None} : Push(b, p, v)
  \/ \E r \in Runs, b \in Branches : StartRun(r, b) \/ StartUnlocked(r, b)
  \/ \E r \in Runs : RunStep(r)

Spec == Init /\ [][Next]_vars

(* Every await of a run returns, and a branch is indexed again and again   *)
(* (the daily scheduler).                                                  *)
FairSpec ==
  /\ Spec
  /\ \A r \in Runs : WF_vars(RunStep(r))
  /\ \A b \in Branches : WF_vars(\E r \in Runs : StartRun(r, b))

-----------------------------------------------------------------------------
TypeOK ==
  /\ source \in [Branches -> [Paths -> Versions \cup {None}]]
  /\ used \in [Branches -> [Paths -> SUBSET (Versions \cup {None})]]
  /\ points \subseteq Paths \X Versions \X (1..Batches)
  /\ row \in [Branches -> [Paths -> Versions \cup {None}]]
  /\ lock \in [Branches -> Runs \cup {None}]
  /\ phase \in [Runs -> {"idle", "list", "stream", "drain", "purge"}]
  /\ branch \in [Runs -> Branches]
  /\ listing \in [Runs -> SUBSET Paths]
  /\ touched \in [Runs -> SUBSET Paths]
  /\ doomed \in [Runs -> SUBSET Paths]
  /\ job \in [Runs -> [Paths -> Jobs]]
  /\ clean \in [Runs -> BOOLEAN]
  /\ mishaps \in 0..MaxMishaps

(* The dedup comment of _process_file: a file whose hash is recorded is    *)
(* skipped because "the existing Qdrant points are still valid".  When     *)
(* should_skip says yes, every chunk of the content is in the store.       *)
SkipSound ==
  [][\A r \in Runs, p \in Paths :
       job[r][p].stage = "fetched" /\ job'[r][p].stage = "skip"
         => Complete(p, job[r][p].content)]_vars

(* Some run has deleted the chunks of p and not finished writing new ones. *)
Rewriting(p) == \E r \in Runs : Stage(r, p, "write")

(* Outside the rewriting of a file, a row's content is in the store. *)
TrackedIndexed ==
  \A b \in Branches, p \in Paths :
    row[b][p] # None /\ ~Rewriting(p) => Complete(p, row[b][p])

(* sweep_deleted: the rows it deletes "are exactly the deleted files".  A  *)
(* listed file loses its row only when it was deleted before its fetch, or *)
(* its new content gives no chunks.                                        *)
SweepOnlyGone ==
  [][\A r \in Runs : phase[r] = "stream" /\ phase'[r] = "purge" =>
       \A p \in doomed'[r] :
         p \notin listing[r] \/ job[r][p].content \in Barren \cup {None}]_vars

(* The sweep deletes no chunk a tracker row still vouches for: the         *)
(* destructive interleave the lock is there to prevent.                    *)
PurgeSpares ==
  [][\A r \in Runs, p \in Paths :
       p \in doomed[r] /\ p \notin doomed'[r] /\ phase'[r] = "purge"
         => \A b \in Branches : row[b][p] = None]_vars

(* The index of a branch is its source. *)
Current(b, p) ==
  LET v == source[b][p] IN
  v \in Versions \ Barren => Complete(p, v) /\ row[b][p] = v

Mirrors(b) ==
  /\ points = UNION {Chunks(p, source[b][p]) : p \in Paths}
  /\ \A p \in Paths :
       row[b][p] = IF source[b][p] \in Versions \ Barren THEN source[b][p] ELSE None

RunDone(r) == phase[r] = "purge" /\ doomed[r] = {}

(* A run that met no failure leaves every file of its branch indexed,      *)
(* whatever earlier runs left behind ...                                   *)
CleanRunComplete ==
  \A r \in Runs : RunDone(r) /\ clean[r] => \A p \in Paths : Current(branch[r], p)

(* ... and nothing else indexed.                                           *)
CleanRunExact ==
  \A r \in Runs : RunDone(r) /\ clean[r] => Mirrors(branch[r])

(* Whatever sweeps, purges and writes failed before, a clean run leaves    *)
(* the files that give chunks with those chunks and no others: what a lost *)
(* sweep or purge leaves behind is of files gone from the branch.          *)
CleanRunReplaces ==
  \A r \in Runs, p \in Paths :
    RunDone(r) /\ clean[r] /\ source[branch[r]][p] \in Versions \ Barren
      => PointsOf(p) = Chunks(p, source[branch[r]][p])

(* Once pushes and failures stop, the index catches up with the source.    *)
CatchesUp ==
  \A b \in Branches : <>[](\A p \in Paths : Current(b, p))

(* Every run ends and releases its lock. *)
RunsEnd == \A r \in Runs : Active(r) ~> ~Active(r)
=============================================================================
