-------------------------- MODULE IndexRuns_proofs --------------------------
(***************************************************************************)
(* Proofs about a whole index run of Ingestion: when a skipped file is     *)
(* really indexed, and what a run that met no failure leaves behind.       *)
(*                                                                         *)
(* All of it is for one branch and a lock that never fails, so one run is  *)
(* at work at a time.  What a row vouches for then rests on either of two  *)
(* things: no failure between the deletion of a file's chunks and its      *)
(* record (TrackedIndexed), or contents that never come back and a run     *)
(* that never rewrites a file whose row was right (TrustInv).              *)
(***************************************************************************)
EXTENDS Ingestion_proofs

USE IngestionAssumption

RowOf(r, p)   == row[branch[r]][p]
HeadOf(r, p)  == source[branch[r]][p]
Content(r, p) == job[r][p].content

-----------------------------------------------------------------------------
(* What a step of the work on one file does *)

(* The work on a file goes from one stage to the next, its content kept. *)
Moves(r, p, s, t) ==
  /\ Stage(r, p, s)
  /\ s \in Underway
  /\ Content(r, p) \in Versions
  /\ job'[r][p].stage = t
  /\ job'[r][p].content = Content(r, p)
  /\ job'[r][p].done = job[r][p].done
  /\ doomed' = doomed

Starts(r, p) ==
  /\ phase[r] = "stream"
  /\ job[r][p].stage = "none"
  /\ job'[r][p].content = HeadOf(r, p)
  /\ job'[r][p].done = 0
  /\ \/ job'[r][p].stage = "fetched" /\ HeadOf(r, p) # None
     \/ job'[r][p].stage = "over" /\ (HeadOf(r, p) = None \/ ~clean'[r])
  /\ UNCHANGED <<index, doomed, touched>>

Decides(r, p) ==
  \/ /\ \/ Moves(r, p, "fetched", "skip") /\ RowOf(r, p) = Content(r, p)
        \/ Moves(r, p, "fetched", "parse") /\ RowOf(r, p) # Content(r, p)
        \/ Moves(r, p, "fetched", "parse") /\ "tracker" \in Faults /\ ~clean'[r]
     /\ UNCHANGED touched
  \/ Moves(r, p, "skip", "parse") /\ "seen" \in Faults /\ ~clean'[r]

Skips(r, p) ==
  Moves(r, p, "skip", "over") /\ (RowOf(r, p) # None => p \in touched'[r] \/ ~clean'[r])

Drops(r, p) ==
  \/ Moves(r, p, "parse", "over") /\ Content(r, p) \in Barren
  \/ Moves(r, p, "parse", "failed") /\ ~clean'[r]
  \/ Moves(r, p, "write", "failed") /\ ~clean'[r] /\ Faults \cap Tearing # {}

Clears(r, p) ==
  /\ Moves(r, p, "parse", "write")
  /\ Content(r, p) \notin Barren
  /\ \/ points' = points \ PointsOf(p)
     \/ points' = points /\ "delete" \in Faults
  /\ UNCHANGED row

Adds(r, p) ==
  /\ Stage(r, p, "write")
  /\ Content(r, p) \in Versions
  /\ job[r][p].done < Batches
  /\ job'[r][p].stage = "write"
  /\ job'[r][p].content = Content(r, p)
  /\ job'[r][p].done = job[r][p].done + 1
  /\ points' = points \cup {<<p, Content(r, p), job[r][p].done + 1>>}
  /\ UNCHANGED <<row, doomed, touched>>

Records(r, p) ==
  /\ Moves(r, p, "write", "over")
  /\ job[r][p].done = Batches
  /\ row'[branch[r]][p] = Content(r, p)
  /\ p \in touched'[r] \/ ~clean'[r]
  /\ UNCHANGED points

Purges(r, p) ==
  /\ phase[r] = "purge"
  /\ p \in doomed[r]
  /\ \A q \in Runs, x \in Paths : x \in doomed'[q] <=> x \in doomed[q] /\ <<q, x>> # <<r, p>>
  /\ \/ points' = points \ PointsOf(p)
     \/ points' = points /\ "purge" \in Faults
  /\ UNCHANGED <<row, job, touched>>

FileEffect(r, p) ==
  \/ Starts(r, p)
  \/ Decides(r, p) /\ UNCHANGED index
  \/ Skips(r, p) /\ UNCHANGED index
  \/ Drops(r, p) /\ UNCHANGED <<index, touched>>
  \/ Clears(r, p) /\ UNCHANGED touched
  \/ Adds(r, p)
  \/ Records(r, p)
  \/ Purges(r, p)

LEMMA EffectOfGoTo ==
  ASSUME TypeOK, NEW r \in Runs, NEW p \in Paths, NEW s \in Underway, NEW t \in Stages,
         Stage(r, p, s), GoTo(r, p, t)
  PROVE  Moves(r, p, s, t)
<1> DEFINE j == job[r][p]
<1>1. /\ j \in [stage : Stages, content : Versions \cup {None}, done : 0..Batches]
      /\ j.content \in Versions
  BY DEF TypeOK, Jobs, Stage
<1>2. job'[r][p] = [j EXCEPT !.stage = t] /\ doomed' = doomed
  BY DEF GoTo, SetJob, TypeOK
<1> HIDE DEF j
<1>3. [j EXCEPT !.stage = t].stage = t /\ [j EXCEPT !.stage = t].content = j.content
      /\ [j EXCEPT !.stage = t].done = j.done
  BY <1>1
<1> QED BY <1>1, <1>2, <1>3 DEF Moves, Content, j

LEMMA EffectOfStep ==
  ASSUME TypeOK, NEW r \in Runs, NEW p \in Paths, FileStep(r, p)
  PROVE  FileEffect(r, p)
<1>s. /\ {"over", "failed", "skip", "parse", "write"} \subseteq Stages
      /\ {"fetched", "skip", "parse", "write"} \subseteq Underway
  BY DEF Stages, Underway
<1>t. /\ job[r][p] \in Jobs /\ branch[r] \in Branches
      /\ job \in [Runs -> [Paths -> Jobs]]
      /\ row \in [Branches -> [Paths -> Versions \cup {None}]]
      /\ touched \in [Runs -> SUBSET Paths]
      /\ clean \in [Runs -> BOOLEAN]
      /\ doomed \in [Runs -> SUBSET Paths]
  BY DEF TypeOK
<1>m. ASSUME NEW kind, Mishap(kind, r) PROVE ~clean'[r] /\ kind \in Faults
  BY <1>t, <1>m DEF Mishap
<1>j. ASSUME NEW new, SetJob(r, p, new) PROVE job'[r][p] = new /\ doomed' = doomed
  BY <1>t, <1>j DEF SetJob
<1>g. ASSUME NEW s \in Underway, NEW t \in Stages, Stage(r, p, s), GoTo(r, p, t)
      PROVE  Moves(r, p, s, t)
  BY <1>g, EffectOfGoTo
<1>h. Stage(r, p, "fetched") \/ Stage(r, p, "skip") \/ Stage(r, p, "parse") \/ Stage(r, p, "write")
        => Active(r)
  BY DEF Stage, Active
<1>1. CASE Fetch(r, p)
  <2>1. /\ job'[r][p] = [stage |-> IF HeadOf(r, p) = None THEN "over" ELSE "fetched",
                         content |-> HeadOf(r, p), done |-> 0]
        /\ UNCHANGED <<index, doomed, touched>>
    BY <1>1, <1>j DEF Fetch, HeadOf
  <2> QED BY <1>1, <2>1 DEF Fetch, FileEffect, Starts
<1>2. CASE FetchFails(r, p)
  <2>1. /\ job'[r][p] = [stage |-> "over", content |-> HeadOf(r, p), done |-> 0]
        /\ UNCHANGED <<index, doomed, touched>> /\ ~clean'[r]
    BY <1>2, <1>j, <1>m DEF FetchFails, HeadOf
  <2> QED BY <1>2, <2>1 DEF FetchFails, FileEffect, Starts
<1>3. CASE Lookup(r, p)
  <2>1. CASE RowOf(r, p) = Content(r, p)
    <3>1. Moves(r, p, "fetched", "skip")
      BY <1>3, <2>1, <1>g, <1>s DEF Lookup, RowOf, Content
    <3> QED BY <1>3, <2>1, <3>1 DEF Lookup, FileEffect, Decides
  <2>2. CASE RowOf(r, p) # Content(r, p)
    <3>1. Moves(r, p, "fetched", "parse")
      BY <1>3, <2>2, <1>g, <1>s DEF Lookup, RowOf, Content
    <3> QED BY <1>3, <2>2, <3>1 DEF Lookup, FileEffect, Decides
  <2> QED BY <2>1, <2>2
<1>4. CASE LookupFails(r, p)
  <2>1. Moves(r, p, "fetched", "parse") /\ UNCHANGED <<index, touched>>
    BY <1>4, <1>g, <1>s DEF LookupFails
  <2> QED BY <1>4, <2>1, <1>m DEF LookupFails, FileEffect, Decides
<1>5. CASE MarkSeen(r, p)
  <2>1. Moves(r, p, "skip", "over") /\ UNCHANGED index
    BY <1>5, <1>g, <1>s DEF MarkSeen
  <2>2. RowOf(r, p) # None => p \in touched'[r]
    BY <1>5, <1>h, <1>t DEF MarkSeen, RowOf, Touch
  <2> QED BY <2>1, <2>2 DEF FileEffect, Skips
<1>6. CASE MarkSeenFails(r, p)
  <2>1. Moves(r, p, "skip", "parse") /\ UNCHANGED index
    BY <1>6, <1>g, <1>s DEF MarkSeenFails
  <2> QED BY <1>6, <2>1, <1>m DEF MarkSeenFails, FileEffect, Decides
<1>7. CASE NothingToIndex(r, p)
  <2>1. Moves(r, p, "parse", "over") /\ UNCHANGED <<index, touched>>
    BY <1>7, <1>g, <1>s DEF NothingToIndex
  <2> QED BY <1>7, <2>1 DEF NothingToIndex, FileEffect, Drops, Content
<1>8. CASE ParseFails(r, p)
  <2>1. Moves(r, p, "parse", "failed") /\ UNCHANGED <<index, touched>> /\ ~clean'[r]
    BY <1>8, <1>g, <1>s, <1>m DEF ParseFails
  <2> QED BY <2>1 DEF FileEffect, Drops
<1>9. CASE DeleteOld(r, p)
  <2>1. Moves(r, p, "parse", "write")
    BY <1>9, <1>g, <1>s DEF DeleteOld
  <2> QED BY <1>9, <2>1 DEF DeleteOld, FileEffect, Clears, Content
<1>10. CASE DeleteOldFails(r, p)
  <2>1. Moves(r, p, "parse", "write") /\ "delete" \in Faults
    BY <1>10, <1>g, <1>s, <1>m DEF DeleteOldFails
  <2> QED BY <1>10, <2>1 DEF DeleteOldFails, FileEffect, Clears, Content, index
<1>11. CASE WriteFails(r, p)
  <2>1. Moves(r, p, "write", "failed") /\ UNCHANGED <<index, touched>>
    BY <1>11, <1>g, <1>s DEF WriteFails
  <2>2. ~clean'[r] /\ Faults \cap Tearing # {}
    BY <1>11, <1>m DEF WriteFails, Tearing
  <2> QED BY <2>1, <2>2 DEF FileEffect, Drops
<1>12. CASE Upsert(r, p)
  <2> DEFINE j == job[r][p]
  <2>1. /\ j \in [stage : Stages, content : Versions \cup {None}, done : 0..Batches]
        /\ j.content \in Versions
    BY <1>12, <1>t, <1>s DEF Jobs, Upsert, Stage
  <2>2. job'[r][p] = [j EXCEPT !.done = j.done + 1] /\ doomed' = doomed
    BY <1>12, <1>j DEF Upsert
  <2>3. j.stage = "write" /\ points' = points \cup {<<p, j.content, j.done + 1>>}
        /\ j.done < Batches /\ UNCHANGED <<row, touched>>
    BY <1>12 DEF Upsert, Stage
  <2> HIDE DEF j
  <2>4. LET new == [j EXCEPT !.done = j.done + 1] IN
          new.stage = j.stage /\ new.content = j.content /\ new.done = j.done + 1
    BY <2>1
  <2> QED BY <1>12, <2>1, <2>2, <2>3, <2>4 DEF Upsert, FileEffect, Adds, Content, j
<1>13. CASE Record(r, p)
  <2>1. Moves(r, p, "write", "over")
    BY <1>13, <1>g, <1>s DEF Record
  <2>2. p \in touched'[r]
    BY <1>13, <1>h, <1>t DEF Record, Touch
  <2>3. row'[branch[r]][p] = Content(r, p)
    BY <1>13, <1>t DEF Record, Content
  <2> QED BY <1>13, <2>1, <2>2, <2>3 DEF Record, FileEffect, Records
<1>14. CASE RecordEarly(r, p)
  <2>1. Moves(r, p, "write", "over") /\ ~clean'[r]
    BY <1>14, <1>g, <1>s, <1>m DEF RecordEarly
  <2>2. row'[branch[r]][p] = Content(r, p)
    BY <1>14, <1>t DEF RecordEarly, Content
  <2> QED BY <1>14, <2>1, <2>2 DEF RecordEarly, FileEffect, Records
<1>15. CASE RecordFails(r, p)
  <2>1. Moves(r, p, "write", "failed") /\ UNCHANGED <<index, touched>>
    BY <1>15, <1>g, <1>s DEF RecordFails
  <2>2. ~clean'[r] /\ Faults \cap Tearing # {}
    BY <1>15, <1>m DEF RecordFails, Tearing
  <2> QED BY <2>1, <2>2 DEF FileEffect, Drops
<1>16. CASE Purge(r, p) \/ PurgeFails(r, p)
  <2>1. doomed' = [doomed EXCEPT ![r] = @ \ {p}] /\ phase[r] = "purge" /\ p \in doomed[r]
        /\ UNCHANGED <<row, job, touched>>
    BY <1>16 DEF Purge, PurgeFails, index
  <2>2. \/ points' = points \ PointsOf(p)
        \/ points' = points /\ "purge" \in Faults
    BY <1>16, <1>m DEF Purge, PurgeFails, index
  <2>3. \A q \in Runs, x \in Paths : x \in doomed'[q] <=> x \in doomed[q] /\ <<q, x>> # <<r, p>>
    BY <2>1, <1>t
  <2> QED BY <2>1, <2>2, <2>3 DEF FileEffect, Purges
<1>17. CASE MarkSeenEarly(r, p)
  <2>1. Moves(r, p, "skip", "over") /\ UNCHANGED index /\ ~clean'[r]
    BY <1>17, <1>g, <1>s, <1>m DEF MarkSeenEarly
  <2> QED BY <2>1 DEF FileEffect, Skips
<1> QED
  BY <1>1, <1>2, <1>3, <1>4, <1>5, <1>6, <1>7, <1>8, <1>9, <1>10, <1>11, <1>12, <1>13,
     <1>14, <1>15, <1>16, <1>17 DEF FileStep

(* What it leaves alone: everything of the other files. *)
FileFrame(r, p) ==
  /\ UNCHANGED <<source, used, lock, phase, branch, listing>>
  /\ phase[r] \in {"stream", "drain", "purge"}
  /\ \A q \in Runs, x \in Paths : <<q, x>> # <<r, p>> =>
       job'[q][x] = job[q][x] /\ (x \in doomed'[q] <=> x \in doomed[q])
  /\ \A x \in Paths : x # p =>
       /\ \A b \in Branches : row'[b][x] = row[b][x]
       /\ \A v, n : <<x, v, n>> \in points' <=> <<x, v, n>> \in points
       /\ \A q \in Runs : x \in touched'[q] <=> x \in touched[q]
  /\ \A q \in Runs : clean'[q] => clean[q]

LEMMA FrameOfStep ==
  ASSUME TypeOK, NEW r \in Runs, NEW p \in Paths, FileStep(r, p)
  PROVE  FileFrame(r, p)
<1>t. /\ branch[r] \in Branches
      /\ job \in [Runs -> [Paths -> Jobs]]
      /\ row \in [Branches -> [Paths -> Versions \cup {None}]]
      /\ touched \in [Runs -> SUBSET Paths]
      /\ doomed \in [Runs -> SUBSET Paths]
      /\ clean \in [Runs -> BOOLEAN]
  BY DEF TypeOK
<1>1. /\ UNCHANGED <<source, used, lock, phase, branch, listing>>
      /\ phase[r] \in {"stream", "drain", "purge"}
  BY DEF FileStep, Fetch, FetchFails, Lookup, LookupFails, MarkSeen, MarkSeenEarly,
         MarkSeenFails, NothingToIndex, ParseFails, DeleteOld, DeleteOldFails,
         WriteFails, Upsert, Record, RecordEarly, RecordFails, Purge, PurgeFails, GoTo,
         SetJob, env, Stage
<1>2. \A q \in Runs, x \in Paths : <<q, x>> # <<r, p>> => job'[q][x] = job[q][x]
  <2>1. job' = job \/ \E new : job' = [job EXCEPT ![r][p] = new]
    BY DEF FileStep, Fetch, FetchFails, Lookup, LookupFails, MarkSeen, MarkSeenEarly,
           MarkSeenFails, NothingToIndex, ParseFails, DeleteOld, DeleteOldFails,
           WriteFails, Upsert, Record, RecordEarly, RecordFails, Purge, PurgeFails, GoTo, SetJob
  <2> QED BY <2>1, <1>t
<1>3. \A q \in Runs, x \in Paths : <<q, x>> # <<r, p>> => (x \in doomed'[q] <=> x \in doomed[q])
  <2>1. doomed' = doomed \/ doomed' = [doomed EXCEPT ![r] = @ \ {p}]
    BY DEF FileStep, Fetch, FetchFails, Lookup, LookupFails, MarkSeen, MarkSeenEarly,
           MarkSeenFails, NothingToIndex, ParseFails, DeleteOld, DeleteOldFails,
           WriteFails, Upsert, Record, RecordEarly, RecordFails, Purge, PurgeFails, GoTo, SetJob
  <2> QED BY <2>1, <1>t
<1>4. \A x \in Paths : x # p => \A b \in Branches : row'[b][x] = row[b][x]
  <2>1. row' = row \/ \E new : row' = [row EXCEPT ![branch[r]][p] = new]
    BY DEF FileStep, Fetch, FetchFails, Lookup, LookupFails, MarkSeen, MarkSeenEarly,
           MarkSeenFails, NothingToIndex, ParseFails, DeleteOld, DeleteOldFails,
           WriteFails, Upsert, Record, RecordEarly, RecordFails, Purge, PurgeFails, index
  <2>2. ASSUME NEW new, row' = [row EXCEPT ![branch[r]][p] = new], NEW x \in Paths, x # p,
               NEW b \in Branches
        PROVE  row'[b][x] = row[b][x]
    BY <2>2, <1>t
  <2> QED BY <2>1, <2>2
<1>5. \A x \in Paths : x # p => \A v, n : <<x, v, n>> \in points' <=> <<x, v, n>> \in points
  <2>1. \/ points' = points
        \/ points' = points \ PointsOf(p)
        \/ \E v, n : points' = points \cup {<<p, v, n>>}
    BY DEF FileStep, Fetch, FetchFails, Lookup, LookupFails, MarkSeen, MarkSeenEarly,
           MarkSeenFails, NothingToIndex, ParseFails, DeleteOld, DeleteOldFails,
           WriteFails, Upsert, Record, RecordEarly, RecordFails, Purge, PurgeFails, index
  <2> QED BY <2>1 DEF PointsOf
<1>6. \A x \in Paths : x # p => \A q \in Runs : x \in touched'[q] <=> x \in touched[q]
  <2>1. touched' = touched \/ \E b : Touch(b, p)
    BY DEF FileStep, Fetch, FetchFails, Lookup, LookupFails, MarkSeen, MarkSeenEarly,
           MarkSeenFails, NothingToIndex, ParseFails, DeleteOld, DeleteOldFails,
           WriteFails, Upsert, Record, RecordEarly, RecordFails, Purge, PurgeFails
  <2> QED BY <2>1, <1>t DEF Touch
<1>7. \A q \in Runs : clean'[q] => clean[q]
  <2>1. clean' = clean \/ clean' = [clean EXCEPT ![r] = FALSE]
    BY DEF FileStep, Fetch, FetchFails, Lookup, LookupFails, MarkSeen, MarkSeenEarly,
           MarkSeenFails, NothingToIndex, ParseFails, DeleteOld, DeleteOldFails,
           WriteFails, Upsert, Record, RecordEarly, RecordFails, Purge, PurgeFails, NoMishap, Mishap
  <2> QED BY <2>1, <1>t
<1> QED BY <1>1, <1>2, <1>3, <1>4, <1>5, <1>6, <1>7 DEF FileFrame

(* What the steps of a run other than those on one file leave alone: they  *)
(* write no chunk, add no row, take no file further, and only a crash      *)
(* leaves a writing where it is.                                           *)
RunFrame ==
  /\ UNCHANGED <<source, used, points>>
  /\ \A b \in Branches, x \in Paths : row'[b][x] \in {row[b][x], None}
  /\ \A q \in Runs, x \in Paths :
       /\ \A s \in Underway : Stage(q, x, s)' =>
            Stage(q, x, s) /\ job'[q][x] = job[q][x] /\ branch'[q] = branch[q]
       /\ \/ job'[q][x] = job[q][x]
          \/ job'[q][x].stage \in {"none", "over"} /\ job'[q][x].done = 0
       /\ Faults \cap Tearing = {} /\ Stage(q, x, "write") => Stage(q, x, "write")'

LEMMA FrameOfRun ==
  ASSUME TypeOK, [Next]_vars
  PROVE  \/ \E b \in Branches, p \in Paths, v \in Versions \cup {None} : Push(b, p, v)
         \/ \E r \in Runs, p \in Paths : FileStep(r, p)
         \/ RunFrame
<1>t. /\ row \in [Branches -> [Paths -> Versions \cup {None}]]
      /\ phase \in [Runs -> {"idle", "list", "stream", "drain", "purge"}]
      /\ branch \in [Runs -> Branches]
      /\ job \in [Runs -> [Paths -> Jobs]]
  BY DEF TypeOK
<1>n. NoJob.stage = "none" /\ NoJob.done = 0
      /\ [NoJob EXCEPT !.stage = "over"].stage = "over"
      /\ [NoJob EXCEPT !.stage = "over"].done = 0
  BY DEF NoJob
<1>1. CASE UNCHANGED vars
  BY <1>1 DEF vars, env, index, RunFrame, Stage
<1>2. ASSUME NEW r \in Runs, NEW b \in Branches, StartRun(r, b) \/ StartUnlocked(r, b)
      PROVE  RunFrame
  <2>1. /\ UNCHANGED <<source, used, points, row, job>>
        /\ phase' = [phase EXCEPT ![r] = "list"]
        /\ branch' = [branch EXCEPT ![r] = b]
        /\ phase[r] = "idle"
    BY <1>2 DEF StartRun, StartUnlocked, Begin, env, index
  <2>2. \A q \in Runs : IF q = r THEN phase'[q] = "list"
                        ELSE phase'[q] = phase[q] /\ branch'[q] = branch[q]
    BY <2>1, <1>t
  <2> QED BY <2>1, <2>2 DEF RunFrame, Stage
<1>3. ASSUME NEW r \in Runs, Leave(r),
             Faults \cap Tearing = {} => \A p \in Paths : ~Stage(r, p, "write")
      PROVE  RunFrame
  <2>1. /\ UNCHANGED <<source, used, points, row, branch>>
        /\ phase' = [phase EXCEPT ![r] = "idle"]
        /\ job' = [job EXCEPT ![r] = [p \in Paths |-> NoJob]]
    BY <1>3 DEF Leave, env, index
  <2>2. \A q \in Runs, x \in Paths :
          IF q = r THEN phase'[q] = "idle" /\ job'[q][x] = NoJob
          ELSE phase'[q] = phase[q] /\ job'[q][x] = job[q][x]
    BY <2>1, <1>t
  <2> QED BY <1>3, <2>1, <2>2, <1>n DEF RunFrame, Stage
<1>4. ASSUME NEW r \in Runs, RunStep(r), ~\E p \in Paths : FileStep(r, p)
      PROVE  RunFrame
  <2>1. CASE ListFiles(r)
    <3>1. UNCHANGED <<source, used, points, row, branch>>
      BY <2>1 DEF ListFiles, env, index
    <3>2. \A q \in Runs, x \in Paths :
            IF q = r THEN job'[q][x].stage \in {"none", "over"} /\ job'[q][x].done = 0
            ELSE phase'[q] = phase[q] /\ job'[q][x] = job[q][x]
      BY <2>1, <1>t, <1>n DEF ListFiles
    <3>3. phase[r] = "list"
      BY <2>1 DEF ListFiles
    <3> QED BY <3>1, <3>2, <3>3 DEF RunFrame, Stage, Underway
  <2>2. CASE ListRaises(r) \/ EndRun(r) \/ Crash(r)
    <3>1. Faults \cap Tearing = {} => ~Crash(r)
      BY DEF Crash, Mishap, Tearing
    <3>2. ListRaises(r) \/ EndRun(r) => \A p \in Paths : ~Stage(r, p, "write")
      BY DEF ListRaises, EndRun, Settled, Stage
    <3> QED BY <2>2, <3>1, <3>2, <1>3 DEF ListRaises, EndRun, Crash
  <2>3. CASE StreamRaises(r)
    <3>1. UNCHANGED <<source, used, points, row, branch>> /\ phase[r] = "stream"
          /\ phase' = [phase EXCEPT ![r] = "drain"]
      BY <2>3 DEF StreamRaises, env, index
    <3>2. \A q \in Runs, x \in Paths :
            \/ job'[q][x] = job[q][x]
            \/ job[q][x].stage = "none" /\ job'[q][x].stage = "over" /\ job'[q][x].done = 0
      BY <2>3, <1>t, <1>n DEF StreamRaises
    <3>3. \A q \in Runs : phase'[q] \in {"stream", "drain"} <=> phase[q] \in {"stream", "drain"}
      BY <3>1, <1>t
    <3> QED BY <3>1, <3>2, <3>3 DEF RunFrame, Stage, Underway
  <2>4. CASE SweepRows(r) \/ SweepFails(r)
    <3>1. UNCHANGED <<source, used, points, branch, job>> /\ phase[r] = "stream"
          /\ phase' = [phase EXCEPT ![r] = "purge"]
      BY <2>4 DEF SweepRows, SweepFails, env, index
    <3>2. \A b \in Branches, x \in Paths : row'[b][x] \in {row[b][x], None}
      BY <2>4, SweptType DEF SweepRows, SweepFails
    <3>3. \A q \in Runs : IF q = r THEN phase'[q] = "purge" ELSE phase'[q] = phase[q]
      BY <3>1, <1>t
    <3>4. \A x \in Paths : ~Stage(r, x, "write")
      BY <2>4 DEF SweepRows, SweepFails, Settled, Stage
    <3> QED BY <3>1, <3>2, <3>3, <3>4 DEF RunFrame, Stage
  <2>5. CASE LoseLock(r)
    BY <2>5 DEF LoseLock, RunFrame, env, index, Stage
  <2> QED BY <1>4, <2>1, <2>2, <2>3, <2>4, <2>5 DEF RunStep
<1>5. CASE \E r \in Runs : RunStep(r)
  BY <1>4, <1>5
<1> QED BY <1>1, <1>2, <1>5 DEF Next

(* While a run works on a file, every other run is idle. *)
LEMMA OthersIdle ==
  ASSUME LockInv, NEW only, Branches = {only}, NEW r \in Runs, NEW p \in Paths, FileStep(r, p)
  PROVE  /\ \A q \in Runs : q # r => phase[q] = "idle" /\ phase'[q] = "idle"
         /\ branch[r] = only
         /\ phase[r] \in {"stream", "drain", "purge"}
<1>1. FileFrame(r, p)
  BY FrameOfStep DEF LockInv
<1>2. \A q \in Runs : q # r => phase[q] = "idle"
  BY <1>1, Alone DEF Active, FileFrame
<1> QED BY <1>1, <1>2 DEF FileFrame, LockInv, TypeOK

-----------------------------------------------------------------------------
(* What has been written so far *)

LEMMA WrittenStep ==
  ASSUME "lock" \notin Faults, NEW only, Branches = {only},
         LockInv, Written, [Next]_vars
  PROVE  Written'
<1>t. TypeOK
  BY DEF LockInv
<1>1. ASSUME NEW b \in Branches, NEW p \in Paths, NEW v \in Versions \cup {None}, Push(b, p, v)
      PROVE  Written'
  BY <1>1 DEF Push, index, Written, Stage
<1>2. CASE RunFrame
  <2>1. "write" \in Underway
    BY DEF Underway
  <2> QED BY <1>2, <2>1 DEF RunFrame, Written
<1>3. ASSUME NEW r \in Runs, NEW p \in Paths, FileStep(r, p)
      PROVE  Written'
  <2>f. FileFrame(r, p)
    BY <1>3, <1>t, FrameOfStep
  <2>e. FileEffect(r, p)
    BY <1>3, <1>t, EffectOfStep
  <2>o. \A q \in Runs : q # r => phase'[q] = "idle"
    BY <1>3, OthersIdle
  <2>1. ASSUME NEW q \in Runs, NEW x \in Paths, <<q, x>> # <<r, p>>
        PROVE  /\ Stage(q, x, "write")' =>
                    \A n \in 1..job'[q][x].done : <<x, job'[q][x].content, n>> \in points'
               /\ job'[q][x].stage \in {"none", "fetched", "skip", "parse"} => job'[q][x].done = 0
    <3>1. job'[q][x] = job[q][x] /\ phase' = phase
      BY <2>1, <2>f DEF FileFrame
    <3>2. Stage(q, x, "write")' => Stage(q, x, "write") /\ x # p
      BY <2>1, <2>o, <3>1 DEF Stage
    <3> QED BY <3>1, <3>2, <2>f DEF FileFrame, Written
  <2>2. /\ Stage(r, p, "write")' =>
             \A n \in 1..job'[r][p].done : <<p, job'[r][p].content, n>> \in points'
        /\ job'[r][p].stage \in {"none", "fetched", "skip", "parse"} => job'[r][p].done = 0
    <3>1. CASE Starts(r, p)
      BY <3>1 DEF Starts, Stage
    <3>2. CASE Decides(r, p) \/ Skips(r, p) \/ Drops(r, p) \/ Clears(r, p)
      BY <3>2 DEF Decides, Skips, Drops, Clears, Moves, Stage, Written
    <3>3. CASE Adds(r, p)
      <4>1. \A n \in 1..job[r][p].done : <<p, Content(r, p), n>> \in points
        BY <3>3 DEF Adds, Written, Content
      <4>2. job[r][p].done \in Nat
        BY <1>t DEF TypeOK, Jobs
      <4>3. \A n \in 1..(job[r][p].done + 1) : n \in 1..job[r][p].done \/ n = job[r][p].done + 1
        BY <4>2
      <4> QED BY <3>3, <4>1, <4>3 DEF Adds
    <3>4. CASE Records(r, p)
      BY <3>4 DEF Records, Moves, Stage
    <3>5. CASE Purges(r, p)
      BY <3>5, <2>f DEF Purges, FileFrame, Stage, Written
    <3> QED BY <2>e, <3>1, <3>2, <3>3, <3>4, <3>5 DEF FileEffect
  <2> QED BY <2>1, <2>2 DEF Written
<1> QED BY <1>t, <1>1, <1>2, <1>3, FrameOfRun

-----------------------------------------------------------------------------
(* What a skip relies on *)

(* The failures that make a run write again a file whose row was right. *)
Doubting == {"tracker", "seen"}

(* A row that agrees with a fetched content vouches for its chunks. *)
Sound(r, p) ==
  Stage(r, p, "fetched") /\ RowOf(r, p) = Content(r, p) => Complete(p, Content(r, p))
AllSound == \A r \in Runs, p \in Paths : Sound(r, p)

(* A row that vouches for chunks no longer there is of an earlier content: *)
(* it will never agree again with what the branch holds.                   *)
RowTrue(b, p) ==
  /\ source[b][p] \in used[b][p]
  /\ row[b][p] # None =>
       /\ row[b][p] \in used[b][p]
       /\ Complete(p, row[b][p]) \/ row[b][p] # source[b][p]

(* A run that is about to write a file, or is writing it, found no such    *)
(* row to agree with.                                                      *)
Trust(r, p) ==
  /\ Sound(r, p)
  /\ Stage(r, p, "fetched") /\ RowOf(r, p) = HeadOf(r, p) => RowOf(r, p) \in {Content(r, p), None}
  /\ Stage(r, p, "parse") \/ Stage(r, p, "write") =>
       RowOf(r, p) = None \/ RowOf(r, p) # HeadOf(r, p)
  /\ \A s \in Underway : Stage(r, p, s) => Content(r, p) \in used[branch[r]][p]

TrustInv ==
  /\ \A b \in Branches, p \in Paths : RowTrue(b, p)
  /\ \A r \in Runs, p \in Paths : Trust(r, p)

LEMMA TrustInit ==
  ASSUME ~Reverts
  PROVE  Init => TrustInv
BY DEF Init, TrustInv, RowTrue, Trust, Sound, Stage

LEMMA TrustStep ==
  ASSUME "lock" \notin Faults, ~Reverts, Faults \cap Doubting = {}, NEW only, Branches = {only},
         LockInv, Written, TrustInv, [Next]_vars
  PROVE  TrustInv'
<1>t. TypeOK
  BY DEF LockInv
<1>y. /\ row \in [Branches -> [Paths -> Versions \cup {None}]]
      /\ source \in [Branches -> [Paths -> Versions \cup {None}]]
      /\ used \in [Branches -> [Paths -> SUBSET (Versions \cup {None})]]
      /\ branch \in [Runs -> Branches]
      /\ \A r \in Runs, p \in Paths, s \in Underway : Stage(r, p, s) => Content(r, p) \in Versions
  BY <1>t DEF TypeOK, Jobs, Stage, Content
<1>u. {"fetched", "parse", "write", "skip"} \subseteq Underway
  BY DEF Underway
<1>1. ASSUME NEW b \in Branches, NEW p \in Paths, NEW v \in Versions \cup {None}, Push(b, p, v)
      PROVE  TrustInv'
  <2>1. /\ points' = points /\ row' = row /\ branch' = branch
        /\ \A q \in Runs, x \in Paths, s \in Stages : Stage(q, x, s)' <=> Stage(q, x, s)
        /\ job' = job
    BY <1>1 DEF Push, index, Stage
  <2>2. v = None \/ v \notin used[b][p]
    BY <1>1 DEF Push
  <2>3. \A c \in Branches, x \in Paths :
          IF c = b /\ x = p THEN source'[c][x] = v /\ used'[c][x] = used[c][x] \cup {v}
          ELSE source'[c][x] = source[c][x] /\ used'[c][x] = used[c][x]
    BY <1>1, <1>y DEF Push
  <2>4. \A c \in Branches, x \in Paths : RowTrue(c, x)'
    BY <2>1, <2>2, <2>3 DEF TrustInv, RowTrue, Complete
  <2>5. \A q \in Runs, x \in Paths : Trust(q, x)'
    <3> SUFFICES ASSUME NEW q \in Runs, NEW x \in Paths PROVE Trust(q, x)'
      OBVIOUS
    <3>0. "fetched" \in Stages /\ "parse" \in Stages /\ "write" \in Stages /\ Underway \subseteq Stages
      BY DEF Stages, Underway
    <3>1. branch[q] \in Branches /\ Trust(q, x) /\ RowTrue(branch[q], x)
      BY <1>y DEF TrustInv
    <3>2. RowOf(q, x)' = RowOf(q, x) /\ Content(q, x)' = Content(q, x)
      BY <2>1 DEF RowOf, Content
    <3>3. HeadOf(q, x)' = HeadOf(q, x) \/ RowOf(q, x) = None \/ RowOf(q, x) # HeadOf(q, x)'
      BY <2>1, <2>2, <2>3, <3>1 DEF HeadOf, RowOf, RowTrue
    <3>4. used[branch[q]][x] \subseteq used'[branch[q]][x]
      BY <2>3, <3>1
    <3>5. Sound(q, x)'
      BY <2>1, <3>0, <3>1, <3>2 DEF Trust, Sound, Complete
    <3>6. \A s \in Underway : Stage(q, x, s)' => Content(q, x)' \in used'[branch[q]][x]
      BY <2>1, <3>0, <3>1, <3>2, <3>4 DEF Trust
    <3>7. Stage(q, x, "parse")' \/ Stage(q, x, "write")' =>
            RowOf(q, x)' = None \/ RowOf(q, x)' # HeadOf(q, x)'
      BY <2>1, <3>0, <3>1, <3>2, <3>3 DEF Trust
    <3>8. Stage(q, x, "fetched")' /\ RowOf(q, x)' = HeadOf(q, x)' =>
            RowOf(q, x)' \in {Content(q, x)', None}
      BY <2>1, <3>0, <3>1, <3>2, <3>3 DEF Trust
    <3> QED BY <2>1, <3>5, <3>6, <3>7, <3>8 DEF Trust
  <2> QED BY <2>4, <2>5 DEF TrustInv
<1>2. CASE RunFrame
  <2>1. \A c \in Branches, x \in Paths : RowTrue(c, x)'
    <3> SUFFICES ASSUME NEW c \in Branches, NEW x \in Paths PROVE RowTrue(c, x)'
      OBVIOUS
    <3>1. row'[c][x] \in {row[c][x], None} /\ UNCHANGED <<source, used, points>>
      BY <1>2 DEF RunFrame
    <3> QED BY <3>1 DEF TrustInv, RowTrue, Complete
  <2>2. \A q \in Runs, x \in Paths : Trust(q, x)'
    <3> SUFFICES ASSUME NEW q \in Runs, NEW x \in Paths PROVE Trust(q, x)'
      OBVIOUS
    <3>1. UNCHANGED <<source, used, points>>
      BY <1>2 DEF RunFrame
    <3>2. ASSUME NEW s \in Underway, Stage(q, x, s)'
          PROVE  /\ Stage(q, x, s)
                 /\ Content(q, x)' = Content(q, x) /\ Content(q, x) \in Versions
                 /\ branch'[q] = branch[q] /\ HeadOf(q, x)' = HeadOf(q, x)
                 /\ RowOf(q, x)' \in {RowOf(q, x), None}
      BY <1>2, <1>y, <3>2 DEF RunFrame, Content, HeadOf, RowOf
    <3>3. Trust(q, x) /\ None \notin Versions
      BY DEF TrustInv
    <3>4. Sound(q, x)'
      BY <1>u, <3>1, <3>2, <3>3 DEF Sound, Trust, Complete
    <3>5. \A s \in Underway : Stage(q, x, s)' => Content(q, x)' \in used'[branch'[q]][x]
      BY <3>1, <3>2, <3>3 DEF Trust
    <3>6. Stage(q, x, "parse")' \/ Stage(q, x, "write")' =>
            RowOf(q, x)' = None \/ RowOf(q, x)' # HeadOf(q, x)'
      BY <1>u, <3>2, <3>3 DEF Trust
    <3>7. Stage(q, x, "fetched")' /\ RowOf(q, x)' = HeadOf(q, x)' =>
            RowOf(q, x)' \in {Content(q, x)', None}
      BY <1>u, <3>2, <3>3 DEF Trust
    <3> QED BY <3>4, <3>5, <3>6, <3>7 DEF Trust
  <2> QED BY <2>1, <2>2 DEF TrustInv
<1>3. ASSUME NEW r \in Runs, NEW p \in Paths, FileStep(r, p)
      PROVE  TrustInv'
  <2>f. FileFrame(r, p)
    BY <1>3, <1>t, FrameOfStep
  <2>e. FileEffect(r, p)
    BY <1>3, <1>t, EffectOfStep
  <2>o. /\ \A q \in Runs : q # r => phase'[q] = "idle"
        /\ branch[r] = only /\ only \in Branches
        /\ UNCHANGED <<source, used, branch, phase>>
    BY <1>3, <2>f, OthersIdle DEF FileFrame
  <2>c. \A x \in Paths : x # p => \A v : Complete(x, v)' <=> Complete(x, v)
    BY <2>f DEF FileFrame, Complete, Chunks
  <2>1. \A x \in Paths : x # p => RowTrue(only, x)'
    BY <2>f, <2>o, <2>c DEF TrustInv, RowTrue, FileFrame, Complete
  <2>2. \A q \in Runs, x \in Paths : <<q, x>> # <<r, p>> => Trust(q, x)'
    <3> SUFFICES ASSUME NEW q \in Runs, NEW x \in Paths, <<q, x>> # <<r, p>> PROVE Trust(q, x)'
      OBVIOUS
    <3>1. CASE q # r
      <4>1. \A s \in Stages : ~Stage(q, x, s)'
        BY <2>o, <3>1 DEF Stage
      <4> QED BY <4>1 DEF Trust, Sound, Stages, Underway
    <3>2. CASE q = r
      <4>1. x # p /\ Trust(q, x)
        BY <3>2 DEF TrustInv
      <4>2. /\ \A s : Stage(q, x, s)' <=> Stage(q, x, s)
            /\ RowOf(q, x)' = RowOf(q, x) /\ HeadOf(q, x)' = HeadOf(q, x)
            /\ Content(q, x)' = Content(q, x)
        BY <2>f, <2>o, <3>2, <4>1 DEF FileFrame, Stage, RowOf, HeadOf, Content
      <4>3. Complete(x, Content(q, x))' <=> Complete(x, Content(q, x))
        BY <2>c, <4>1, <4>2 DEF Complete
      <4>4. Sound(q, x)'
        BY <4>1, <4>2, <4>3 DEF Trust, Sound
      <4> QED BY <2>o, <4>1, <4>2, <4>4 DEF Trust
    <3> QED BY <3>1, <3>2
  <2> DEFINE c == Content(r, p)
             w == RowOf(r, p)
             h == HeadOf(r, p)
  <2>3. /\ w = row[only][p] /\ h = source[only][p]
        /\ h \in used[only][p] /\ (w # None => w \in used[only][p])
        /\ w # None => Complete(p, w) \/ w # h
        /\ HeadOf(r, p)' = h /\ RowOf(r, p)' = row'[only][p]
    BY <2>o DEF RowOf, HeadOf, TrustInv, RowTrue
  <2>4. Trust(r, p)
    BY DEF TrustInv
  <2>5. RowTrue(only, p)' /\ Trust(r, p)'
    <3>1. CASE Starts(r, p)
      <4>1. /\ c' = h /\ w' = w /\ h' = h /\ points' = points
            /\ \A s \in Underway : Stage(r, p, s)' => s = "fetched"
        BY <2>3, <3>1 DEF Starts, Stage, Content, index, Underway
      <4>2. RowTrue(only, p)'
        BY <2>o, <2>3, <4>1 DEF RowTrue, Complete
      <4>3. Sound(r, p)'
        BY <2>3, <3>1, <4>1 DEF Sound, Complete, Starts, Stage
      <4> QED BY <1>u, <2>o, <2>3, <4>1, <4>2, <4>3 DEF Trust
    <3>2. CASE Decides(r, p) /\ UNCHANGED index
      <4>1. \/ Moves(r, p, "fetched", "skip")
            \/ Moves(r, p, "fetched", "parse") /\ w # c
        BY <3>2 DEF Decides, Doubting
      <4>2. /\ c' = c /\ w' = w /\ points' = points /\ row' = row /\ Stage(r, p, "fetched")
            /\ \A s : Stage(r, p, s)' => s = job'[r][p].stage
        BY <2>3, <3>2, <4>1 DEF Moves, Content, index, Stage
      <4>3. RowTrue(only, p)'
        BY <2>o, <2>3, <4>2 DEF RowTrue, Complete
      <4>4. c \in used[only][p] /\ (w # c => w = None \/ w # h)
        BY <1>u, <2>o, <2>4, <4>2 DEF Trust
      <4> QED BY <2>o, <2>3, <4>1, <4>2, <4>3, <4>4 DEF Trust, Sound, Moves
    <3>3. CASE (Skips(r, p) /\ UNCHANGED index) \/ (Drops(r, p) /\ UNCHANGED <<index, touched>>)
      <4>1. job'[r][p].stage \notin Underway /\ points' = points /\ row' = row
        BY <3>3 DEF Skips, Drops, Moves, index, Underway
      <4> QED BY <1>u, <2>o, <2>3, <4>1 DEF Trust, Sound, RowTrue, Complete, Stage
    <3>4. CASE Clears(r, p)
      <4>1. /\ c' = c /\ w' = w /\ row' = row /\ Stage(r, p, "parse")
            /\ \A s : Stage(r, p, s)' => s = "write"
        BY <2>3, <3>4 DEF Clears, Moves, Content, Stage
      <4>2. c \in used[only][p] /\ (w = None \/ w # h)
        BY <1>u, <2>o, <2>4, <4>1 DEF Trust
      <4> QED BY <2>o, <2>3, <4>1, <4>2 DEF Trust, Sound, RowTrue
    <3>5. CASE Adds(r, p)
      <4>1. /\ c' = c /\ w' = w /\ row' = row /\ Stage(r, p, "write") /\ points \subseteq points'
            /\ \A s : Stage(r, p, s)' => s = "write"
        BY <2>3, <3>5 DEF Adds, Content, Stage
      <4>2. c \in used[only][p] /\ (w = None \/ w # h)
        BY <1>u, <2>o, <2>4, <4>1 DEF Trust
      <4> QED BY <2>o, <2>3, <4>1, <4>2 DEF Trust, Sound, RowTrue
    <3>6. CASE Records(r, p)
      <4>1. /\ Stage(r, p, "write") /\ points' = points /\ row'[only][p] = c /\ c \in Versions
            /\ job[r][p].done = Batches /\ job'[r][p].stage = "over"
        BY <2>o, <3>6 DEF Records, Moves
      <4>2. Complete(p, c)
        BY <4>1, CompleteIs DEF Written, Content
      <4>3. c \in used[only][p]
        BY <1>u, <2>o, <2>4, <4>1 DEF Trust
      <4>4. RowTrue(only, p)'
        BY <2>o, <2>3, <4>1, <4>2, <4>3 DEF RowTrue, Complete
      <4> QED BY <4>1, <4>4 DEF Trust, Sound, Stage, Underway
    <3>7. CASE Purges(r, p)
      <4>1. row' = row /\ row[only][p] = None /\ phase'[r] = "purge"
        BY <2>o, <3>7 DEF Purges, LockInv, DoomedUntracked
      <4> QED BY <2>o, <2>3, <4>1 DEF Trust, Sound, RowTrue, Stage
    <3> HIDE DEF c, w, h
    <3> QED BY <2>e, <3>1, <3>2, <3>3, <3>4, <3>5, <3>6, <3>7 DEF FileEffect
  <2> QED BY <2>1, <2>2, <2>5, <2>o DEF TrustInv
<1> QED BY <1>t, <1>1, <1>2, <1>3, FrameOfRun

(* Either way a fetched file whose row agrees with it has its chunks. *)
Trusty == Faults \cap Tearing = {} \/ (~Reverts /\ Faults \cap Doubting = {})

LEMMA TrackedSound ==
  ASSUME NEW only, Branches = {only}, LockInv, TrackedIndexed
  PROVE  AllSound
<1> SUFFICES ASSUME NEW r \in Runs, NEW p \in Paths, Stage(r, p, "fetched"),
                    RowOf(r, p) = Content(r, p)
             PROVE  Complete(p, Content(r, p))
  BY DEF AllSound, Sound
<1>1. Content(r, p) \in Versions /\ branch[r] \in Branches /\ None \notin Versions
  BY DEF LockInv, TypeOK, Jobs, Stage, Underway, Content
<1>2. ~Rewriting(p)
  <2> SUFFICES ASSUME NEW q \in Runs, Stage(q, p, "write") PROVE FALSE
    BY DEF Rewriting
  <2>1. q = r
    BY Alone DEF Stage, Active
  <2> QED BY <2>1 DEF Stage
<1> QED BY <1>1, <1>2 DEF TrackedIndexed, RowOf

LEMMA SoundAlways ==
  ASSUME "lock" \notin Faults, NEW only, Branches = {only}, Trusty
  PROVE  Spec => [](LockInv /\ Written /\ AllSound)
<1>1. Init => Written
  BY TrackedInit
<1>2. CASE Faults \cap Tearing = {}
  <2>1. LockInv /\ Written /\ TrackedIndexed /\ [Next]_vars => Written' /\ TrackedIndexed'
    BY <1>2, TrackedStep
  <2>2. LockInv /\ TrackedIndexed => AllSound
    BY TrackedSound
  <2> QED BY <2>1, <2>2, LockInvInit, LockInvStep, TrackedInit, PTL DEF Spec
<1>3. CASE ~Reverts /\ Faults \cap Doubting = {}
  <2>1. LockInv /\ Written /\ TrustInv /\ [Next]_vars => Written' /\ TrustInv'
    BY <1>3, WrittenStep, TrustStep
  <2>2. TrustInv => AllSound
    BY DEF TrustInv, Trust, AllSound
  <2>3. Init => TrustInv
    BY <1>3, TrustInit
  <2> QED BY <1>1, <2>1, <2>2, <2>3, LockInvInit, LockInvStep, PTL DEF Spec
<1> QED BY <1>2, <1>3 DEF Trusty

(* One branch, a lock that never fails: a file is skipped only when every  *)
(* chunk of its content is in the store, through any failure and crash, if *)
(* a path never gets an old content back and the tracker's reads do not    *)
(* fail; or through any history of pushes, if no run dies or fails between *)
(* deleting a file's chunks and recording it.                              *)
THEOREM SkipsAreSound ==
  ASSUME "lock" \notin Faults, NEW only, Branches = {only}, Trusty
  PROVE  Spec => SkipSound
<1>1. ASSUME LockInv, AllSound, [Next]_vars
      PROVE  [\A r \in Runs, p \in Paths :
                job[r][p].stage = "fetched" /\ job'[r][p].stage = "skip"
                  => Complete(p, job[r][p].content)]_vars
  <2> SUFFICES ASSUME NEW r \in Runs, NEW p \in Paths,
                      job[r][p].stage = "fetched", job'[r][p].stage = "skip"
               PROVE  Complete(p, job[r][p].content)
    OBVIOUS
  <2>1. TypeOK /\ job'[r][p] # job[r][p]
    BY <1>1 DEF LockInv
  <2>2. ~RunFrame /\ ~\E b \in Branches, x \in Paths, v \in Versions \cup {None} : Push(b, x, v)
    BY <2>1 DEF RunFrame, Push
  <2>3. FileStep(r, p)
    <3>1. PICK q \in Runs, x \in Paths : FileStep(q, x)
      BY <1>1, <2>1, <2>2, FrameOfRun
    <3>2. q = r /\ x = p
      BY <2>1, <3>1, FrameOfStep DEF FileFrame
    <3> QED BY <3>1, <3>2
  <2>4. FileEffect(r, p)
    BY <2>1, <2>3, EffectOfStep
  <2>5. Decides(r, p)
    BY <2>1, <2>4 DEF FileEffect, Starts, Skips, Drops, Clears, Adds, Records, Purges, Moves
  <2>6. Stage(r, p, "fetched") /\ RowOf(r, p) = Content(r, p)
    BY <2>5 DEF Decides, Moves
  <2> QED BY <1>1, <2>6 DEF AllSound, Sound, Content
<1> QED BY <1>1, SoundAlways, PTL DEF Spec, SkipSound

-----------------------------------------------------------------------------
(* What a run that met no failure leaves behind *)

(* While it streams, it has the files of its branch as they are: those not *)
(* listed do not exist, those over are indexed and touched, unless they    *)
(* give no chunks.  After its sweep every file is.                         *)
CleanStream(r, p) ==
  /\ p \in listing[r] <=> HeadOf(r, p) # None
  /\ p \notin listing[r] => job[r][p].stage = "over" /\ Content(r, p) = None
  /\ p \in listing[r] =>
       /\ job[r][p].stage # "failed"
       /\ job[r][p].stage # "none" => Content(r, p) = HeadOf(r, p)
  /\ job[r][p].stage = "skip" =>
       RowOf(r, p) = Content(r, p) /\ Complete(p, Content(r, p))
  /\ job[r][p].stage = "over" /\ Content(r, p) \notin Barren \cup {None} =>
       /\ RowOf(r, p) = Content(r, p)
       /\ Complete(p, Content(r, p))
       /\ p \in touched[r]

CleanAt(r, p) ==
  clean[r] =>
    /\ phase[r] = "stream" => CleanStream(r, p)
    /\ phase[r] # "drain"
    /\ phase[r] = "purge" => Current(branch[r], p)

CleanInv == \A r \in Runs, p \in Paths : CleanAt(r, p)

(* A run whose phase, branch and files do not change. *)
LEMMA CleanFrame ==
  ASSUME NEW r \in Runs, NEW p \in Paths, CleanAt(r, p),
         clean'[r] => clean[r],
         phase'[r] = phase[r], branch'[r] = branch[r], listing'[r] = listing[r],
         job'[r][p] = job[r][p], HeadOf(r, p)' = HeadOf(r, p), RowOf(r, p)' = RowOf(r, p),
         \A v : Complete(p, v)' <=> Complete(p, v),
         p \in touched'[r] <=> p \in touched[r]
  PROVE  CleanAt(r, p)'
<1>1. Content(r, p)' = Content(r, p)
  BY DEF Content
<1>2. Complete(p, Content(r, p))' <=> Complete(p, Content(r, p))
  BY <1>1 DEF Complete
<1>3. CleanStream(r, p) => CleanStream(r, p)'
  BY <1>1, <1>2 DEF CleanStream
<1>4. Current(branch[r], p) => Current(branch[r], p)'
  BY DEF Current, HeadOf, RowOf, Complete
<1> QED BY <1>3, <1>4 DEF CleanAt

LEMMA CleanInit == Init => CleanInv
BY DEF Init, CleanInv, CleanAt

LEMMA CleanStep ==
  ASSUME "lock" \notin Faults, NEW only, Branches = {only},
         LockInv, Written, AllSound, CleanInv, [Next]_vars
  PROVE  CleanInv'
<1>t. TypeOK
  BY DEF LockInv
<1>y. /\ row \in [Branches -> [Paths -> Versions \cup {None}]]
      /\ source \in [Branches -> [Paths -> Versions \cup {None}]]
      /\ phase \in [Runs -> {"idle", "list", "stream", "drain", "purge"}]
      /\ branch \in [Runs -> Branches]
      /\ listing \in [Runs -> SUBSET Paths]
      /\ touched \in [Runs -> SUBSET Paths]
      /\ job \in [Runs -> [Paths -> Jobs]]
      /\ clean \in [Runs -> BOOLEAN]
      /\ None \notin Versions
  BY <1>t DEF TypeOK
<1>b. \A q \in Runs : branch[q] = only /\ branch'[q] = only
  BY TypeStep, <1>t DEF TypeOK
<1>n. NoJob.stage = "none" /\ NoJob.content = None
      /\ [NoJob EXCEPT !.stage = "over"].stage = "over"
      /\ [NoJob EXCEPT !.stage = "over"].content = None
  BY DEF NoJob
(* Everybody but r stays as it is. *)
<1>o. ASSUME NEW r \in Runs, NEW q \in Runs, q # r, NEW p \in Paths,
             phase'[q] = phase[q], listing'[q] = listing[q], job'[q] = job[q],
             touched'[q] = touched[q], clean'[q] => clean[q],
             UNCHANGED <<source, row, points>>
      PROVE  CleanAt(q, p)'
  <2>1. CleanAt(q, p)
    BY DEF CleanInv
  <2> QED BY <1>o, <1>b, <2>1, CleanFrame DEF HeadOf, RowOf, Complete
(* A run that met a failure owes nothing. *)
<1>d. ASSUME NEW r \in Runs, NEW kind, Mishap(kind, r)
      PROVE  ~clean'[r] /\ \A q \in Runs : q # r => clean'[q] = clean[q]
  BY <1>d, <1>y DEF Mishap
<1>1. CASE UNCHANGED vars
  BY <1>1 DEF vars, env, index, CleanInv, CleanAt, CleanStream, Content, HeadOf, RowOf,
              Complete, Current
<1>2. ASSUME NEW b \in Branches, NEW p \in Paths, NEW v \in Versions \cup {None}, Push(b, p, v)
      PROVE  CleanInv'
  BY <1>2, <1>b DEF Push, CleanInv, CleanAt
<1>3. ASSUME NEW r \in Runs, NEW b \in Branches, StartRun(r, b) \/ StartUnlocked(r, b)
      PROVE  CleanInv'
  <2>1. StartRun(r, b)
    BY <1>3 DEF StartUnlocked, Mishap
  <2>2. /\ phase'[r] = "list"
        /\ UNCHANGED <<source, points, row, listing, job>>
        /\ \A q \in Runs : q # r => /\ phase'[q] = phase[q] /\ clean'[q] = clean[q]
                                    /\ touched'[q] = touched[q]
    BY <2>1, <1>y DEF StartRun, Begin, env, index
  <2>3. \A q \in Runs, p \in Paths : q # r => CleanAt(q, p)'
    BY <2>2, <1>o
  <2> QED BY <2>2, <2>3 DEF CleanInv, CleanAt
<1>4. ASSUME NEW r \in Runs, Leave(r), \A q \in Runs : q # r => clean'[q] = clean[q]
      PROVE  CleanInv'
  <2>1. /\ phase'[r] = "idle"
        /\ UNCHANGED <<source, points, row>>
        /\ \A q \in Runs : q # r => /\ phase'[q] = phase[q] /\ listing'[q] = listing[q]
                                    /\ touched'[q] = touched[q] /\ job'[q] = job[q]
    BY <1>4, <1>y DEF Leave, env, index
  <2>2. \A q \in Runs, p \in Paths : q # r => CleanAt(q, p)'
    BY <1>4, <2>1, <1>o
  <2> QED BY <2>1, <2>2 DEF CleanInv, CleanAt
<1>5. ASSUME NEW r \in Runs, ListFiles(r)
      PROVE  CleanInv'
  <2>1. /\ phase'[r] = "stream"
        /\ UNCHANGED <<source, points, row, touched, clean>>
        /\ \A q \in Runs : q # r => /\ phase'[q] = phase[q] /\ listing'[q] = listing[q]
                                    /\ job'[q] = job[q]
    BY <1>5, <1>y DEF ListFiles, env, index, NoMishap
  <2>2. \A q \in Runs, p \in Paths : q # r => CleanAt(q, p)'
    BY <2>1, <1>o
  <2>3. ASSUME NEW p \in Paths PROVE CleanAt(r, p)'
    <3>1. /\ p \in listing'[r] <=> HeadOf(r, p)' # None
          /\ job'[r][p] = IF p \in listing'[r] THEN NoJob ELSE [NoJob EXCEPT !.stage = "over"]
      BY <1>5, <1>y, <1>b, <2>1 DEF ListFiles, HeadOf
    <3> QED BY <2>1, <3>1, <1>n DEF CleanAt, CleanStream, Content
  <2> QED BY <2>2, <2>3 DEF CleanInv
<1>6. ASSUME NEW r \in Runs, StreamRaises(r)
      PROVE  CleanInv'
  <2>1. /\ UNCHANGED <<source, points, row, touched, listing>> /\ ~clean'[r]
        /\ \A q \in Runs : q # r => /\ phase'[q] = phase[q] /\ job'[q] = job[q]
                                    /\ clean'[q] = clean[q]
    BY <1>6, <1>y, <1>d DEF StreamRaises, env, index
  <2>2. \A q \in Runs, p \in Paths : q # r => CleanAt(q, p)'
    BY <2>1, <1>o
  <2> QED BY <2>1, <2>2 DEF CleanInv, CleanAt
<1>7. ASSUME NEW r \in Runs, SweepFails(r)
      PROVE  CleanInv'
  <2>1. phase[r] = "stream" /\ phase' = [phase EXCEPT ![r] = "purge"] /\ ~clean'[r]
    BY <1>7, <1>d DEF SweepFails
  <2>2. ASSUME NEW q \in Runs, q # r PROVE phase'[q] = "idle"
    BY <2>1, <2>2, <1>y, Alone DEF Active
  <2> QED BY <2>1, <2>2 DEF CleanInv, CleanAt
<1>8. ASSUME NEW r \in Runs, SweepRows(r)
      PROVE  CleanInv'
  <2>1. /\ phase[r] = "stream" /\ phase' = [phase EXCEPT ![r] = "purge"] /\ Settled(r)
        /\ UNCHANGED <<source, points, clean>>
    BY <1>8 DEF SweepRows, NoMishap, env
  <2>2. ASSUME NEW q \in Runs, q # r, NEW p \in Paths PROVE CleanAt(q, p)'
    <3>1. phase'[q] = "idle"
      BY <2>1, <2>2, <1>y, Alone DEF Active
    <3> QED BY <3>1 DEF CleanAt
  <2>3. ASSUME NEW p \in Paths PROVE CleanAt(r, p)'
    <3> SUFFICES ASSUME clean[r], HeadOf(r, p) \in Versions \ Barren
                 PROVE  Complete(p, HeadOf(r, p)) /\ row'[only][p] = HeadOf(r, p)
      BY <2>1, <1>y, <1>b DEF CleanAt, Current, HeadOf, Complete
    <3>1. CleanStream(r, p)
      BY <2>1 DEF CleanInv, CleanAt
    <3>2. job[r][p].stage = "over" /\ Content(r, p) = HeadOf(r, p)
      BY <3>1, <2>1, <1>y DEF CleanStream, Settled
    <3>3. RowOf(r, p) = HeadOf(r, p) /\ Complete(p, HeadOf(r, p)) /\ p \in touched[r]
      BY <3>1, <3>2, <1>y DEF CleanStream
    <3>4. row'[only][p] = RowOf(r, p)
      BY <1>8, <3>3, <1>y, <1>b DEF SweepRows, Swept, Unseen, RowOf
    <3> QED BY <3>3, <3>4
  <2> QED BY <2>2, <2>3 DEF CleanInv
<1>9. ASSUME NEW r \in Runs, NEW p \in Paths, FileStep(r, p)
      PROVE  CleanInv'
  <2>f. FileFrame(r, p)
    BY <1>9, <1>t, FrameOfStep
  <2>e. FileEffect(r, p)
    BY <1>9, <1>t, EffectOfStep
  <2>o. /\ \A q \in Runs : q # r => phase'[q] = "idle"
        /\ UNCHANGED <<source, branch, phase, listing>>
    BY <1>9, <2>f, OthersIdle DEF FileFrame
  <2>1. ASSUME NEW q \in Runs, NEW x \in Paths, <<q, x>> # <<r, p>>
        PROVE  CleanAt(q, x)'
    <3>1. CASE q # r
      BY <2>o, <3>1 DEF CleanAt
    <3>2. CASE q = r
      <4>1. x # p /\ CleanAt(q, x)
        BY <2>1, <3>2 DEF CleanInv
      <4>2. \A v : Complete(x, v)' <=> Complete(x, v)
        BY <2>f, <4>1 DEF FileFrame, Complete, Chunks
      <4>3. /\ HeadOf(q, x)' = HeadOf(q, x) /\ RowOf(q, x)' = RowOf(q, x)
            /\ job'[q][x] = job[q][x] /\ (clean'[q] => clean[q])
            /\ x \in touched'[q] <=> x \in touched[q]
        BY <2>f, <1>b, <1>y, <2>1, <4>1 DEF FileFrame, HeadOf, RowOf
      <4> QED BY <2>o, <4>1, <4>2, <4>3, CleanFrame
    <3> QED BY <3>1, <3>2
  <2>2. CleanAt(r, p)'
    <3> SUFFICES ASSUME clean'[r] PROVE CleanAt(r, p)'
      BY DEF CleanAt
    <3> DEFINE c == Content(r, p)
               w == RowOf(r, p)
               h == HeadOf(r, p)
    <3>c. /\ clean[r] /\ CleanAt(r, p) /\ h' = h /\ phase[r] # "drain"
          /\ phase[r] = "stream" => CleanStream(r, p)
      BY <2>f, <2>o DEF FileFrame, CleanInv, CleanAt, HeadOf
    <3>m. ASSUME NEW s, Stage(r, p, s)
          PROVE  phase[r] = "stream" /\ CleanStream(r, p) /\ job[r][p].stage = s
      BY <3>c, <3>m DEF Stage
    <3>k. ASSUME CleanStream(r, p)' PROVE CleanAt(r, p)' \/ phase[r] = "purge"
      BY <2>o, <3>k, <3>c DEF CleanAt
    <3>1. CASE Starts(r, p)
      <4>1. CleanStream(r, p)
        BY <3>1, <3>c DEF Starts
      <4>2. p \in listing[r] /\ h # None /\ c' = h /\ job'[r][p].stage = "fetched"
        BY <3>1, <3>c, <4>1 DEF Starts, CleanStream, Content
      <4>3. CleanStream(r, p)'
        BY <2>o, <3>c, <4>2 DEF CleanStream
      <4> QED BY <3>1, <3>k, <4>3 DEF Starts
    <3>2. CASE Decides(r, p) /\ UNCHANGED index
      <4>1. \E s, t : Moves(r, p, s, t)
        BY <3>2 DEF Decides
      <4>2. /\ phase[r] = "stream" /\ CleanStream(r, p) /\ job[r][p].stage \in Underway
            /\ c' = c /\ w' = w /\ points' = points /\ c \in Versions
        BY <2>o, <3>2, <3>m, <4>1 DEF Moves, Content, RowOf, index
      <4>3. p \in listing[r] /\ c = h
        BY <4>2 DEF CleanStream, Underway
      <4>4. \/ job'[r][p].stage = "skip" /\ w = c /\ Complete(p, c)
            \/ job'[r][p].stage = "parse"
        BY <3>2 DEF Decides, Moves, AllSound, Sound
      <4>5. CleanStream(r, p)'
        BY <2>o, <3>c, <4>2, <4>3, <4>4 DEF CleanStream, Complete
      <4> QED BY <3>k, <4>2, <4>5
    <3>3. CASE Skips(r, p) /\ UNCHANGED index
      <4>1. /\ phase[r] = "stream" /\ CleanStream(r, p) /\ job[r][p].stage = "skip"
            /\ c' = c /\ w' = w /\ points' = points /\ c \in Versions
            /\ job'[r][p].stage = "over" /\ (w # None => p \in touched'[r] \/ ~clean'[r])
        BY <2>o, <3>3, <3>m DEF Skips, Moves, Content, RowOf, index
      <4>2. p \in listing[r] /\ c = h /\ w = c /\ Complete(p, c) /\ w # None
        BY <4>1, <1>y DEF CleanStream
      <4>3. CleanStream(r, p)'
        BY <2>o, <3>c, <4>1, <4>2 DEF CleanStream, Complete
      <4> QED BY <3>k, <4>1, <4>3
    <3>4. CASE Drops(r, p) /\ UNCHANGED <<index, touched>>
      <4>1. /\ phase[r] = "stream" /\ CleanStream(r, p) /\ job[r][p].stage = "parse"
            /\ c' = c /\ c \in Barren
            /\ job'[r][p].stage = "over"
        BY <2>o, <3>4, <3>m DEF Drops, Moves, Content
      <4>2. p \in listing[r] /\ c = h
        BY <4>1 DEF CleanStream
      <4>3. CleanStream(r, p)'
        BY <2>o, <3>c, <4>1, <4>2 DEF CleanStream
      <4> QED BY <3>k, <4>1, <4>3
    <3>5. CASE Clears(r, p) \/ Adds(r, p)
      <4>1. /\ phase[r] = "stream" /\ CleanStream(r, p) /\ job[r][p].stage \in {"parse", "write"}
            /\ c' = c /\ job'[r][p].stage = "write"
        BY <2>o, <3>5, <3>m DEF Clears, Adds, Moves, Content
      <4>2. p \in listing[r] /\ c = h
        BY <4>1 DEF CleanStream
      <4>3. CleanStream(r, p)'
        BY <2>o, <3>c, <4>1, <4>2 DEF CleanStream
      <4> QED BY <3>k, <4>1, <4>3
    <3>6. CASE Records(r, p)
      <4>1. /\ phase[r] = "stream" /\ CleanStream(r, p) /\ job[r][p].stage = "write"
            /\ Stage(r, p, "write") /\ job[r][p].done = Batches
            /\ c' = c /\ w' = c /\ points' = points /\ c \in Versions
            /\ job'[r][p].stage = "over" /\ p \in touched'[r]
        BY <2>o, <3>6, <3>m DEF Records, Moves, Content, RowOf
      <4>2. p \in listing[r] /\ c = h /\ Complete(p, c)
        BY <4>1, CompleteIs DEF CleanStream, Written, Content
      <4>3. CleanStream(r, p)'
        BY <2>o, <3>c, <4>1, <4>2 DEF CleanStream, Complete
      <4> QED BY <3>k, <4>1, <4>3
    <3>7. CASE Purges(r, p)
      <4>1. phase[r] = "purge" /\ row' = row /\ row[only][p] = None
        BY <1>b, <3>7 DEF Purges, LockInv, DoomedUntracked
      <4>2. Current(only, p)
        BY <1>b, <3>c, <4>1 DEF CleanAt
      <4>3. Current(only, p)'
        BY <2>o, <4>1, <4>2, <1>y DEF Current
      <4> QED BY <1>b, <2>o, <4>1, <4>3 DEF CleanAt
    <3> HIDE DEF c, w, h
    <3> QED BY <2>e, <3>1, <3>2, <3>3, <3>4, <3>5, <3>6, <3>7 DEF FileEffect
  <2> QED BY <2>1, <2>2 DEF CleanInv
<1>10. ASSUME NEW r \in Runs, RunStep(r)
       PROVE  CleanInv'
  <2>1. CASE ListRaises(r) \/ Crash(r)
    BY <2>1, <1>4, <1>d DEF ListRaises, Crash
  <2>2. CASE EndRun(r)
    BY <2>2, <1>4 DEF EndRun, NoMishap
  <2>3. ~LoseLock(r)
    BY DEF LoseLock, Mishap
  <2> QED BY <1>5, <1>6, <1>7, <1>8, <1>9, <1>10, <2>1, <2>2, <2>3 DEF RunStep
<1> QED BY <1>1, <1>2, <1>3, <1>10 DEF Next

LEMMA CleanAlways ==
  ASSUME "lock" \notin Faults, NEW only, Branches = {only}, Trusty
  PROVE  Spec => []CleanInv
<1>1. LockInv /\ Written /\ AllSound /\ CleanInv /\ [Next]_vars => CleanInv'
  BY CleanStep
<1> QED BY <1>1, SoundAlways, CleanInit, PTL DEF Spec

(* Under the same conditions, a run that met no failure, and whose branch  *)
(* nobody pushed to meanwhile, ends with every file that gives chunks      *)
(* completely indexed and recorded, whatever the runs before it left.      *)
THEOREM CleanRunsComplete ==
  ASSUME "lock" \notin Faults, NEW only, Branches = {only}, Trusty
  PROVE  Spec => []CleanRunComplete
<1>1. CleanInv => CleanRunComplete
  BY DEF CleanInv, CleanAt, CleanRunComplete, RunDone
<1> QED BY <1>1, CleanAlways, PTL

-----------------------------------------------------------------------------
(* Nothing but what the branch holds *)

(* The failures that leave chunks behind which no row and no sweep knows:  *)
(* "reply", the sweep that takes its rows and whose answer is lost.        *)
Littering == Tearing \cup {"delete", "purge", "reply"}

(* Only contents that give chunks are recorded. *)
RowsGiveChunks == \A b \in Branches, p \in Paths : row[b][p] \notin Barren
WritesGiveChunks ==
  \A r \in Runs, p \in Paths : Stage(r, p, "write") => Content(r, p) \notin Barren

(* Every chunk of a path is of the content being written; when none is,    *)
(* of the recorded content, or of a path about to be purged.               *)
Owned(p, v) ==
  \/ \E r \in Runs : Stage(r, p, "write") /\ v = Content(r, p)
  \/ /\ ~Rewriting(p)
     /\ \/ \E b \in Branches : row[b][p] = v
        \/ \E r \in Runs : p \in doomed[r]
ExactAt(p) == \A v, n : <<p, v, n>> \in points => Owned(p, v)

(* What a run has touched is recorded as it read it, and over, unless      *)
(* mark_seen raised after touching it; so after a clean run's sweep a row  *)
(* is of what the branch holds.                                            *)
TouchedAt(r, p) ==
  /\ phase[r] = "list" => p \notin touched[r]
  /\ Stage(r, p, "skip") => RowOf(r, p) = Content(r, p)
  /\ p \in touched[r] /\ phase[r] = "stream" =>
       /\ job[r][p].stage \in {"parse", "write", "over", "failed"}
       /\ RowOf(r, p) = Content(r, p) /\ Content(r, p) # None
  /\ clean[r] /\ phase[r] = "purge" /\ RowOf(r, p) # None => RowOf(r, p) = HeadOf(r, p)

ExactInv ==
  /\ RowsGiveChunks
  /\ WritesGiveChunks
  /\ \A p \in Paths : ExactAt(p)
  /\ \A r \in Runs, p \in Paths : TouchedAt(r, p)

LEMMA ExactInit == Init => ExactInv
BY DEF Init, ExactInv, RowsGiveChunks, WritesGiveChunks, ExactAt, TouchedAt, Stage, NoJob

(* A step that leaves a path's chunks alone and takes nobody's ownership. *)
LEMMA ExactFrame ==
  ASSUME NEW p \in Paths, ExactAt(p),
         \A v, n : <<p, v, n>> \in points' => <<p, v, n>> \in points,
         \A r \in Runs : /\ Stage(r, p, "write")' <=> Stage(r, p, "write")
                         /\ Stage(r, p, "write") => Content(r, p)' = Content(r, p),
         \A b \in Branches : \/ row'[b][p] = row[b][p]
                             \/ Rewriting(p)
                             \/ \E r \in Runs : p \in doomed'[r],
         \A r \in Runs : p \in doomed[r] => Rewriting(p) \/ p \in doomed'[r]
  PROVE  ExactAt(p)'
<1> SUFFICES ASSUME NEW v, NEW n, <<p, v, n>> \in points' PROVE Owned(p, v)'
  BY DEF ExactAt
<1>1. Owned(p, v)
  BY DEF ExactAt
<1>2. Rewriting(p)' <=> Rewriting(p)
  BY DEF Rewriting
<1>3. CASE \E r \in Runs : Stage(r, p, "write") /\ v = Content(r, p)
  BY <1>3 DEF Owned
<1>4. CASE ~Rewriting(p)
  BY <1>1, <1>2, <1>4 DEF Owned, Rewriting
<1> QED BY <1>1, <1>3, <1>4 DEF Owned

LEMMA ExactStep ==
  ASSUME "lock" \notin Faults, Faults \cap Littering = {}, NEW only, Branches = {only},
         LockInv, Written, CleanInv, ExactInv, [Next]_vars
  PROVE  ExactInv'
<1>t. TypeOK
  BY DEF LockInv
<1>y. /\ row \in [Branches -> [Paths -> Versions \cup {None}]]
      /\ phase \in [Runs -> {"idle", "list", "stream", "drain", "purge"}]
      /\ branch \in [Runs -> Branches]
      /\ touched \in [Runs -> SUBSET Paths]
      /\ doomed \in [Runs -> SUBSET Paths]
      /\ job \in [Runs -> [Paths -> Jobs]]
      /\ clean \in [Runs -> BOOLEAN]
      /\ None \notin Versions /\ Barren \subseteq Versions
  BY <1>t, IngestionAssumption DEF TypeOK
<1>b. \A q \in Runs : branch[q] = only /\ branch'[q] = only
  BY TypeStep, <1>t DEF TypeOK
<1>f. /\ \A r \in Runs, k \in Littering : ~Mishap(k, r)
      /\ \A r \in Runs : ~Mishap("lock", r)
      /\ "delete" \notin Faults /\ "purge" \notin Faults /\ Faults \cap Tearing = {}
  BY DEF Mishap, Littering
<1>e. /\ RowsGiveChunks /\ WritesGiveChunks
      /\ \A p \in Paths : ExactAt(p)
      /\ \A r \in Runs, p \in Paths : TouchedAt(r, p)
  BY DEF ExactInv
(* Everybody but r stays as it is. *)
<1>o. ASSUME NEW q \in Runs, NEW p \in Paths,
             phase'[q] = phase[q], job'[q][p] = job[q][p], clean'[q] => clean[q],
             p \in touched'[q] <=> p \in touched[q],
             source' = source, row'[only][p] = row[only][p]
      PROVE  TouchedAt(q, p)'
  BY <1>o, <1>b, <1>e DEF TouchedAt, Stage, RowOf, HeadOf, Content
<1>1. CASE UNCHANGED vars
  BY <1>1 DEF vars, env, index, ExactInv, RowsGiveChunks, WritesGiveChunks, ExactAt, Owned, Rewriting,
              TouchedAt, Stage, Content, HeadOf, RowOf
<1>2. ASSUME NEW b \in Branches, NEW p \in Paths, NEW v \in Versions \cup {None}, Push(b, p, v)
      PROVE  ExactInv'
  <2>1. UNCHANGED <<points, row, phase, branch, touched, doomed, job>> /\ \A q \in Runs : ~clean'[q]
    BY <1>2, <1>b DEF Push, index
  <2> QED BY <2>1 DEF ExactInv, RowsGiveChunks, WritesGiveChunks, ExactAt, Owned, Rewriting,
              TouchedAt, Stage, Content, RowOf
<1>3. ASSUME NEW r \in Runs, NEW b \in Branches, StartRun(r, b)
      PROVE  ExactInv'
  <2>1. /\ phase[r] = "idle" /\ phase'[r] = "list" /\ touched'[r] = {}
        /\ UNCHANGED <<source, points, row, job, doomed>>
        /\ \A q \in Runs : q # r => /\ phase'[q] = phase[q] /\ clean'[q] = clean[q]
                                    /\ touched'[q] = touched[q]
    BY <1>3, <1>y DEF StartRun, Begin, env, index
  <2>2. \A q \in Runs, p \in Paths : TouchedAt(q, p)'
    <3>1. \A q \in Runs, p \in Paths : q # r => TouchedAt(q, p)'
      BY <2>1, <1>o
    <3> QED BY <2>1, <3>1 DEF TouchedAt, Stage
  <2>3. \A q \in Runs, p \in Paths : Stage(q, p, "write")' <=> Stage(q, p, "write")
    BY <2>1 DEF Stage
  <2>4. \A p \in Paths : ExactAt(p)'
    BY <1>e, <2>1, <2>3, ExactFrame DEF Content
  <2> QED BY <1>e, <2>1, <2>2, <2>3, <2>4 DEF ExactInv, RowsGiveChunks, WritesGiveChunks, Content
<1>4. ASSUME NEW r \in Runs, Leave(r), \A q \in Runs : q # r => clean'[q] = clean[q],
             doomed[r] = {}, \A p \in Paths : ~Stage(r, p, "write")
      PROVE  ExactInv'
  <2>1. /\ phase'[r] = "idle" /\ doomed'[r] = {}
        /\ UNCHANGED <<source, points, row>>
        /\ \A q \in Runs : q # r => /\ phase'[q] = phase[q] /\ doomed'[q] = doomed[q]
                                    /\ touched'[q] = touched[q] /\ job'[q] = job[q]
    BY <1>4, <1>y DEF Leave, env, index
  <2>2. \A q \in Runs, p \in Paths : TouchedAt(q, p)'
    <3>1. \A q \in Runs, p \in Paths : q # r => TouchedAt(q, p)'
      BY <1>4, <2>1, <1>o
    <3> QED BY <2>1, <3>1 DEF TouchedAt, Stage
  <2>3. \A q \in Runs, p \in Paths :
          /\ Stage(q, p, "write")' <=> Stage(q, p, "write")
          /\ Stage(q, p, "write") => Content(q, p)' = Content(q, p)
    BY <1>4, <2>1 DEF Stage, Content
  <2>4. \A p \in Paths : ExactAt(p)'
    BY <1>4, <1>e, <2>1, <2>3, ExactFrame
  <2> QED BY <1>e, <2>1, <2>2, <2>3, <2>4 DEF ExactInv, RowsGiveChunks, WritesGiveChunks
<1>5. ASSUME NEW r \in Runs, ListFiles(r)
      PROVE  ExactInv'
  <2>1. /\ phase[r] = "list" /\ phase'[r] = "stream"
        /\ UNCHANGED <<source, points, row, touched, clean, doomed>>
        /\ \A q \in Runs : q # r => phase'[q] = phase[q] /\ job'[q] = job[q]
        /\ \A p \in Paths : job'[r][p].stage \in {"none", "over"}
    BY <1>5, <1>y DEF ListFiles, env, index, NoMishap, NoJob
  <2>2. \A q \in Runs, p \in Paths : TouchedAt(q, p)'
    <3>1. \A q \in Runs, p \in Paths : q # r => TouchedAt(q, p)'
      BY <2>1, <1>o
    <3>2. \A p \in Paths : p \notin touched[r]
      BY <1>e, <2>1 DEF TouchedAt
    <3> QED BY <2>1, <3>1, <3>2 DEF TouchedAt, Stage
  <2>3. \A q \in Runs, p \in Paths :
          /\ Stage(q, p, "write")' <=> Stage(q, p, "write")
          /\ Stage(q, p, "write") => Content(q, p)' = Content(q, p)
    BY <2>1 DEF Stage, Content
  <2>4. \A p \in Paths : ExactAt(p)'
    BY <1>e, <2>1, <2>3, ExactFrame
  <2> QED BY <1>e, <2>1, <2>2, <2>3, <2>4 DEF ExactInv, RowsGiveChunks, WritesGiveChunks
<1>6. ASSUME NEW r \in Runs, StreamRaises(r)
      PROVE  ExactInv'
  <2>1. /\ UNCHANGED <<source, points, row, touched, doomed>>
        /\ phase[r] = "stream" /\ phase'[r] = "drain"
        /\ \A q \in Runs : q # r => /\ phase'[q] = phase[q] /\ job'[q] = job[q]
                                    /\ clean'[q] = clean[q]
        /\ \A p \in Paths : \/ job'[r][p] = job[r][p]
                            \/ job[r][p].stage = "none" /\ job'[r][p].stage = "over"
    BY <1>6, <1>y DEF StreamRaises, env, index, NoJob, Mishap
  <2>2. \A q \in Runs, p \in Paths : TouchedAt(q, p)'
    <3>1. \A q \in Runs, p \in Paths : q # r => TouchedAt(q, p)'
      BY <2>1, <1>o
    <3>2. \A p \in Paths : Stage(r, p, "skip")' => Stage(r, p, "skip") /\ job'[r][p] = job[r][p]
      BY <2>1 DEF Stage
    <3>3. \A p \in Paths : TouchedAt(r, p)'
      BY <1>e, <1>b, <2>1, <3>2 DEF TouchedAt, RowOf, Content
    <3> QED BY <3>1, <3>3
  <2>3. \A q \in Runs, p \in Paths :
          /\ Stage(q, p, "write")' <=> Stage(q, p, "write")
          /\ Stage(q, p, "write") => Content(q, p)' = Content(q, p)
    BY <2>1 DEF Stage, Content
  <2>4. \A p \in Paths : ExactAt(p)'
    BY <1>e, <2>1, <2>3, ExactFrame
  <2> QED BY <1>e, <2>1, <2>2, <2>3, <2>4 DEF ExactInv, RowsGiveChunks, WritesGiveChunks
<1>7. ASSUME NEW r \in Runs, SweepRows(r) \/ SweepFails(r)
      PROVE  ExactInv'
  <2>1. /\ phase[r] = "stream" /\ phase' = [phase EXCEPT ![r] = "purge"] /\ Settled(r)
        /\ UNCHANGED <<source, points, job, touched>>
        /\ \A p \in Paths : \/ row'[only][p] = row[only][p]
                            \/ row'[only][p] = None /\ p \in doomed'[r]
        /\ clean'[r] => \A p \in Paths : row'[only][p] # None => p \in touched[r]
        /\ clean'[r] => clean[r]
    <3>1. CASE SweepRows(r)
      BY <1>b, <1>y, <3>1 DEF SweepRows, Swept, NoMishap, env, Unseen
    <3>2. CASE SweepFails(r)
      BY <1>y, <3>2 DEF SweepFails, Mishap, Littering, env
    <3> QED BY <1>7, <3>1, <3>2
  <2>2. doomed[r] = {} /\ \A q \in Runs : q # r => doomed'[q] = doomed[q] /\ phase'[q] = "idle"
    <3>1. \A q \in Runs : q # r => phase'[q] = "idle"
      BY <2>1, <1>y, Alone DEF Active
    <3>2. doomed[r] = {}
      BY <2>1, <1>y DEF LockInv, DoomedUntracked
    <3>3. \A q \in Runs : q # r => doomed'[q] = doomed[q]
      BY <1>7, <1>y DEF SweepRows, SweepFails
    <3> QED BY <3>1, <3>2, <3>3
  <2>3. \A q \in Runs, p \in Paths : ~Stage(q, p, "write") /\ ~Stage(q, p, "write")'
    <3>1. \A p \in Paths : ~Stage(r, p, "write")
      BY <2>1 DEF Settled, Stage
    <3>2. phase'[r] = "purge"
      BY <2>1, <1>y
    <3>3. \A q \in Runs : q # r => phase[q] = "idle"
      BY <2>1, <2>2, <1>y
    <3> QED BY <2>2, <3>1, <3>2, <3>3 DEF Stage
  <2>4. \A p \in Paths : ExactAt(p)'
    <3> SUFFICES ASSUME NEW p \in Paths PROVE ExactAt(p)'
      OBVIOUS
    <3>1. \A b \in Branches : row'[b][p] = row[b][p] \/ \E q \in Runs : p \in doomed'[q]
      BY <2>1
    <3>2. \A q \in Runs : p \in doomed[q] => p \in doomed'[q]
      BY <2>2
    <3> QED BY <1>e, <2>1, <2>3, <3>1, <3>2, ExactFrame
  <2>5. ASSUME NEW p \in Paths PROVE TouchedAt(r, p)'
    <3>1. phase'[r] = "purge"
      BY <2>1, <1>y
    <3> SUFFICES ASSUME clean'[r], row'[only][p] # None PROVE row'[only][p] = HeadOf(r, p)'
      BY <1>b, <3>1 DEF TouchedAt, Stage, RowOf
    <3>2. p \in touched[r] /\ row'[only][p] = RowOf(r, p) /\ CleanStream(r, p)
      BY <1>b, <2>1 DEF RowOf, CleanInv, CleanAt
    <3>3. job[r][p].stage # "none" /\ RowOf(r, p) = Content(r, p) /\ Content(r, p) # None
      BY <1>e, <2>1, <3>2 DEF TouchedAt
    <3>4. Content(r, p) = HeadOf(r, p)
      BY <3>2, <3>3 DEF CleanStream
    <3> QED BY <1>b, <2>1, <3>2, <3>3, <3>4 DEF HeadOf
  <2>6. \A q \in Runs, p \in Paths : q # r => TouchedAt(q, p)'
    BY <2>2 DEF TouchedAt, Stage
  <2> QED BY <1>e, <1>y, <2>1, <2>3, <2>4, <2>5, <2>6 DEF ExactInv, RowsGiveChunks, WritesGiveChunks
<1>8. ASSUME NEW r \in Runs, NEW p \in Paths, FileStep(r, p)
      PROVE  ExactInv'
  <2>f. FileFrame(r, p)
    BY <1>8, <1>t, FrameOfStep
  <2>e. FileEffect(r, p)
    BY <1>8, <1>t, EffectOfStep
  <2>o. /\ \A q \in Runs : q # r => phase[q] = "idle" /\ phase'[q] = "idle"
        /\ UNCHANGED <<source, branch, phase>>
        /\ only \in Branches
    BY <1>8, <2>f, OthersIdle DEF FileFrame
  <2>s. \A q \in Runs, x \in Paths : <<q, x>> # <<r, p>> =>
          /\ Stage(q, x, "write")' <=> Stage(q, x, "write")
          /\ Content(q, x)' = Content(q, x)
    BY <2>f, <2>o DEF FileFrame, Stage, Content
  <2>1. \A x \in Paths : x # p => ExactAt(x)'
    BY <1>e, <2>f, <2>s, ExactFrame DEF FileFrame
  <2>2. \A q \in Runs, x \in Paths : <<q, x>> # <<r, p>> => TouchedAt(q, x)'
    <3> SUFFICES ASSUME NEW q \in Runs, NEW x \in Paths, <<q, x>> # <<r, p>> PROVE TouchedAt(q, x)'
      OBVIOUS
    <3>1. CASE q # r
      BY <2>o, <3>1 DEF TouchedAt, Stage
    <3>2. CASE q = r
      BY <1>o, <2>f, <2>o, <3>2 DEF FileFrame
    <3> QED BY <3>1, <3>2
  <2>3. ASSUME NEW x \in Paths, x # p, NEW b \in Branches PROVE row'[b][x] \notin Barren
    BY <1>e, <2>3, <2>f DEF FileFrame, RowsGiveChunks
  <2> DEFINE c == Content(r, p)
             w == RowOf(r, p)
             h == HeadOf(r, p)
  <2>w. \A q \in Runs : Stage(q, p, "write") \/ Stage(q, p, "write")' => q = r
    BY <2>o DEF Stage
  <2>q. ASSUME ~Stage(r, p, "write"), ~Stage(r, p, "write")', UNCHANGED <<points, row, doomed>>
        PROVE  ExactAt(p)'
    <3>1. \A q \in Runs : ~Stage(q, p, "write") /\ ~Stage(q, p, "write")'
      BY <2>q, <2>w
    <3> QED BY <1>e, <2>q, <3>1, ExactFrame
  <2>k. /\ TouchedAt(r, p) /\ (clean'[r] => clean[r]) /\ h' = h
        /\ w = row[only][p] /\ RowOf(r, p)' = row'[only][p]
    BY <1>b, <1>e, <2>f, <2>o DEF FileFrame, RowOf, HeadOf
  <2>n. ASSUME NEW s, Stage(r, p, s)
        PROVE  phase'[r] \in {"stream", "drain"} /\ phase' = phase /\ job[r][p].stage = s
    BY <2>n, <2>o DEF Stage
  <2>4. /\ ExactAt(p)' /\ TouchedAt(r, p)' /\ row'[only][p] \notin Barren
        /\ Stage(r, p, "write")' => Content(r, p)' \notin Barren
    <3>0. row[only][p] \notin Barren
      BY <1>e, <2>o DEF RowsGiveChunks
    <3>1. CASE Starts(r, p)
      <4>1. /\ ~Stage(r, p, "write") /\ ~Stage(r, p, "write")' /\ ~Stage(r, p, "skip")'
            /\ UNCHANGED <<points, row, doomed, touched>> /\ phase'[r] = "stream"
            /\ job[r][p].stage = "none"
        BY <3>1, <2>o DEF Starts, Stage, index
      <4>2. p \notin touched[r]
        BY <2>k, <2>o, <4>1 DEF TouchedAt
      <4> QED BY <2>q, <3>0, <4>1, <4>2 DEF TouchedAt
    <3>2. CASE \/ Decides(r, p) /\ UNCHANGED index
               \/ Drops(r, p) /\ UNCHANGED <<index, touched>>
      <4>1. PICK s \in {"fetched", "skip", "parse"}, t \in {"skip", "parse", "over", "failed"} :
              /\ Moves(r, p, s, t)
              /\ t = "skip" => w = c
              /\ s # "skip" => UNCHANGED touched
              /\ s # "fetched" => t # "skip"
        BY <3>2, <1>f DEF Decides, Drops
      <4>2. /\ ~Stage(r, p, "write") /\ ~Stage(r, p, "write")'
            /\ UNCHANGED <<points, row, doomed>>
            /\ phase'[r] \in {"stream", "drain"} /\ phase' = phase /\ job[r][p].stage = s
            /\ job'[r][p].stage = t /\ c' = c /\ c \in Versions /\ Stage(r, p, s)
        BY <3>2, <2>n, <4>1 DEF Moves, Stage, index, Content
      <4>3. phase[r] = "stream" /\ p \in touched'[r] => s # "fetched" /\ w = c /\ c # None
        BY <1>y, <2>k, <4>1, <4>2 DEF TouchedAt
      <4>4. Stage(r, p, "skip")' => w = c
        BY <4>1, <4>2 DEF Stage
      <4>5. TouchedAt(r, p)'
        BY <2>k, <4>1, <4>2, <4>3, <4>4 DEF TouchedAt
      <4> QED BY <2>q, <3>0, <4>2, <4>5
    <3>3. CASE Skips(r, p) /\ UNCHANGED index
      <4>1. /\ ~Stage(r, p, "write") /\ ~Stage(r, p, "write")'
            /\ UNCHANGED <<points, row, doomed>>
            /\ phase'[r] \in {"stream", "drain"} /\ Stage(r, p, "skip")
            /\ job'[r][p].stage = "over" /\ c' = c /\ c \in Versions
        BY <3>3, <2>n DEF Skips, Moves, Stage, index, Content
      <4>2. w = c
        BY <2>k, <4>1 DEF TouchedAt
      <4>3. TouchedAt(r, p)'
        BY <1>y, <2>k, <4>1, <4>2 DEF TouchedAt, Stage
      <4> QED BY <2>q, <3>0, <4>1, <4>3
    <3>4. CASE Clears(r, p) /\ UNCHANGED touched
      <4>1. /\ points' = points \ PointsOf(p) /\ row' = row /\ touched' = touched
            /\ phase'[r] \in {"stream", "drain"} /\ phase' = phase /\ job[r][p].stage = "parse"
            /\ job'[r][p].stage = "write" /\ c' = c /\ c \notin Barren
        BY <3>4, <1>f, <2>n DEF Clears, Moves, Content
      <4>2. phase[r] = "stream" /\ p \in touched[r] => w = c /\ c # None
        BY <2>k, <4>1 DEF TouchedAt
      <4>3. TouchedAt(r, p)'
        BY <2>k, <4>1, <4>2 DEF TouchedAt, Stage
      <4>4. ExactAt(p)'
        BY <4>1 DEF ExactAt, PointsOf
      <4> QED BY <3>0, <4>1, <4>3, <4>4
    <3>5. CASE Adds(r, p)
      <4>1. /\ points' = points \cup {<<p, c, job[r][p].done + 1>>}
            /\ row' = row /\ touched' = touched
            /\ Stage(r, p, "write") /\ job'[r][p].stage = "write" /\ c' = c
            /\ phase'[r] \in {"stream", "drain"} /\ phase' = phase /\ job[r][p].stage = "write"
        BY <3>5, <2>n DEF Adds, Content
      <4>2. phase[r] = "stream" /\ p \in touched[r] => w = c /\ c # None
        BY <2>k, <4>1 DEF TouchedAt
      <4>3. TouchedAt(r, p)'
        BY <2>k, <4>1, <4>2 DEF TouchedAt, Stage
      <4>4. \A v, n : <<p, v, n>> \in points => v = c
        BY <1>e, <2>w, <4>1 DEF ExactAt, Owned, Rewriting
      <4>5. \A v, n : <<p, v, n>> \in points' => v = c
        BY <4>1, <4>4
      <4>6. Stage(r, p, "write")'
        BY <4>1 DEF Stage
      <4>7. ExactAt(p)'
        BY <4>1, <4>5, <4>6 DEF ExactAt, Owned
      <4> QED BY <1>e, <3>0, <4>1, <4>3, <4>7 DEF WritesGiveChunks
    <3>6. CASE Records(r, p)
      <4>1. /\ points' = points /\ row'[only][p] = c
            /\ Stage(r, p, "write") /\ job'[r][p].stage = "over" /\ c' = c /\ c \in Versions
            /\ phase'[r] \in {"stream", "drain"}
        BY <1>b, <3>6, <2>n DEF Records, Moves, Content
      <4>2. TouchedAt(r, p)'
        BY <1>y, <2>k, <4>1 DEF TouchedAt, Stage
      <4>3. \A v, n : <<p, v, n>> \in points => v = c
        BY <1>e, <2>w, <4>1 DEF ExactAt, Owned, Rewriting
      <4>4. ~Rewriting(p)'
        BY <2>w, <4>1 DEF Rewriting, Stage
      <4>5. ExactAt(p)'
        BY <2>o, <4>1, <4>3, <4>4 DEF ExactAt, Owned
      <4>6. c \notin Barren
        BY <1>e, <4>1 DEF WritesGiveChunks
      <4> QED BY <4>1, <4>2, <4>5, <4>6 DEF Stage
    <3>7. CASE Purges(r, p)
      <4>1. /\ points' = points \ PointsOf(p) /\ row' = row /\ phase'[r] = "purge"
            /\ row[only][p] = None
        BY <1>b, <1>f, <2>o, <3>7 DEF Purges, LockInv, DoomedUntracked
      <4>2. TouchedAt(r, p)' /\ ~Stage(r, p, "write")'
        BY <2>k, <4>1 DEF TouchedAt, Stage
      <4>3. ExactAt(p)'
        BY <4>1 DEF ExactAt, PointsOf
      <4> QED BY <3>0, <4>1, <4>2, <4>3
    <3> HIDE DEF c, w, h
    <3> QED BY <2>e, <3>1, <3>2, <3>3, <3>4, <3>5, <3>6, <3>7 DEF FileEffect
  <2>5. RowsGiveChunks'
    BY <2>3, <2>4 DEF RowsGiveChunks
  <2>6. WritesGiveChunks'
    BY <1>e, <2>s, <2>4 DEF WritesGiveChunks
  <2> QED BY <2>1, <2>2, <2>4, <2>5, <2>6 DEF ExactInv
<1>9. ASSUME NEW r \in Runs, RunStep(r)
      PROVE  ExactInv'
  <2>1. CASE ListRaises(r)
    <3>1. doomed[r] = {} /\ \A p \in Paths : ~Stage(r, p, "write")
      BY <2>1, <1>y DEF ListRaises, Stage, LockInv, DoomedUntracked
    <3> QED BY <2>1, <1>4, <3>1, <1>y DEF ListRaises, Mishap
  <2>2. CASE EndRun(r)
    <3>1. doomed[r] = {} /\ \A p \in Paths : ~Stage(r, p, "write")
      BY <2>2, <1>y DEF EndRun, Settled, Stage, LockInv, DoomedUntracked
    <3> QED BY <2>2, <1>4, <3>1 DEF EndRun, NoMishap
  <2>3. ~LoseLock(r) /\ ~Crash(r)
    BY <1>f DEF LoseLock, Crash, Littering, Tearing
  <2> QED BY <1>5, <1>6, <1>7, <1>8, <1>9, <2>1, <2>2, <2>3 DEF RunStep
<1> QED BY <1>1, <1>2, <1>3, <1>9, <1>f DEF Next, StartUnlocked

(* With the lock working, one branch, no failure between deleting a file's *)
(* chunks and recording it, none of a deletion, and no sweep whose rows    *)
(* are gone and whose answer is lost, a run that met no failure ends with  *)
(* the index of its branch equal to the branch: every chunk and every row  *)
(* of the current contents, and nothing else, whatever the history of      *)
(* pushes and of failed runs before it.                                    *)
THEOREM CleanRunsExact ==
  ASSUME "lock" \notin Faults, Faults \cap Littering = {}, NEW only, Branches = {only}
  PROVE  Spec => []CleanRunExact
<1>1. Trusty
  BY DEF Trusty, Littering
<1>2. LockInv /\ Written /\ CleanInv /\ ExactInv /\ [Next]_vars => ExactInv'
  BY ExactStep
<1>3. ASSUME LockInv, CleanInv, ExactInv, NEW r \in Runs, RunDone(r), clean[r]
      PROVE  Mirrors(branch[r])
  <2>t. /\ row \in [Branches -> [Paths -> Versions \cup {None}]]
        /\ source \in [Branches -> [Paths -> Versions \cup {None}]]
        /\ points \subseteq Paths \X Versions \X (1..Batches)
        /\ branch[r] = only /\ only \in Branches
        /\ None \notin Versions
        /\ phase \in [Runs -> {"idle", "list", "stream", "drain", "purge"}]
    BY <1>3 DEF LockInv, TypeOK
  <2>1. phase[r] = "purge" /\ doomed[r] = {}
    BY <1>3 DEF RunDone
  <2>2. ASSUME NEW q \in Runs, q # r
        PROVE  phase[q] = "idle" /\ doomed[q] = {}
    <3>1. phase[q] = "idle"
      BY <1>3, <2>1, <2>2, Alone DEF Active
    <3>2. doomed[q] \subseteq Paths
      BY <1>3 DEF LockInv, TypeOK
    <3> QED BY <1>3, <3>1, <3>2 DEF LockInv, DoomedUntracked
  <2>3. \A p \in Paths : Current(only, p)
    BY <1>3, <2>t, <2>1 DEF CleanInv, CleanAt
  <2>4. \A p \in Paths : row[only][p] # None => row[only][p] = source[only][p]
    BY <1>3, <2>t, <2>1 DEF ExactInv, TouchedAt, RowOf, HeadOf
  <2>5. \A p \in Paths : row[only][p] \notin Barren
    BY <1>3, <2>t DEF ExactInv, RowsGiveChunks
  <2>6. \A p \in Paths :
          row[only][p] = IF source[only][p] \in Versions \ Barren THEN source[only][p] ELSE None
    BY <2>t, <2>3, <2>4, <2>5 DEF Current
  <2>7. ASSUME NEW x \in points
        PROVE  \E p \in Paths : x \in Chunks(p, source[only][p])
    <3>1. PICK p \in Paths, v \in Versions, n \in 1..Batches : x = <<p, v, n>>
      BY <2>t
    <3>2. \A q \in Runs : ~Stage(q, p, "write") /\ p \notin doomed[q]
      BY <2>1, <2>2 DEF Stage
    <3>3. row[only][p] = v
      BY <1>3, <3>1, <3>2 DEF ExactInv, ExactAt, Owned
    <3>4. source[only][p] = v /\ v \notin Barren
      BY <2>t, <2>4, <2>5, <3>3
    <3> QED BY <3>1, <3>4 DEF Chunks
  <2>8. ASSUME NEW p \in Paths
        PROVE  Chunks(p, source[only][p]) \subseteq points
    BY <2>3 DEF Current, Complete, Chunks
  <2>9. points = UNION {Chunks(p, source[only][p]) : p \in Paths}
    BY <2>7, <2>8
  <2> QED BY <2>t, <2>6, <2>9 DEF Mirrors
<1>4. LockInv /\ CleanInv /\ ExactInv => CleanRunExact
  BY <1>3 DEF CleanRunExact
<1>5. Spec => [](LockInv /\ Written /\ AllSound)
  BY <1>1, SoundAlways
<1>6. Spec => []CleanInv
  BY <1>1, CleanAlways
<1> QED BY <1>2, <1>4, <1>5, <1>6, ExactInit, PTL DEF Spec

-----------------------------------------------------------------------------
(* Nothing of a file that is there but what it holds *)

(* Every chunk of p is of the content v. *)
AllOf(p, v) == \A u, n : <<p, u, n>> \in points => u = v

(* A path that is being written has chunks of the new content only; and    *)
(* one that is not, of its row's, or its row will never agree again.       *)
OnlyAt(p) ==
  /\ \A r \in Runs : Stage(r, p, "write") => AllOf(p, Content(r, p))
  /\ \A b \in Branches :
       /\ row[b][p] # None
       /\ ~Rewriting(p)
       /\ Faults \cap Tearing = {} \/ row[b][p] = source[b][p]
       => AllOf(p, row[b][p])
OnlyInv == \A p \in Paths : OnlyAt(p)

LEMMA OnlyInit == Init => OnlyInv
BY DEF Init, OnlyInv, OnlyAt, Stage

LEMMA OnlyStep ==
  ASSUME "lock" \notin Faults, "delete" \notin Faults, NEW only, Branches = {only},
         LockInv, OnlyInv, [Next]_vars,
         Faults \cap Tearing = {} \/ (~Reverts /\ TrustInv)
  PROVE  OnlyInv'
<1>t. TypeOK /\ only \in Branches /\ \A q \in Runs : branch[q] = only
  BY DEF LockInv, TypeOK
<1>u. "write" \in Underway /\ "write" \in Stages
  BY DEF Underway, Stages
(* A writing that ends unrecorded leaves a row that will not agree. *)
<1>e. ASSUME NEW q \in Runs, NEW x \in Paths, Stage(q, x, "write"), Faults \cap Tearing # {}
      PROVE  row[only][x] = None \/ row[only][x] # source[only][x]
  BY <1>e, <1>t DEF TrustInv, Trust, RowOf, HeadOf
<1>1. ASSUME NEW b \in Branches, NEW p \in Paths, NEW v \in Versions \cup {None}, Push(b, p, v)
      PROVE  OnlyInv'
  <2>1. /\ UNCHANGED <<points, row, job>>
        /\ \A q \in Runs, x \in Paths : Stage(q, x, "write")' <=> Stage(q, x, "write")
    BY <1>1 DEF Push, index, Stage
  <2>2. \A x \in Paths :
          Faults \cap Tearing # {} /\ row[only][x] # None /\ row[only][x] = source'[only][x]
            => row[only][x] = source[only][x]
    <3> SUFFICES ASSUME NEW x \in Paths, Faults \cap Tearing # {}, row[only][x] # None,
                        row[only][x] = source'[only][x]
                 PROVE  row[only][x] = source[only][x]
      OBVIOUS
    <3>1. /\ row[only][x] \in used[only][x] /\ (v = None \/ v \notin used[only][p])
          /\ b = only /\ source \in [Branches -> [Paths -> Versions \cup {None}]]
          /\ source' = [source EXCEPT ![only][p] = v]
      BY <1>1, <1>t DEF Push, TrustInv, RowTrue, TypeOK
    <3> QED BY <3>1
  <2> QED BY <1>t, <2>1, <2>2 DEF OnlyInv, OnlyAt, AllOf, Rewriting, Content
<1>2. CASE RunFrame
  <2> SUFFICES ASSUME NEW p \in Paths PROVE OnlyAt(p)'
    BY DEF OnlyInv
  <2>1. /\ UNCHANGED <<points, source>> /\ row'[only][p] \in {row[only][p], None}
        /\ \A q \in Runs : Stage(q, p, "write")' =>
             Stage(q, p, "write") /\ Content(q, p)' = Content(q, p)
        /\ Faults \cap Tearing = {} /\ Rewriting(p) => Rewriting(p)'
    BY <1>2, <1>t, <1>u DEF RunFrame, Content, Rewriting
  <2>2. /\ \A q \in Runs : Stage(q, p, "write")' => AllOf(p, Content(q, p))'
    BY <2>1 DEF OnlyInv, OnlyAt, AllOf
  <2>3. ASSUME row'[only][p] # None, ~Rewriting(p)',
               Faults \cap Tearing = {} \/ row'[only][p] = source'[only][p]
        PROVE  AllOf(p, row[only][p])
    <3>1. ~Rewriting(p)
      BY <1>e, <2>1, <2>3 DEF Rewriting
    <3> QED BY <1>t, <2>1, <2>3, <3>1 DEF OnlyInv, OnlyAt
  <2> QED BY <1>t, <2>1, <2>2, <2>3 DEF OnlyAt, AllOf
<1>3. ASSUME NEW r \in Runs, NEW p \in Paths, FileStep(r, p)
      PROVE  OnlyInv'
  <2>f. FileFrame(r, p) /\ FileEffect(r, p)
    BY <1>3, <1>t, FrameOfStep, EffectOfStep
  <2>o. /\ \A q \in Runs : q # r => phase[q] = "idle" /\ phase'[q] = "idle"
        /\ UNCHANGED <<source, branch, phase>>
    BY <1>3, <2>f, OthersIdle DEF FileFrame
  <2>1. ASSUME NEW x \in Paths, x # p PROVE OnlyAt(x)'
    <3>1. /\ \A q \in Runs : Content(q, x)' = Content(q, x)
                              /\ (Stage(q, x, "write")' <=> Stage(q, x, "write"))
          /\ row'[only][x] = row[only][x]
          /\ \A v : AllOf(x, v)' <=> AllOf(x, v)
      BY <1>t, <2>f, <2>o, <2>1 DEF FileFrame, Content, Stage, AllOf
    <3>2. Rewriting(x)' <=> Rewriting(x)
      BY <3>1 DEF Rewriting
    <3>3. \A q \in Runs : AllOf(x, Content(q, x)) => AllOf(x, Content(q, x))'
      BY <3>1 DEF AllOf
    <3>4. AllOf(x, row[only][x]) => AllOf(x, row[only][x])'
      BY <3>1 DEF AllOf
    <3> QED BY <1>t, <2>1, <2>o, <3>1, <3>2, <3>3, <3>4 DEF OnlyInv, OnlyAt
  <2> DEFINE c == Content(r, p)
             w == row[only][p]
  <2>w. /\ Rewriting(p) <=> Stage(r, p, "write")
        /\ Rewriting(p)' <=> Stage(r, p, "write")'
        /\ \A q \in Runs : Stage(q, p, "write")' => q = r
    BY <2>o DEF Rewriting, Stage
  <2>k. /\ Stage(r, p, "write") => AllOf(p, c)
        /\ w # None /\ ~Stage(r, p, "write") /\ (Faults \cap Tearing = {} \/ w = source[only][p])
             => AllOf(p, w)
    BY <1>t, <2>w DEF OnlyInv, OnlyAt
  <2>s. SUFFICES /\ Stage(r, p, "write")' => AllOf(p, c)'
                 /\ row'[only][p] # None /\ ~Stage(r, p, "write")'
                      /\ (Faults \cap Tearing = {} \/ row'[only][p] = source[only][p])
                      => AllOf(p, row[only][p])'
    BY <1>t, <2>1, <2>o, <2>w DEF OnlyInv, OnlyAt
  <2>2. CASE \/ Starts(r, p)
             \/ Decides(r, p) /\ UNCHANGED index
             \/ Skips(r, p) /\ UNCHANGED index
             \/ Drops(r, p) /\ UNCHANGED <<index, touched>>
    <3>1. UNCHANGED <<points, row>> /\ ~Stage(r, p, "write")'
      BY <2>2 DEF Starts, Decides, Skips, Drops, Moves, Stage, index
    <3>2. Stage(r, p, "write") => Faults \cap Tearing # {}
      BY <2>2 DEF Starts, Decides, Skips, Drops, Moves, Stage
    <3> QED BY <1>e, <2>k, <3>1, <3>2 DEF AllOf
  <2>3. CASE Clears(r, p) /\ UNCHANGED touched
    <3>1. points' = points \ PointsOf(p) /\ Stage(r, p, "write")'
      BY <2>3, <2>o DEF Clears, Moves, Stage
    <3> QED BY <3>1 DEF AllOf, PointsOf
  <2>4. CASE Adds(r, p)
    <3>1. /\ AllOf(p, c) /\ c' = c /\ Stage(r, p, "write")'
          /\ points' = points \cup {<<p, c, job[r][p].done + 1>>}
      BY <2>4, <2>k, <2>o DEF Adds, Content, Stage
    <3> QED BY <3>1 DEF AllOf
  <2>5. CASE Records(r, p)
    <3>1. /\ AllOf(p, c) /\ points' = points /\ row'[only][p] = c /\ ~Stage(r, p, "write")'
      BY <1>t, <2>5, <2>k DEF Records, Moves, Content, Stage
    <3> QED BY <3>1 DEF AllOf
  <2>6. CASE Purges(r, p)
    <3>1. row'[only][p] = None /\ ~Stage(r, p, "write")'
      BY <1>t, <2>6, <2>o DEF Purges, LockInv, DoomedUntracked, Stage
    <3> QED BY <3>1
  <2> QED BY <2>f, <2>2, <2>3, <2>4, <2>5, <2>6 DEF FileEffect
<1> QED BY <1>t, <1>1, <1>2, <1>3, FrameOfRun

(* CleanRunReplaces holds where CleanRunExact does not: under the          *)
(* conditions of CleanRunsComplete and with no failed deletion, a clean    *)
(* run leaves a file that gives chunks with exactly those, even after      *)
(* crashes, and after sweeps whose rows are gone and whose answer is lost. *)
THEOREM CleanRunsReplace ==
  ASSUME "lock" \notin Faults, "delete" \notin Faults, NEW only, Branches = {only}, Trusty
  PROVE  Spec => []CleanRunReplaces
<1>1. Spec => []OnlyInv
  <2>1. CASE Faults \cap Tearing = {}
    <3>1. LockInv /\ OnlyInv /\ [Next]_vars => OnlyInv'
      BY <2>1, OnlyStep
    <3> QED BY <3>1, LockInvInit, LockInvStep, OnlyInit, PTL DEF Spec
  <2>2. CASE ~Reverts /\ Faults \cap Doubting = {}
    <3>1. LockInv /\ Written /\ TrustInv /\ [Next]_vars => Written' /\ TrustInv'
      BY <2>2, WrittenStep, TrustStep
    <3>2. LockInv /\ TrustInv /\ OnlyInv /\ [Next]_vars => OnlyInv'
      BY <2>2, OnlyStep
    <3>3. Init => Written /\ TrustInv
      BY <2>2, TrackedInit, TrustInit
    <3> QED BY <3>1, <3>2, <3>3, LockInvInit, LockInvStep, OnlyInit, PTL DEF Spec
  <2> QED BY <2>1, <2>2 DEF Trusty
<1>2. ASSUME LockInv, CleanInv, OnlyInv, NEW r \in Runs, NEW p \in Paths,
             RunDone(r), clean[r], source[branch[r]][p] \in Versions \ Barren
      PROVE  PointsOf(p) = Chunks(p, source[branch[r]][p])
  <2> DEFINE v == source[only][p]
  <2>1. /\ branch[r] = only /\ only \in Branches /\ phase[r] = "purge" /\ None \notin Versions
        /\ points \subseteq Paths \X Versions \X (1..Batches)
    BY <1>2 DEF LockInv, TypeOK, RunDone
  <2>2. Chunks(p, v) \subseteq points /\ row[only][p] = v /\ v \in Versions \ Barren
    BY <1>2, <2>1 DEF CleanInv, CleanAt, Current, Complete
  <2>3. ~Rewriting(p)
    <3> SUFFICES ASSUME NEW q \in Runs, Stage(q, p, "write") PROVE FALSE
      BY DEF Rewriting
    <3>1. q = r
      BY <1>2, <2>1, Alone DEF Stage, Active
    <3> QED BY <2>1, <3>1 DEF Stage
  <2>4. AllOf(p, v)
    BY <1>2, <2>1, <2>2, <2>3 DEF OnlyInv, OnlyAt
  <2>5. Chunks(p, v) = {p} \X {v} \X (1..Batches)
    BY <2>2 DEF Chunks
  <2>6. ASSUME NEW x \in PointsOf(p) PROVE x \in Chunks(p, v)
    <3>1. PICK y \in Paths, u \in Versions, n \in 1..Batches : x = <<y, u, n>>
      BY <2>1 DEF PointsOf
    <3>2. y = p /\ x \in points
      BY <3>1 DEF PointsOf
    <3>3. u = v
      BY <2>4, <3>1, <3>2 DEF AllOf
    <3> QED BY <2>5, <3>1, <3>2, <3>3
  <2>7. Chunks(p, v) \subseteq PointsOf(p)
    BY <2>2, <2>5 DEF PointsOf
  <2> QED BY <2>1, <2>6, <2>7
<1>3. LockInv /\ CleanInv /\ OnlyInv => CleanRunReplaces
  BY <1>2 DEF CleanRunReplaces
<1>4. Spec => [](LockInv /\ Written /\ AllSound)
  BY SoundAlways
<1> QED BY <1>1, <1>3, <1>4, CleanAlways, PTL
=============================================================================
