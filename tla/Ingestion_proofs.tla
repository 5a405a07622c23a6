-------------------------- MODULE Ingestion_proofs --------------------------
(***************************************************************************)
(* Proofs about Ingestion, for any number of paths, branches, contents,    *)
(* runs and failures: type correctness, what the deletion sweep takes, and *)
(* what the advisory lock is for.                                          *)
(***************************************************************************)
EXTENDS Ingestion, TLAPS

USE IngestionAssumption

-----------------------------------------------------------------------------
(* Type correctness *)

LEMMA TypeInit == Init => TypeOK
BY SMTT(30) DEF Init, TypeOK, Jobs, NoJob, Stages, Underway

LEMMA MishapType ==
  ASSUME TypeOK, NEW r \in Runs, NEW kind, Mishap(kind, r)
  PROVE  clean' \in [Runs -> BOOLEAN] /\ mishaps' \in 0..MaxMishaps
BY DEF TypeOK, Mishap

LEMMA LeaveType ==
  ASSUME TypeOK, NEW r \in Runs, Leave(r),
         clean' \in [Runs -> BOOLEAN], mishaps' \in 0..MaxMishaps
  PROVE  TypeOK'
<1>1. NoJob \in Jobs
  BY DEF NoJob, Jobs, Stages, Underway
<1>2. job' \in [Runs -> [Paths -> Jobs]]
  BY <1>1 DEF TypeOK, Leave
<1>3. lock' \in [Branches -> Runs \cup {None}]
  BY DEF TypeOK, Leave
<1>4. phase' \in [Runs -> {"idle", "list", "stream", "drain", "purge"}]
  BY DEF TypeOK, Leave
<1>5. /\ listing' \in [Runs -> SUBSET Paths]
      /\ touched' \in [Runs -> SUBSET Paths]
      /\ doomed' \in [Runs -> SUBSET Paths]
  BY DEF TypeOK, Leave
<1> QED
  BY <1>2, <1>3, <1>4, <1>5 DEF TypeOK, Leave, env, index

LEMMA BeginType ==
  ASSUME TypeOK, NEW r \in Runs, NEW b \in Branches, Begin(r, b),
         lock' \in [Branches -> Runs \cup {None}],
         clean' \in [Runs -> BOOLEAN], mishaps' \in 0..MaxMishaps
  PROVE  TypeOK'
BY DEF TypeOK, Begin, env, index

LEMMA JobType ==
  ASSUME TypeOK, NEW r \in Runs, NEW p \in Paths, NEW work \in Jobs,
         SetJob(r, p, work),
         points' \subseteq Paths \X Versions \X (1..Batches),
         row' \in [Branches -> [Paths -> Versions \cup {None}]],
         touched' \in [Runs -> SUBSET Paths],
         clean' \in [Runs -> BOOLEAN], mishaps' \in 0..MaxMishaps
  PROVE  TypeOK'
BY DEF TypeOK, SetJob, env

LEMMA StageType ==
  ASSUME TypeOK, NEW r \in Runs, NEW p \in Paths, NEW s \in Stages,
         job[r][p].stage \in Underway
  PROVE  [job[r][p] EXCEPT !.stage = s] \in Jobs
<1> DEFINE j == job[r][p]
<1>1. /\ j \in [stage : Stages, content : Versions \cup {None}, done : 0..Batches]
      /\ j.content \in Versions
  BY DEF TypeOK, Jobs
<1> HIDE DEF j
<1>2. [j EXCEPT !.stage = s]
        \in [stage : Stages, content : Versions \cup {None}, done : 0..Batches]
  BY <1>1
<1>3. [j EXCEPT !.stage = s].content \in Versions
  BY <1>1
<1> QED
  BY <1>2, <1>3 DEF Jobs, j

LEMMA TouchType ==
  ASSUME TypeOK, NEW b, NEW p \in Paths, Touch(b, p)
  PROVE  touched' \in [Runs -> SUBSET Paths]
BY DEF TypeOK, Touch

(* The sweep leaves of each row what it was, or nothing. *)
LEMMA SweptType ==
  ASSUME TypeOK, NEW r \in Runs
  PROVE  /\ Swept(r) \in [Branches -> [Paths -> Versions \cup {None}]]
         /\ \A b \in Branches, p \in Paths :
              /\ Swept(r)[b][p] \in {row[b][p], None}
              /\ b = branch[r] /\ p \in Unseen(r) => Swept(r)[b][p] = None
BY DEF TypeOK, Swept

LEMMA TypeStep == TypeOK /\ [Next]_vars => TypeOK'
<1> SUFFICES ASSUME TypeOK, [Next]_vars PROVE TypeOK'
  OBVIOUS
<1>s. {"over", "failed", "fetched", "skip", "parse", "write"} \subseteq Stages
  BY DEF Stages
<1>u. \A r, p, s : Stage(r, p, s) => job[r][p].stage = s
  BY DEF Stage
<1>w. {"fetched", "skip", "parse", "write"} \subseteq Underway
  BY DEF Underway
<1>n. ASSUME NoMishap
      PROVE  clean' \in [Runs -> BOOLEAN] /\ mishaps' \in 0..MaxMishaps
  BY <1>n DEF NoMishap, TypeOK
<1>i. /\ points \subseteq Paths \X Versions \X (1..Batches)
      /\ row \in [Branches -> [Paths -> Versions \cup {None}]]
      /\ touched \in [Runs -> SUBSET Paths]
      /\ \A r \in Runs : branch[r] \in Branches
      /\ \A r \in Runs, p \in Paths :
            job[r][p] \in Jobs /\ job[r][p].content \in Versions \cup {None}
  BY DEF TypeOK, Jobs
<1>1. CASE UNCHANGED vars
  BY <1>1 DEF vars, env, index, TypeOK
<1>2. ASSUME NEW b \in Branches, NEW p \in Paths, NEW v \in Versions \cup {None},
             Push(b, p, v)
      PROVE  TypeOK'
  BY <1>2 DEF Push, TypeOK, index
<1>3. ASSUME NEW r \in Runs, NEW b \in Branches, StartRun(r, b)
      PROVE  TypeOK'
  <2>1. lock' \in [Branches -> Runs \cup {None}] /\ clean' \in [Runs -> BOOLEAN]
    BY <1>3 DEF StartRun, TypeOK
  <2> QED
    BY <1>3, <2>1, BeginType DEF StartRun, TypeOK
<1>4. ASSUME NEW r \in Runs, NEW b \in Branches, StartUnlocked(r, b)
      PROVE  TypeOK'
  BY <1>4, MishapType, BeginType DEF StartUnlocked, TypeOK
<1>5. ASSUME NEW r \in Runs, RunStep(r)
      PROVE  TypeOK'
  <2>1. CASE ListFiles(r)
    <3>1. [NoJob EXCEPT !.stage = "over"] \in Jobs /\ NoJob \in Jobs
      BY DEF NoJob, Jobs, Stages, Underway
    <3>2. job' \in [Runs -> [Paths -> Jobs]]
      BY <2>1, <3>1 DEF ListFiles, TypeOK
    <3> QED
      BY <2>1, <3>2, <1>n DEF ListFiles, TypeOK, env, index
  <2>2. CASE ListRaises(r)
    BY <2>2, MishapType, LeaveType DEF ListRaises
  <2>3. CASE StreamRaises(r)
    <3>1. [NoJob EXCEPT !.stage = "over"] \in Jobs
      BY DEF NoJob, Jobs, Stages, Underway
    <3>2. job' \in [Runs -> [Paths -> Jobs]]
      BY <2>3, <3>1 DEF StreamRaises, TypeOK
    <3> QED
      BY <2>3, <3>2, MishapType DEF StreamRaises, TypeOK, env, index
  <2>4. CASE SweepRows(r)
    <3>1. row' \in [Branches -> [Paths -> Versions \cup {None}]]
      BY <2>4, SweptType DEF SweepRows
    <3>2. doomed' \in [Runs -> SUBSET Paths]
      BY <2>4 DEF SweepRows, TypeOK, Unseen
    <3> QED
      BY <2>4, <3>1, <3>2, <1>n DEF SweepRows, TypeOK, env
  <2>5. CASE SweepFails(r)
    <3>1. /\ row' \in [Branches -> [Paths -> Versions \cup {None}]]
          /\ clean' \in [Runs -> BOOLEAN] /\ mishaps' \in 0..MaxMishaps
      BY <2>5, <1>i, SweptType, MishapType DEF SweepFails
    <3> QED
      BY <2>5, <3>1 DEF SweepFails, TypeOK, env
  <2>6. CASE EndRun(r)
    BY <2>6, <1>n, LeaveType DEF EndRun
  <2>7. CASE Crash(r)
    BY <2>7, MishapType, LeaveType DEF Crash
  <2>8. CASE LoseLock(r)
    BY <2>8, MishapType DEF LoseLock, TypeOK, env, index
  <2>9. ASSUME NEW p \in Paths, FileStep(r, p)
        PROVE  TypeOK'
    <3>1. CASE Fetch(r, p)
      <4>1. [stage |-> IF source[branch[r]][p] = None THEN "over" ELSE "fetched",
             content |-> source[branch[r]][p], done |-> 0] \in Jobs
        BY <1>i DEF Jobs, Stages, Underway, TypeOK
      <4> QED
        BY <3>1, <4>1, <1>n, <1>i, JobType DEF Fetch, index
    <3>2. CASE FetchFails(r, p)
      <4>1. [stage |-> "over", content |-> source[branch[r]][p], done |-> 0] \in Jobs
        BY <1>i DEF Jobs, Stages, Underway, TypeOK
      <4> QED
        BY <3>2, <4>1, <1>i, MishapType, JobType DEF FetchFails, index
    <3>3. CASE Lookup(r, p)
      BY <3>3, <1>n, <1>i, <1>s, <1>u, <1>w, StageType, JobType DEF Lookup, GoTo, index
    <3>4. CASE LookupFails(r, p)
      BY <3>4, <1>i, <1>s, <1>u, <1>w, MishapType, StageType, JobType DEF LookupFails, GoTo, index
    <3>5. CASE MarkSeen(r, p)
      BY <3>5, <1>n, <1>i, <1>s, <1>u, <1>w, TouchType, StageType, JobType
         DEF MarkSeen, GoTo, index
    <3>6. CASE MarkSeenFails(r, p)
      <4>1. touched' \in [Runs -> SUBSET Paths]
        BY <3>6, <1>i, TouchType DEF MarkSeenFails
      <4> QED
        BY <3>6, <4>1, <1>i, <1>s, <1>u, <1>w, MishapType, StageType, JobType
           DEF MarkSeenFails, GoTo, index
    <3>7. CASE NothingToIndex(r, p)
      BY <3>7, <1>n, <1>i, <1>s, <1>u, <1>w, StageType, JobType DEF NothingToIndex, GoTo, index
    <3>8. CASE ParseFails(r, p)
      BY <3>8, <1>i, <1>s, <1>u, <1>w, MishapType, StageType, JobType DEF ParseFails, GoTo, index
    <3>9. CASE DeleteOld(r, p)
      BY <3>9, <1>n, <1>i, <1>s, <1>u, <1>w, StageType, JobType DEF DeleteOld, GoTo
    <3>10. CASE DeleteOldFails(r, p)
      BY <3>10, <1>i, <1>s, <1>u, <1>w, MishapType, StageType, JobType
         DEF DeleteOldFails, GoTo, index
    <3>11. CASE WriteFails(r, p)
      BY <3>11, <1>i, <1>s, <1>u, <1>w, MishapType, StageType, JobType DEF WriteFails, GoTo, index
    <3>12. CASE Upsert(r, p)
      <4> DEFINE j == job[r][p]
      <4>1. j \in Jobs /\ j.stage = "write" /\ j.done < Batches
        BY <3>12, <1>i, <1>u DEF Upsert
      <4> HIDE DEF j
      <4>2. j.content \in Versions /\ j.done + 1 \in 1..Batches
        BY <4>1, <1>w, IngestionAssumption DEF Jobs
      <4>3. [j EXCEPT !.done = @ + 1] \in Jobs
        BY <4>1, <4>2 DEF Jobs
      <4>4. points' \subseteq Paths \X Versions \X (1..Batches)
        BY <3>12, <4>2, <1>i DEF Upsert, j
      <4>5. /\ SetJob(r, p, [j EXCEPT !.done = @ + 1])
            /\ NoMishap
            /\ row' = row /\ touched' = touched
        BY <3>12 DEF Upsert, j
      <4> QED
        BY <4>3, <4>4, <4>5, <1>n, <1>i, JobType
    <3>13. CASE Record(r, p)
      <4>1. /\ SetJob(r, p, [job[r][p] EXCEPT !.stage = "over"])
            /\ row' = [row EXCEPT ![branch[r]][p] = job[r][p].content]
            /\ Touch(branch[r], p)
            /\ NoMishap
            /\ points' = points
        BY <3>13 DEF Record, GoTo
      <4>2. [job[r][p] EXCEPT !.stage = "over"] \in Jobs
        BY <3>13, <1>s, <1>u, <1>w, StageType DEF Record
      <4>3. row' \in [Branches -> [Paths -> Versions \cup {None}]]
        BY <4>1, <1>i
      <4>4. touched' \in [Runs -> SUBSET Paths]
        BY <4>1, TouchType
      <4> QED
        BY <4>1, <4>2, <4>3, <4>4, <1>n, <1>i, JobType
    <3>14. CASE RecordEarly(r, p)
      BY <3>14, <1>i, <1>s, <1>u, <1>w, MishapType, StageType, JobType DEF RecordEarly, GoTo
    <3>15. CASE RecordFails(r, p)
      BY <3>15, <1>i, <1>s, <1>u, <1>w, MishapType, StageType, JobType DEF RecordFails, GoTo, index
    <3>16. CASE Purge(r, p)
      BY <3>16, <1>n DEF Purge, TypeOK, env
    <3>17. CASE PurgeFails(r, p)
      BY <3>17, MishapType DEF PurgeFails, TypeOK, env, index
    <3>18. CASE MarkSeenEarly(r, p)
      BY <3>18, <1>i, <1>s, <1>u, <1>w, MishapType, StageType, JobType
         DEF MarkSeenEarly, GoTo, index
    <3> QED
      BY <2>9, <3>1, <3>2, <3>3, <3>4, <3>5, <3>6, <3>7, <3>8, <3>9, <3>10,
         <3>11, <3>12, <3>13, <3>14, <3>15, <3>16, <3>17, <3>18 DEF FileStep
  <2> QED
    BY <1>5, <2>1, <2>2, <2>3, <2>4, <2>5, <2>6, <2>7, <2>8, <2>9 DEF RunStep
<1> QED
  BY <1>1, <1>2, <1>3, <1>4, <1>5 DEF Next

(* Every variable of Ingestion keeps its type. *)
THEOREM TypeCorrect == Spec => []TypeOK
BY TypeInit, TypeStep, PTL DEF Spec
-----------------------------------------------------------------------------
(* What the deletion sweep takes *)

(* While a run streams, a listed file whose work is over and whose row     *)
(* still stands was touched by the run, unless it gave nothing to index.   *)
SeenOrGone ==
  \A r \in Runs, p \in Paths :
    /\ phase[r] = "stream"
    /\ p \in listing[r]
    /\ job[r][p].stage \in {"over", "failed"}
    /\ job[r][p].content \notin Barren \cup {None}
    /\ row[branch[r]][p] # None
    => p \in touched[r]

(* Only the sweep dooms. *)
DoomedLater == \A r \in Runs : phase[r] # "purge" => doomed[r] = {}

SweepInv == TypeOK /\ SeenOrGone /\ DoomedLater

(* The failures that end the work on a file with its row not touched, the  *)
(* stream going on: each of them lets the sweep take the row of a file     *)
(* that is there.                                                          *)
Unfinishing == {"fetch", "parse", "embed", "upsert", "record", "clock"}

LEMMA SweepInvInit == Init => SweepInv
BY TypeInit DEF Init, SweepInv, SeenOrGone, DoomedLater

(* A step of the work on one file keeps the invariant when it forgets no   *)
(* touch, brings no row back untouched, and touches the row it leaves      *)
(* behind.                                                                 *)
LEMMA FileKeepsSweepInv ==
  ASSUME SweepInv, NEW r \in Runs, NEW p \in Paths, NEW work, SetJob(r, p, work),
         \A q \in Runs : touched[q] \subseteq touched'[q],
         \A q \in Runs, x \in Paths :
           Active(q) /\ row'[branch[q]][x] # None
             => row[branch[q]][x] # None \/ x \in touched'[q],
         work.stage \in {"over", "failed"} /\ work.content \notin Barren \cup {None}
           /\ row'[branch[r]][p] # None => p \in touched'[r]
  PROVE  SeenOrGone' /\ DoomedLater'
<1>1. DoomedLater'
  BY DEF SweepInv, DoomedLater, SetJob
<1>2. ASSUME NEW q \in Runs, NEW x \in Paths,
             phase'[q] = "stream", x \in listing'[q], job'[q][x].stage \in {"over", "failed"},
             job'[q][x].content \notin Barren \cup {None}, row'[branch'[q]][x] # None
      PROVE  x \in touched'[q]
  <2>1. phase[q] = "stream" /\ x \in listing[q] /\ branch'[q] = branch[q] /\ Active(q)
    BY <1>2 DEF SetJob, Active
  <2>2. CASE q = r /\ x = p
    <3>1. job'[q][x] = work
      BY <2>2 DEF SetJob, SweepInv, TypeOK
    <3> QED
      BY <1>2, <2>1, <2>2, <3>1
  <2>3. CASE ~(q = r /\ x = p)
    <3>1. job'[q][x] = job[q][x]
      BY <2>3 DEF SetJob, SweepInv, TypeOK
    <3> QED
      BY <1>2, <2>1, <3>1 DEF SweepInv, SeenOrGone
  <2> QED
    BY <2>2, <2>3
<1> QED
  BY <1>1, <1>2 DEF SeenOrGone

LEMMA SweepInvStep ==
  ASSUME Faults \cap Unfinishing = {}
  PROVE  SweepInv /\ [Next]_vars => SweepInv'
<1> SUFFICES ASSUME SweepInv, [Next]_vars PROVE SeenOrGone' /\ DoomedLater'
  BY TypeStep DEF SweepInv
<1>t. TypeOK
  BY DEF SweepInv
<1>f. \A r \in Runs, kind \in Unfinishing : ~Mishap(kind, r)
  BY DEF Mishap
<1>k. /\ \A q \in Runs : touched[q] \subseteq touched[q]
      /\ \A q \in Runs, x \in Paths : Active(q) /\ row[branch[q]][x] # None
           => row[branch[q]][x] # None \/ x \in touched[q]
  OBVIOUS
<1>m. ASSUME NEW b, NEW p \in Paths, Touch(b, p)
      PROVE  /\ \A q \in Runs : touched[q] \subseteq touched'[q]
             /\ \A q \in Runs : Active(q) /\ branch[q] = b => p \in touched'[q]
  BY <1>m, <1>t DEF Touch, TypeOK
<1>1. CASE UNCHANGED vars
  BY <1>1 DEF vars, env, index, SweepInv, SeenOrGone, DoomedLater
<1>2. ASSUME NEW b \in Branches, NEW p \in Paths, NEW v \in Versions \cup {None},
             Push(b, p, v)
      PROVE  SeenOrGone' /\ DoomedLater'
  BY <1>2 DEF Push, index, SweepInv, SeenOrGone, DoomedLater
<1>3. ASSUME NEW r \in Runs, NEW b \in Branches, StartRun(r, b) \/ StartUnlocked(r, b)
      PROVE  SeenOrGone' /\ DoomedLater'
  <2>1. Begin(r, b) /\ phase[r] = "idle"
    BY <1>3 DEF StartRun, StartUnlocked
  <2> QED
    BY <2>1, <1>t DEF Begin, env, index, SweepInv, TypeOK, SeenOrGone, DoomedLater
<1>4. ASSUME NEW r \in Runs, Leave(r)
      PROVE  SeenOrGone' /\ DoomedLater'
  BY <1>4, <1>t DEF Leave, env, index, SweepInv, TypeOK, SeenOrGone, DoomedLater
<1>5. ASSUME NEW r \in Runs, RunStep(r)
      PROVE  SeenOrGone' /\ DoomedLater'
  <2>1. CASE ListFiles(r)
    <3>1. \A q \in Runs \ {r} : phase'[q] = phase[q] /\ listing'[q] = listing[q]
                                /\ job'[q] = job[q]
      BY <2>1, <1>t DEF ListFiles, TypeOK
    <3>2. \A p \in listing'[r] : job'[r][p] = NoJob
      BY <2>1, <1>t DEF ListFiles, TypeOK
    <3> QED
      BY <2>1, <3>1, <3>2, <1>t
         DEF ListFiles, NoJob, env, index, SweepInv, TypeOK, SeenOrGone, DoomedLater
  <2>2. CASE ListRaises(r) \/ EndRun(r) \/ Crash(r)
    BY <2>2, <1>4 DEF ListRaises, EndRun, Crash
  <2>3. CASE StreamRaises(r)
    BY <2>3, <1>t DEF StreamRaises, env, index, SweepInv, TypeOK, SeenOrGone, DoomedLater
  <2>4. CASE SweepRows(r)
    <3>1. \A b \in Branches, p \in Paths : row'[b][p] # None => row[b][p] # None
      BY <2>4, <1>t, SweptType DEF SweepRows
    <3> QED
      BY <2>4, <3>1, <1>t DEF SweepRows, env, SweepInv, TypeOK, SeenOrGone, DoomedLater
  <2>5. CASE SweepFails(r)
    <3>1. \A b \in Branches, p \in Paths : row'[b][p] # None => row[b][p] # None
      BY <2>5, <1>t, SweptType DEF SweepFails
    <3> QED
      BY <2>5, <3>1, <1>t DEF SweepFails, env, SweepInv, TypeOK, SeenOrGone, DoomedLater
  <2>6. CASE LoseLock(r)
    BY <2>6 DEF LoseLock, env, index, SweepInv, SeenOrGone, DoomedLater
  <2>7. ASSUME NEW p \in Paths, FileStep(r, p)
        PROVE  SeenOrGone' /\ DoomedLater'
    <3>1. CASE Fetch(r, p)
      BY <3>1, <1>k, FileKeepsSweepInv DEF Fetch, index
    <3>2. CASE Lookup(r, p)
      <4>1. PICK s \in {"skip", "parse"} : GoTo(r, p, s) /\ UNCHANGED <<index, touched>>
        BY <3>2 DEF Lookup
      <4>2. [job[r][p] EXCEPT !.stage = s].stage = s
        BY <1>t DEF TypeOK, Jobs
      <4> QED
        BY <4>1, <4>2, <1>k, FileKeepsSweepInv DEF GoTo, index
    <3>3. CASE LookupFails(r, p) \/ MarkSeenFails(r, p) \/ DeleteOldFails(r, p)
      <4>1. PICK s \in {"parse", "write"} : GoTo(r, p, s) /\ UNCHANGED index
        BY <3>3 DEF LookupFails, MarkSeenFails, DeleteOldFails
      <4>2. [job[r][p] EXCEPT !.stage = s].stage = s
        BY <1>t DEF TypeOK, Jobs
      <4>3. \A q \in Runs : touched[q] \subseteq touched'[q]
        BY <3>3, <1>m DEF LookupFails, MarkSeenFails, DeleteOldFails
      <4> QED
        BY <4>1, <4>2, <4>3, <1>k, FileKeepsSweepInv DEF GoTo, index
    <3>4. CASE MarkSeen(r, p)
      <4>1. Active(r) /\ branch[r] \in Branches
        BY <3>4, <1>t DEF MarkSeen, Stage, Active, TypeOK
      <4>2. CASE row[branch[r]][p] = None
        BY <3>4, <4>2, <1>k, FileKeepsSweepInv DEF MarkSeen, GoTo, index
      <4>3. CASE row[branch[r]][p] # None
        BY <3>4, <4>1, <4>3, <1>m, FileKeepsSweepInv DEF MarkSeen, GoTo, index
      <4> QED
        BY <4>2, <4>3
    <3>5. CASE NothingToIndex(r, p)
      <4>1. [job[r][p] EXCEPT !.stage = "over"].content \in Barren
        BY <3>5, <1>t DEF NothingToIndex, TypeOK, Jobs
      <4> QED
        BY <3>5, <4>1, <1>k, FileKeepsSweepInv DEF NothingToIndex, GoTo, index
    <3>6. CASE DeleteOld(r, p)
      <4>1. [job[r][p] EXCEPT !.stage = "write"].stage = "write"
        BY <1>t DEF TypeOK, Jobs
      <4> QED
        BY <3>6, <4>1, <1>k, FileKeepsSweepInv DEF DeleteOld, GoTo
    <3>7. CASE Upsert(r, p)
      <4>1. [job[r][p] EXCEPT !.done = @ + 1].stage = "write"
        BY <3>7, <1>t DEF Upsert, Stage, TypeOK, Jobs
      <4> QED
        BY <3>7, <4>1, <1>k, FileKeepsSweepInv DEF Upsert
    <3>8. CASE Record(r, p)
      <4>1. Active(r) /\ branch[r] \in Branches
        BY <3>8, <1>t DEF Record, Stage, Active, TypeOK
      <4>2. \A b \in Branches, x \in Paths :
              row'[b][x] # None => row[b][x] # None \/ (b = branch[r] /\ x = p)
        BY <3>8, <4>1, <1>t DEF Record, TypeOK
      <4>3. \A q \in Runs : branch[q] \in Branches
        BY <1>t DEF TypeOK
      <4> QED
        BY <3>8, <4>1, <4>2, <4>3, <1>m, FileKeepsSweepInv DEF Record, GoTo
    <3>9. CASE Purge(r, p) \/ PurgeFails(r, p)
      BY <3>9, <1>t
         DEF Purge, PurgeFails, env, index, SweepInv, TypeOK, SeenOrGone, DoomedLater
    <3>10. ~ \/ FetchFails(r, p) \/ ParseFails(r, p) \/ WriteFails(r, p)
             \/ RecordFails(r, p) \/ RecordEarly(r, p) \/ MarkSeenEarly(r, p)
      BY <1>f DEF Unfinishing, FetchFails, ParseFails, WriteFails, RecordFails, RecordEarly,
                  MarkSeenEarly
    <3> QED
      BY <2>7, <3>1, <3>2, <3>3, <3>4, <3>5, <3>6, <3>7, <3>8, <3>9, <3>10 DEF FileStep
  <2> QED
    BY <1>5, <2>1, <2>2, <2>3, <2>4, <2>5, <2>6, <2>7 DEF RunStep
<1> QED
  BY <1>1, <1>2, <1>3, <1>5 DEF Next

LEMMA ToPurge ==
  ASSUME TypeOK, [Next]_vars, NEW r \in Runs, phase[r] = "stream", phase'[r] = "purge"
  PROVE  SweepRows(r) \/ SweepFails(r)
<1>1. phase' # phase
  OBVIOUS
<1>2. ASSUME NEW q \in Runs, NEW p \in Paths, FileStep(q, p)
      PROVE  phase' = phase
  BY <1>2 DEF FileStep, Fetch, FetchFails, Lookup, LookupFails, MarkSeen,
              MarkSeenEarly, MarkSeenFails, NothingToIndex, ParseFails, DeleteOld,
              DeleteOldFails, WriteFails, Upsert, Record, RecordEarly, RecordFails, Purge,
              PurgeFails, GoTo, SetJob
<1>3. ASSUME NEW q \in Runs, NEW s, phase' = [phase EXCEPT ![q] = s]
      PROVE  q = r /\ s = "purge"
  BY <1>3 DEF TypeOK
<1>4. ASSUME NEW q \in Runs, RunStep(q)
      PROVE  SweepRows(r) \/ SweepFails(r)
  BY <1>1, <1>2, <1>3, <1>4
     DEF RunStep, ListFiles, ListRaises, StreamRaises, SweepRows, SweepFails, EndRun, Crash,
         LoseLock, Leave
<1> QED
  BY <1>1, <1>3, <1>4 DEF Next, vars, Push, StartRun, StartUnlocked, Begin

(* The sweep takes no listed file that still gives chunks, whatever the    *)
(* overlap of runs, branches and crashes, with the lock or without it, and *)
(* whatever listings, streams, lookups, deletions and sweeps failed: the   *)
(* failures it needs are those that end the work on a file without         *)
(* touching its row, the record of its hash among them.                    *)
THEOREM SweepTakesOnlyGone ==
  ASSUME Faults \cap Unfinishing = {}
  PROVE  Spec => SweepOnlyGone
<1>1. Spec => []SweepInv
  BY SweepInvInit, SweepInvStep, PTL DEF Spec
<1>2. ASSUME SweepInv, [Next]_vars
      PROVE  [\A r \in Runs : phase[r] = "stream" /\ phase'[r] = "purge" =>
                \A p \in doomed'[r] :
                  p \notin listing[r] \/ job[r][p].content \in Barren \cup {None}]_vars
  <2> SUFFICES ASSUME NEW r \in Runs, phase[r] = "stream", phase'[r] = "purge",
                      NEW p \in doomed'[r], p \in listing[r]
               PROVE  job[r][p].content \in Barren \cup {None}
    OBVIOUS
  <2>f. phase[r] = "stream" /\ phase'[r] = "purge" /\ p \in doomed'[r] /\ p \in listing[r]
    OBVIOUS
  <2>1. \/ SweepFails(r) /\ doomed' = doomed
        \/ SweepRows(r) /\ doomed'[r] = Unseen(r) /\ Settled(r)
    BY <1>2, <2>f, ToPurge DEF SweepRows, SweepFails, SweepInv, TypeOK
  <2>2. SweepRows(r) /\ p \in Paths /\ row[branch[r]][p] # None /\ p \notin touched[r]
    BY <1>2, <2>f, <2>1 DEF SweepInv, DoomedLater, Unseen
  <2>3. job[r][p].stage \in {"over", "failed"}
    BY <2>1, <2>2, <2>f, <1>2 DEF Settled, SweepInv, DoomedLater, Unseen
  <2> QED
    BY <1>2, <2>f, <2>2, <2>3 DEF SweepInv, SeenOrGone
<1> QED
  BY <1>1, <1>2, PTL DEF Spec, SweepOnlyGone
-----------------------------------------------------------------------------
(* What the lock is for *)

(* A run at work holds the lock of its branch. *)
HoldsLock == \A r \in Runs : Active(r) => lock[branch[r]] = r

(* A doomed path has no row: none comes back before its chunks are gone. *)
DoomedUntracked ==
  \A r \in Runs, p \in Paths :
    p \in doomed[r] => phase[r] = "purge" /\ row[branch[r]][p] = None

LockInv == TypeOK /\ HoldsLock /\ DoomedUntracked

LEMMA LockInvInit == Init => LockInv
BY TypeInit DEF Init, LockInv, HoldsLock, DoomedUntracked, Active

LEMMA LockInvStep ==
  ASSUME "lock" \notin Faults
  PROVE  LockInv /\ [Next]_vars => LockInv'
<1> SUFFICES ASSUME LockInv, [Next]_vars PROVE HoldsLock' /\ DoomedUntracked'
  BY TypeStep DEF LockInv
<1>t. TypeOK
  BY DEF LockInv
<1>f. \A r \in Runs : ~Mishap("lock", r)
  BY DEF Mishap
<1>1. CASE UNCHANGED vars
  BY <1>1 DEF vars, env, index, LockInv, HoldsLock, DoomedUntracked, Active
<1>2. ASSUME NEW b \in Branches, NEW p \in Paths, NEW v \in Versions \cup {None},
             Push(b, p, v)
      PROVE  HoldsLock' /\ DoomedUntracked'
  BY <1>2 DEF Push, index, LockInv, HoldsLock, DoomedUntracked, Active
<1>3. ASSUME NEW r \in Runs, NEW b \in Branches, StartRun(r, b)
      PROVE  HoldsLock' /\ DoomedUntracked'
  <2>1. \A q \in Runs \ {r} : phase'[q] = phase[q] /\ branch'[q] = branch[q]
    BY <1>3, <1>t DEF StartRun, Begin, TypeOK
  <2>2. \A c \in Branches : c # b => lock'[c] = lock[c]
    BY <1>3, <1>t DEF StartRun, TypeOK
  <2>3. lock'[b] = r /\ branch'[r] = b /\ lock[b] = None
    BY <1>3, <1>t DEF StartRun, Begin, TypeOK
  <2>4. HoldsLock'
    <3>1. ASSUME NEW q \in Runs \ {r}, phase'[q] # "idle"
          PROVE  lock'[branch'[q]] = q
      <4>1. lock[branch[q]] = q /\ q # None /\ branch[q] \in Branches
        BY <3>1, <2>1, <1>t, IngestionAssumption DEF LockInv, HoldsLock, Active, TypeOK
      <4> QED
        BY <4>1, <2>1, <2>2, <2>3
    <3> QED
      BY <3>1, <2>3 DEF HoldsLock, Active
  <2>5. DoomedUntracked'
    BY <1>3, <2>1, <1>t DEF StartRun, Begin, env, index, LockInv, DoomedUntracked, TypeOK
  <2> QED
    BY <2>4, <2>5
<1>4. ASSUME NEW r \in Runs, Leave(r)
      PROVE  HoldsLock' /\ DoomedUntracked'
  BY <1>4, <1>t DEF Leave, env, index, LockInv, HoldsLock, DoomedUntracked, Active, TypeOK
<1>5. ASSUME NEW r \in Runs, RunStep(r)
      PROVE  HoldsLock' /\ DoomedUntracked'
  <2>1. CASE ListFiles(r)
    BY <2>1, <1>t
       DEF ListFiles, env, index, LockInv, HoldsLock, DoomedUntracked, Active, TypeOK
  <2>2. CASE ListRaises(r) \/ EndRun(r) \/ Crash(r)
    BY <2>2, <1>4 DEF ListRaises, EndRun, Crash
  <2>3. CASE StreamRaises(r)
    BY <2>3, <1>t
       DEF StreamRaises, env, index, LockInv, HoldsLock, DoomedUntracked, Active, TypeOK
  <2>4. CASE SweepRows(r)
    <3>1. HoldsLock'
      BY <2>4, <1>t DEF SweepRows, env, LockInv, HoldsLock, Active, TypeOK
    <3>2. \A b \in Branches, p \in Paths : row[b][p] = None => row'[b][p] = None
      BY <2>4, <1>t, SweptType DEF SweepRows
    <3>3. \A p \in doomed'[r] : row'[branch[r]][p] = None
      BY <2>4, <1>t, SweptType DEF SweepRows, Unseen, TypeOK
    <3> QED
      BY <2>4, <3>1, <3>2, <3>3, <1>t DEF SweepRows, env, LockInv, DoomedUntracked, TypeOK
  <2>5. CASE SweepFails(r)
    <3>1. \A b \in Branches, p \in Paths : row[b][p] = None => row'[b][p] = None
      BY <2>5, <1>t, SweptType DEF SweepFails
    <3> QED
      BY <2>5, <3>1, <1>t
         DEF SweepFails, env, LockInv, HoldsLock, DoomedUntracked, Active, TypeOK
  <2>6. CASE LoseLock(r)
    BY <2>6, <1>f DEF LoseLock
  <2>7. ASSUME NEW p \in Paths, FileStep(r, p)
        PROVE  HoldsLock' /\ DoomedUntracked'
    <3>1. HoldsLock'
      BY <2>7
         DEF FileStep, Fetch, FetchFails, Lookup, LookupFails, MarkSeen,
             MarkSeenEarly, MarkSeenFails, NothingToIndex, ParseFails, DeleteOld,
             DeleteOldFails, WriteFails, Upsert, Record, RecordEarly, RecordFails, Purge,
             PurgeFails, GoTo, SetJob, LockInv, HoldsLock, Active
    <3>2. CASE Record(r, p) \/ RecordEarly(r, p)
      <4>1. /\ phase[r] \in {"stream", "drain"} /\ Active(r) /\ branch[r] \in Branches
            /\ row' = [row EXCEPT ![branch[r]][p] = job[r][p].content]
            /\ UNCHANGED <<phase, branch, doomed>>
        BY <3>2, <1>t DEF Record, RecordEarly, Stage, Active, GoTo, SetJob, TypeOK
      <4>2. ASSUME NEW q \in Runs, phase[q] = "purge"
            PROVE  branch[q] # branch[r]
        BY <4>1, <4>2 DEF LockInv, HoldsLock, Active
      <4>3. \A b \in Branches : b # branch[r] => row'[b] = row[b]
        BY <4>1, <1>t DEF TypeOK
      <4> QED
        BY <3>1, <4>1, <4>2, <4>3, <1>t DEF LockInv, DoomedUntracked, TypeOK
    <3>3. CASE Purge(r, p) \/ PurgeFails(r, p)
      <4>1. ASSUME NEW q \in Runs, NEW x \in doomed'[q]
            PROVE  x \in doomed[q]
        <5>1. doomed' = [doomed EXCEPT ![r] = doomed[r] \ {p}]
          BY <3>3 DEF Purge, PurgeFails
        <5>2. doomed \in [Runs -> SUBSET Paths]
          BY <1>t DEF TypeOK
        <5> QED
          BY <5>1, <5>2
      <4>2. row' = row /\ phase' = phase /\ branch' = branch
        BY <3>3 DEF Purge, PurgeFails, index
      <4> QED
        BY <3>1, <4>1, <4>2 DEF LockInv, DoomedUntracked
    <3>4. CASE row' = row /\ phase' = phase /\ branch' = branch /\ doomed' = doomed
      BY <3>1, <3>4 DEF LockInv, DoomedUntracked
    <3> QED
      BY <2>7, <3>2, <3>3, <3>4
         DEF FileStep, Fetch, FetchFails, Lookup, LookupFails, MarkSeen,
             MarkSeenEarly, MarkSeenFails, NothingToIndex, ParseFails, DeleteOld,
             DeleteOldFails, WriteFails, Upsert, RecordFails, GoTo, SetJob, index
  <2> QED
    BY <1>5, <2>1, <2>2, <2>3, <2>4, <2>5, <2>6, <2>7 DEF RunStep
<1> QED
  BY <1>1, <1>2, <1>3, <1>5, <1>f DEF Next, StartUnlocked

(* Under a lock that never fails, one branch indexed, no purge deletes     *)
(* chunks that a tracker row vouches for, whatever else fails.             *)
THEOREM PurgeSparesTracked ==
  ASSUME "lock" \notin Faults, NEW only, Branches = {only}
  PROVE  Spec => PurgeSpares
<1>1. Spec => []LockInv
  BY LockInvInit, LockInvStep, PTL DEF Spec
<1>2. ASSUME LockInv, LockInv', [Next]_vars
      PROVE  [\A r \in Runs, p \in Paths :
                p \in doomed[r] /\ p \notin doomed'[r] /\ phase'[r] = "purge"
                  => \A b \in Branches : row[b][p] = None]_vars
  BY <1>2 DEF LockInv, DoomedUntracked, TypeOK
<1> QED
  BY <1>1, <1>2, PTL DEF Spec, PurgeSpares
-----------------------------------------------------------------------------
(* What a row vouches for *)

(* The failures between deleting a file's old chunks and recording it. *)
Tearing == {"embed", "upsert", "record", "crash"}

(* A file that is being written has its chunks up to the last upsert, and  *)
(* one that is not yet has none of this run.                               *)
Written ==
  \A r \in Runs, p \in Paths :
    /\ Stage(r, p, "write") =>
         \A n \in 1..job[r][p].done : <<p, job[r][p].content, n>> \in points
    /\ job[r][p].stage \in {"none", "fetched", "skip", "parse"} => job[r][p].done = 0

(* No other run is at work. *)
LEMMA Alone ==
  ASSUME LockInv, NEW only, Branches = {only}, NEW q \in Runs, NEW r \in Runs,
         Active(q), Active(r)
  PROVE  q = r
BY DEF LockInv, HoldsLock, TypeOK

LEMMA CompleteIs ==
  ASSUME NEW p \in Paths, NEW v \in Versions
  PROVE  Complete(p, v) <=> (v \in Barren \/ \A n \in 1..Batches : <<p, v, n>> \in points)
BY DEF Complete, Chunks

(* A step that writes neither store and neither begins nor ends a writing. *)
LEMMA Quiet ==
  ASSUME Written, TrackedIndexed, UNCHANGED index,
         \A r \in Runs, p \in Paths :
           /\ Stage(r, p, "write")' <=> Stage(r, p, "write")
           /\ Stage(r, p, "write") => job'[r][p] = job[r][p]
           /\ \/ job'[r][p] = job[r][p]
              \/ job'[r][p].done = 0
              \/ job'[r][p].stage \in {"write", "over", "failed"}
  PROVE  Written' /\ TrackedIndexed'
<1>1. points' = points /\ row' = row
  BY DEF index
<1>2. \A p \in Paths : Rewriting(p)' <=> Rewriting(p)
  BY DEF Rewriting
<1>3. Written'
  BY <1>1 DEF Written
<1> QED
  BY <1>1, <1>2, <1>3 DEF TrackedIndexed, Complete

LEMMA TrackedInit == Init => Written /\ TrackedIndexed
BY DEF Init, Written, TrackedIndexed, Stage, NoJob

LEMMA TrackedStep ==
  ASSUME "lock" \notin Faults, Faults \cap Tearing = {}, NEW only, Branches = {only}
  PROVE  LockInv /\ Written /\ TrackedIndexed /\ [Next]_vars => Written' /\ TrackedIndexed'
<1> SUFFICES ASSUME LockInv, Written, TrackedIndexed, [Next]_vars
             PROVE  Written' /\ TrackedIndexed'
  OBVIOUS
<1>t. TypeOK
  BY DEF LockInv
<1>f. \A r \in Runs : \A k \in {"lock", "embed", "upsert", "record", "crash"} : ~Mishap(k, r)
  BY DEF Mishap, Tearing
<1>1. CASE UNCHANGED vars
  BY <1>1, Quiet DEF vars, index, Stage
<1>2. ASSUME NEW b \in Branches, NEW p \in Paths, NEW v \in Versions \cup {None}, Push(b, p, v)
      PROVE  Written' /\ TrackedIndexed'
  BY <1>2, Quiet DEF Push, Stage
<1>3. ASSUME NEW r \in Runs, NEW b \in Branches, StartRun(r, b)
      PROVE  Written' /\ TrackedIndexed'
  <2>1. /\ job' = job /\ UNCHANGED index /\ phase[r] = "idle"
        /\ phase' = [phase EXCEPT ![r] = "list"]
    BY <1>3 DEF StartRun, Begin
  <2>2. \A q \in Runs : phase'[q] \in {"stream", "drain"} <=> phase[q] \in {"stream", "drain"}
    BY <2>1, <1>t DEF TypeOK
  <2> QED BY <2>1, <2>2, Quiet DEF Stage
<1>4. ASSUME NEW r \in Runs, Leave(r), \A p \in Paths : ~Stage(r, p, "write")
      PROVE  Written' /\ TrackedIndexed'
  <2>1. /\ UNCHANGED index /\ phase' = [phase EXCEPT ![r] = "idle"]
        /\ job' = [job EXCEPT ![r] = [p \in Paths |-> NoJob]]
    BY <1>4 DEF Leave
  <2>2. \A q \in Runs : q # r => phase'[q] = phase[q] /\ job'[q] = job[q]
    BY <2>1, <1>t DEF TypeOK
  <2>3. phase'[r] = "idle" /\ \A p \in Paths : job'[r][p] = NoJob
    BY <2>1, <1>t DEF TypeOK
  <2> QED BY <1>4, <2>1, <2>2, <2>3, Quiet DEF Stage, NoJob
<1>5. ASSUME NEW r \in Runs, RunStep(r)
      PROVE  Written' /\ TrackedIndexed'
  <2>1. CASE ListFiles(r)
    <3>1. /\ UNCHANGED index /\ phase[r] = "list"
          /\ \A q \in Runs : q # r => phase'[q] = phase[q] /\ job'[q] = job[q]
          /\ \A p \in Paths : job'[r][p].stage \in {"none", "over"}
          /\ \A p \in Paths : job'[r][p].done = 0
      BY <2>1, <1>t DEF ListFiles, TypeOK, NoJob
    <3> QED BY <3>1, Quiet DEF Stage
  <2>2. CASE ListRaises(r)
    BY <2>2, <1>4 DEF ListRaises, Stage
  <2>3. CASE EndRun(r)
    BY <2>3, <1>4 DEF EndRun, Settled, Stage
  <2>4. CASE StreamRaises(r)
    <3>1. /\ UNCHANGED index /\ phase[r] = "stream" /\ phase' = [phase EXCEPT ![r] = "drain"]
          /\ \A q \in Runs : q # r => phase'[q] = phase[q] /\ job'[q] = job[q]
          /\ phase'[r] = "drain"
      BY <2>4, <1>t DEF StreamRaises, TypeOK
    <3>2. \A p \in Paths : \/ job'[r][p] = job[r][p]
                           \/ job[r][p].stage = "none" /\ job'[r][p].stage = "over"
      BY <2>4, <1>t DEF StreamRaises, TypeOK, NoJob
    <3> QED BY <3>1, <3>2, Quiet DEF Stage
  <2>5. CASE SweepRows(r) \/ SweepFails(r)
    <3>1. /\ points' = points /\ job' = job /\ \A p \in Paths : ~Stage(r, p, "write")
          /\ \A q \in Runs : q # r => phase'[q] = phase[q]
          /\ phase'[r] = "purge"
      BY <2>5, <1>t DEF SweepRows, SweepFails, Settled, Stage, TypeOK
    <3>2. \A b \in Branches, p \in Paths : row'[b][p] \in {row[b][p], None}
      BY <2>5, <1>t, SweptType DEF SweepRows, SweepFails
    <3>3. \A q \in Runs, p \in Paths : Stage(q, p, "write")' <=> Stage(q, p, "write")
      BY <3>1 DEF Stage
    <3>4. \A p \in Paths : Rewriting(p)' <=> Rewriting(p)
      BY <3>3 DEF Rewriting
    <3>5. Written'
      BY <3>1, <3>3 DEF Written
    <3> QED BY <3>1, <3>2, <3>4, <3>5 DEF TrackedIndexed, Complete
  <2>6. CASE Crash(r) \/ LoseLock(r)
    BY <2>6, <1>f DEF Crash, LoseLock
  <2>7. ASSUME NEW p \in Paths, FileStep(r, p)
        PROVE  Written' /\ TrackedIndexed'
    <3> DEFINE j == job[r][p]
    <3>j. /\ j \in [stage : Stages, content : Versions \cup {None}, done : 0..Batches]
          /\ j.stage \in Underway => j.content \in Versions
          /\ job \in [Runs -> [Paths -> Jobs]]
      BY <1>t DEF TypeOK, Jobs
    <3>a. ASSUME NEW new, job' = [job EXCEPT ![r][p] = new]
          PROVE  /\ job'[r][p] = new
                 /\ \A q \in Runs, x \in Paths : <<q, x>> # <<r, p>> => job'[q][x] = job[q][x]
      BY <3>a, <3>j
    <3>b. ASSUME NEW new, job' = [job EXCEPT ![r][p] = new], UNCHANGED <<index, phase>>,
                 j.stage # "write", new.stage # "write",
                 new.done = 0 \/ new.stage \in {"over", "failed"}
          PROVE  Written' /\ TrackedIndexed'
      BY <3>a, <3>b, Quiet DEF Stage
    <3>1. CASE Fetch(r, p) \/ FetchFails(r, p)
      <4> DEFINE v == source[branch[r]][p]
                 new(s) == [stage |-> s, content |-> v, done |-> 0]
      <4>1. \/ job' = [job EXCEPT ![r][p] = new("over")]
            \/ job' = [job EXCEPT ![r][p] = new("fetched")]
        <5>1. CASE Fetch(r, p) /\ v = None
          BY <5>1 DEF Fetch, SetJob
        <5>2. CASE Fetch(r, p) /\ v # None
          BY <5>2 DEF Fetch, SetJob
        <5>3. CASE FetchFails(r, p)
          BY <5>3 DEF FetchFails, SetJob
        <5> QED BY <3>1, <5>1, <5>2, <5>3
      <4>2. j.stage = "none" /\ UNCHANGED <<index, phase>>
        BY <3>1 DEF Fetch, FetchFails, SetJob
      <4>3. \A s : new(s).stage = s /\ new(s).done = 0
        OBVIOUS
      <4> HIDE DEF new
      <4> QED BY <3>b, <4>1, <4>2, <4>3
    <3>2. CASE \/ Lookup(r, p) \/ LookupFails(r, p)
               \/ MarkSeen(r, p) \/ MarkSeenEarly(r, p) \/ MarkSeenFails(r, p)
               \/ NothingToIndex(r, p) \/ ParseFails(r, p)
      <4>1. /\ j.stage \in {"fetched", "skip", "parse"} /\ UNCHANGED <<index, phase>>
            /\ \E s \in {"skip", "parse", "over", "failed"} : GoTo(r, p, s)
        BY <3>2 DEF Lookup, LookupFails, MarkSeen, MarkSeenEarly, MarkSeenFails, NothingToIndex,
               ParseFails, Stage, GoTo, SetJob
      <4>2. PICK s \in {"skip", "parse", "over", "failed"} :
              job' = [job EXCEPT ![r][p] = [j EXCEPT !.stage = s]]
        BY <4>1 DEF GoTo, SetJob
      <4>3. j.done = 0
        BY <4>1 DEF Written
      <4>4. [j EXCEPT !.stage = s].stage = s /\ [j EXCEPT !.stage = s].done = 0
        BY <4>3, <3>j
      <4> QED BY <3>b, <4>1, <4>2, <4>4
    <3>3. CASE DeleteOld(r, p) \/ DeleteOldFails(r, p)
      <4> DEFINE new == [j EXCEPT !.stage = "write"]
      <4>1. /\ phase[r] \in {"stream", "drain"} /\ j.stage = "parse"
            /\ job' = [job EXCEPT ![r][p] = new] /\ UNCHANGED <<row, phase>>
            /\ points' \in {points, points \ PointsOf(p)}
        BY <3>3 DEF DeleteOld, DeleteOldFails, GoTo, SetJob, Stage, index
      <4>2. new.stage = "write" /\ new.done = 0
        BY <4>1, <3>j DEF Written
      <4> HIDE DEF new
      <4>3. \A q \in Runs, x \in Paths : <<q, x>> # <<r, p>> =>
              /\ job'[q][x] = job[q][x]
              /\ Stage(q, x, "write")' <=> Stage(q, x, "write")
        BY <3>a, <4>1 DEF Stage
      <4>4. job'[r][p] = new /\ Stage(r, p, "write")'
        BY <3>a, <4>1, <4>2 DEF Stage
      <4>5. \A q \in Runs, x \in Paths : Stage(q, x, "write") => q = r
        BY <4>1, Alone DEF Stage, Active
      <4>6. ASSUME NEW x \in Paths, x # p, NEW v, NEW n, <<x, v, n>> \in points
            PROVE  <<x, v, n>> \in points'
        BY <4>1, <4>6 DEF PointsOf
      <4>7. Written'
        <5> SUFFICES ASSUME NEW q \in Runs, NEW x \in Paths
                     PROVE  /\ Stage(q, x, "write")' =>
                                 \A n \in 1..job'[q][x].done :
                                    <<x, job'[q][x].content, n>> \in points'
                            /\ job'[q][x].stage \in {"none", "fetched", "skip", "parse"} =>
                                 job'[q][x].done = 0
          BY DEF Written
        <5>1. CASE q = r /\ x = p
          BY <4>2, <4>4, <5>1
        <5>2. CASE ~(q = r /\ x = p)
          <6>1. /\ job'[q][x] = job[q][x]
                /\ Stage(q, x, "write")' <=> Stage(q, x, "write")
            BY <4>3, <5>2
          <6>2. Stage(q, x, "write") => x # p
            BY <4>5, <5>2
          <6>3. ASSUME Stage(q, x, "write"), NEW n \in 1..job[q][x].done
                PROVE  <<x, job[q][x].content, n>> \in points'
            BY <4>6, <6>2, <6>3 DEF Written
          <6>4. job[q][x].stage \in {"none", "fetched", "skip", "parse"} => job[q][x].done = 0
            BY DEF Written
          <6>5. Stage(q, x, "write")' =>
                  \A n \in 1..job'[q][x].done : <<x, job'[q][x].content, n>> \in points'
            BY <6>1, <6>3
          <6> QED BY <6>1, <6>4, <6>5
        <5> QED BY <5>1, <5>2
      <4>8. TrackedIndexed'
        <5> SUFFICES ASSUME NEW b \in Branches, NEW x \in Paths,
                            row'[b][x] # None, ~Rewriting(x)'
                     PROVE  Chunks(x, row'[b][x]) \subseteq points'
          BY DEF TrackedIndexed, Complete, Chunks
        <5>1. x # p
          BY <4>4 DEF Rewriting
        <5>2. ~Rewriting(x)
          BY <4>3, <5>1 DEF Rewriting
        <5>3. row[b][x] # None /\ row'[b][x] = row[b][x] /\ Complete(x, row[b][x])
          BY <4>1, <5>2 DEF TrackedIndexed
        <5>4. ASSUME NEW c \in Chunks(x, row[b][x]) PROVE c \in points'
          <6>1. PICK v, n : c = <<x, v, n>>
            BY <5>4 DEF Chunks
          <6>2. c \in points
            BY <5>3, <5>4 DEF Complete
          <6> QED BY <4>6, <5>1, <6>1, <6>2
        <5> QED BY <5>3, <5>4
      <4> QED BY <4>7, <4>8
    <3>4. CASE WriteFails(r, p) \/ RecordFails(r, p)
      BY <3>4, <1>f DEF WriteFails, RecordFails
    <3>5. CASE Upsert(r, p)
      <4> DEFINE new == [j EXCEPT !.done = j.done + 1]
      <4>1. /\ Stage(r, p, "write") /\ job' = [job EXCEPT ![r][p] = new]
            /\ UNCHANGED <<row, phase>> /\ points' = points \cup {<<p, j.content, j.done + 1>>}
        BY <3>5 DEF Upsert, SetJob
      <4>2. /\ new.stage = "write" /\ new.done = j.done + 1 /\ new.content = j.content
            /\ j.done \in Nat /\ j.stage = "write"
        BY <4>1, <3>j DEF Stage
      <4> HIDE DEF new
      <4>3. \A q \in Runs, x \in Paths : <<q, x>> # <<r, p>> => job'[q][x] = job[q][x]
        BY <3>a, <4>1
      <4>4. job'[r][p] = new
        BY <3>a, <4>1
      <4>5. \A q \in Runs, x \in Paths : Stage(q, x, "write")' <=> Stage(q, x, "write")
        BY <4>1, <4>2, <4>3, <4>4 DEF Stage
      <4>6. Written'
        <5>1. \A n \in 1..new.done : <<p, new.content, n>> \in points'
          <6>1. \A n \in 1..new.done : n \in 1..j.done \/ n = j.done + 1
            BY <4>2
          <6>2. \A n \in 1..j.done : <<p, j.content, n>> \in points
            BY <4>1 DEF Written
          <6> QED BY <4>1, <4>2, <6>1, <6>2
        <5> QED BY <4>1, <4>2, <4>3, <4>4, <4>5, <5>1 DEF Written
      <4>7. \A x \in Paths : Rewriting(x)' <=> Rewriting(x)
        BY <4>5 DEF Rewriting
      <4> QED BY <4>1, <4>6, <4>7 DEF TrackedIndexed, Complete
    <3>6. CASE Record(r, p) \/ RecordEarly(r, p)
      <4> DEFINE new == [j EXCEPT !.stage = "over"]
      <4>1. /\ Stage(r, p, "write") /\ j.done = Batches /\ points' = points /\ phase' = phase
            /\ job' = [job EXCEPT ![r][p] = new]
            /\ row' = [row EXCEPT ![branch[r]][p] = j.content]
        BY <3>6 DEF Record, RecordEarly, GoTo, SetJob
      <4>2. new.stage = "over" /\ j.content \in Versions /\ j.stage = "write"
        BY <4>1, <3>j DEF Stage, Underway
      <4> HIDE DEF new
      <4>3. \A q \in Runs, x \in Paths : <<q, x>> # <<r, p>> => job'[q][x] = job[q][x]
        BY <3>a, <4>1
      <4>4. job'[r][p] = new
        BY <3>a, <4>1
      <4>5. Written'
        BY <4>1, <4>2, <4>3, <4>4 DEF Written, Stage
      <4>6. Complete(p, j.content)
        BY <4>1, <4>2, CompleteIs DEF Written
      <4>7. TrackedIndexed'
        <5> SUFFICES ASSUME NEW b \in Branches, NEW x \in Paths,
                            row'[b][x] # None, ~Rewriting(x)'
                     PROVE  Complete(x, row'[b][x])
          BY <4>1 DEF TrackedIndexed, Complete
        <5>1. CASE x = p
          <6>1. row'[b][p] = j.content
            BY <4>1, <1>t DEF TypeOK
          <6> QED BY <4>6, <5>1, <6>1
        <5>2. CASE x # p
          <6>1. row'[b][x] = row[b][x]
            BY <4>1, <5>2, <1>t DEF TypeOK
          <6>2. ~Rewriting(x)
            BY <4>1, <4>3, <5>2 DEF Rewriting, Stage
          <6> QED BY <6>1, <6>2 DEF TrackedIndexed
        <5> QED BY <5>1, <5>2
      <4> QED BY <4>5, <4>7
    <3>7. CASE Purge(r, p)
      <4>1. /\ phase[r] = "purge" /\ p \in doomed[r] /\ points' = points \ PointsOf(p)
            /\ UNCHANGED <<row, phase, job>>
        BY <3>7 DEF Purge
      <4>2. \A q \in Runs, x \in Paths : ~Stage(q, x, "write")
        <5> SUFFICES ASSUME NEW q \in Runs, phase[q] \in {"stream", "drain"} PROVE FALSE
          BY DEF Stage
        <5>1. q = r
          BY <4>1, Alone DEF Active
        <5> QED BY <4>1, <5>1
      <4>3. \A b \in Branches : row[b][p] = None
        BY <4>1, <1>t DEF LockInv, DoomedUntracked, TypeOK
      <4>4. \A q \in Runs, x \in Paths : ~Stage(q, x, "write")'
        BY <4>1, <4>2 DEF Stage
      <4>5. Written'
        BY <4>1, <4>4 DEF Written
      <4>6. TrackedIndexed'
        <5> SUFFICES ASSUME NEW b \in Branches, NEW x \in Paths, row[b][x] # None
                     PROVE  Complete(x, row[b][x])'
          BY <4>1 DEF TrackedIndexed
        <5>1. x # p /\ Complete(x, row[b][x])
          BY <4>2, <4>3 DEF TrackedIndexed, Rewriting
        <5> QED BY <4>1, <5>1 DEF Complete, Chunks, PointsOf
      <4> QED BY <4>5, <4>6
    <3>8. CASE PurgeFails(r, p)
      BY <3>8, Quiet DEF PurgeFails, Stage
    <3> QED
      BY <2>7, <3>1, <3>2, <3>3, <3>4, <3>5, <3>6, <3>7, <3>8 DEF FileStep
  <2> QED
    BY <1>5, <2>1, <2>2, <2>3, <2>4, <2>5, <2>6, <2>7 DEF RunStep
<1> QED
  BY <1>1, <1>2, <1>3, <1>5, <1>f DEF Next, StartUnlocked

(* With the lock working, one branch indexed and no failure between the    *)
(* deletion of a file's chunks and its record, a row never vouches for     *)
(* chunks that are not there, however runs follow each other.              *)
THEOREM RowsAreIndexed ==
  ASSUME "lock" \notin Faults, Faults \cap Tearing = {}, NEW only, Branches = {only}
  PROVE  Spec => []TrackedIndexed
BY LockInvInit, LockInvStep, TrackedInit, TrackedStep, PTL DEF Spec
=============================================================================
