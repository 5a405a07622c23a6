-------------------------- MODULE FileQueue_proofs --------------------------
(***************************************************************************)
(* Proofs about FileQueue: type correctness, and that the deletion sweep   *)
(* is allowed only when every file of the listing is settled.              *)
(*                                                                         *)
(* The sweep decision looks at the workers alone, so the argument is about *)
(* order in the queue: sentinels are put after the last file and the queue *)
(* is first-in first-out, so a worker that met a sentinel proves that no   *)
(* file is left in the queue.                                              *)
(***************************************************************************)
EXTENDS FileQueue, FiniteSetTheorems, FunctionTheorems, TLAPS

(* What await queue.put and await queue.get do to the queue. *)
LEMMA AppendType ==
  ASSUME NEW S, NEW q \in Seq(S), NEW e \in S
  PROVE  /\ Append(q, e) \in Seq(S)
         /\ Len(Append(q, e)) = Len(q) + 1
         /\ \A i \in 1..Len(q) : Append(q, e)[i] = q[i]
         /\ Append(q, e)[Len(q) + 1] = e
OBVIOUS

LEMMA TailType ==
  ASSUME NEW S, NEW q \in Seq(S), q # <<>>
  PROVE  /\ Head(q) \in S
         /\ Head(q) = q[1]
         /\ Tail(q) \in Seq(S)
         /\ Len(q) \in Nat \ {0}
         /\ Len(Tail(q)) = Len(q) - 1
         /\ \A i \in 1..Len(Tail(q)) : Tail(q)[i] = q[i + 1]
OBVIOUS

LEMMA ConstantTypes ==
  /\ FileParallel \in Nat
  /\ Len(Listing) \in Nat
  /\ ScmBatch \in Nat \ {0}
  /\ \A i \in 1..Len(Listing) : Listing[i] \in Files
  /\ Sentinel \notin Files
  /\ Workers # {}
  /\ Files \cap {"get", "exited", "crashed"} = {}
<1>1. FileParallel \in Nat
  BY FileQueueAssumption, FS_CardinalityType DEF FileQueueAssumption, FileParallel
<1>2. Len(Listing) \in Nat
  BY FileQueueAssumption DEF FileQueueAssumption
<1> QED BY <1>1, <1>2, FileQueueAssumption DEF FileQueueAssumption, Files

-----------------------------------------------------------------------------
(* Type correctness needs one fact beyond the types: the counter of join() *)
(* never underflows, because every queued or busy item holds one unit.     *)

BusySet == {w \in Workers : Busy(w)}

Typing ==
  /\ TypeOK
  /\ UnfinishedExact

LEMMA BusyFinite == IsFiniteSet(BusySet) /\ Cardinality(BusySet) \in Nat
BY FileQueueAssumption, FS_Subset, FS_CardinalityType DEF FileQueueAssumption, BusySet

LEMMA TypingInit == Init => Typing
<1> SUFFICES ASSUME Init PROVE Typing
  OBVIOUS
<1>1. TypeOK
  BY ConstantTypes DEF Init, TypeOK
<1>2. BusySet = {}
  BY ConstantTypes DEF Init, BusySet, Busy
<1>3. UnfinishedExact
  BY <1>2, FS_EmptySet DEF Init, UnfinishedExact, BusySet
<1> QED BY <1>1, <1>3 DEF Typing

(* A worker that turns busy, or stops being busy. *)
LEMMA BusyJoins ==
  ASSUME NEW w \in Workers, NEW x \in Files, TypeOK, ~Busy(w),
         worker' = [worker EXCEPT ![w] = x]
  PROVE  Cardinality(BusySet') = Cardinality(BusySet) + 1
<1>1. BusySet' = BusySet \cup {w}
  BY DEF BusySet, Busy, TypeOK
<1>2. w \notin BusySet
  BY DEF BusySet
<1> QED BY <1>1, <1>2, BusyFinite, FS_AddElement

LEMMA BusyLeaves ==
  ASSUME NEW w \in Workers, NEW x \in {"get", "exited", "crashed"}, TypeOK, Busy(w),
         worker' = [worker EXCEPT ![w] = x]
  PROVE  Cardinality(BusySet') = Cardinality(BusySet) - 1
<1>1. BusySet' = BusySet \ {w}
  BY ConstantTypes DEF BusySet, Busy, TypeOK
<1>2. w \in BusySet
  BY DEF BusySet
<1> QED BY <1>1, <1>2, BusyFinite, FS_RemoveElement

LEMMA BusySame ==
  ASSUME NEW w \in Workers, TypeOK, ~Busy(w),
         worker' = [worker EXCEPT ![w] = "exited"]
  PROVE  BusySet' = BusySet
BY ConstantTypes DEF BusySet, Busy, TypeOK

LEMMA TypingStep == Typing /\ [Next]_vars => Typing'
<1> SUFFICES ASSUME Typing, [Next]_vars PROVE Typing'
  OBVIOUS
<1> USE ConstantTypes DEF Typing, TypeOK
<1>a. Cardinality(BusySet) \in Nat
  BY BusyFinite
<1>b. unfinished = Len(queue) + Cardinality(BusySet)
  BY DEF UnfinishedExact, BusySet
<1>c. ASSUME UNCHANGED <<queue, unfinished, worker>> PROVE UnfinishedExact'
  BY <1>c DEF UnfinishedExact, Busy
<1>1. CASE RequestBatch
  <2>1. TypeOK'
    BY <1>1 DEF RequestBatch, queueVars, runVars
  <2> QED BY <1>1, <1>c, <2>1 DEF RequestBatch, queueVars
<1>2. ASSUME NEW f \in Files, FetchReturns(f) PROVE Typing'
  BY <1>2, <1>c DEF FetchReturns, queueVars, runVars
<1>3. ASSUME NEW f \in Files, FetchFails(f) PROVE Typing'
  BY <1>3, <1>c DEF FetchFails, queueVars, runVars
<1>4. ASSUME NEW f \in Files, YieldFile(f) PROVE Typing'
  BY <1>4, <1>c DEF YieldFile, queueVars, runVars
<1>5. CASE PutFile
  <2>1. PICK f \in inHand : queue' = Append(queue, f)
    BY <1>5 DEF PutFile
  <2>2. /\ queue' \in Seq(Files \cup {Sentinel})
        /\ Len(queue') = Len(queue) + 1
    BY <2>1, AppendType
  <2>3. TypeOK'
    BY <1>5, <2>2 DEF PutFile, scmVars, runVars
  <2>4. UnfinishedExact'
    BY <1>5, <1>a, <1>b, <2>2 DEF PutFile, UnfinishedExact, Busy, BusySet
  <2> QED BY <2>3, <2>4
<1>6. CASE EndStream
  BY <1>6, <1>c DEF EndStream, scmVars, queueVars
<1>7. CASE StreamRaises
  BY <1>7, <1>c DEF StreamRaises, scmVars, queueVars
<1>8. CASE PutSentinel
  <2>2. /\ queue' \in Seq(Files \cup {Sentinel})
        /\ Len(queue') = Len(queue) + 1
    BY <1>8, AppendType DEF PutSentinel
  <2>3. TypeOK'
    BY <1>8, <2>2 DEF PutSentinel, scmVars
  <2>4. UnfinishedExact'
    BY <1>8, <1>a, <1>b, <2>2 DEF PutSentinel, UnfinishedExact, Busy, BusySet
  <2> QED BY <2>3, <2>4
<1>9. CASE ProducerReturns
  BY <1>9, <1>c DEF ProducerReturns, scmVars, queueVars
<1>10. CASE Join
  BY <1>10, <1>c DEF Join, scmVars, queueVars
<1>11. CASE Gather
  BY <1>11, <1>c DEF Gather, scmVars, queueVars
<1>12. ASSUME NEW w \in Workers, GetFile(w) PROVE Typing'
  <2>1. /\ Head(queue) \in Files
        /\ queue' \in Seq(Files \cup {Sentinel})
        /\ Len(queue') = Len(queue) - 1
        /\ Len(queue) \in Nat
    BY <1>12, TailType DEF GetFile
  <2>2. TypeOK'
    BY <1>12, <2>1 DEF GetFile, scmVars, runVars
  <2>3. ~Busy(w)
    BY <1>12 DEF GetFile, Busy
  <2>4. Cardinality(BusySet') = Cardinality(BusySet) + 1
    BY <1>12, <2>1, <2>3, BusyJoins DEF GetFile
  <2>5. UnfinishedExact'
    BY <1>12, <1>a, <1>b, <2>1, <2>4 DEF GetFile, UnfinishedExact, BusySet
  <2> QED BY <2>2, <2>5
<1>13. ASSUME NEW w \in Workers, GetSentinel(w) PROVE Typing'
  <2>1. /\ queue' \in Seq(Files \cup {Sentinel})
        /\ Len(queue') = Len(queue) - 1
        /\ Len(queue) \in Nat \ {0}
    BY <1>13, TailType DEF GetSentinel
  <2>2. ~Busy(w)
    BY <1>13 DEF GetSentinel, Busy
  <2>3. BusySet' = BusySet
    BY <1>13, <2>2, BusySame DEF GetSentinel
  <2>4. TypeOK'
    BY <1>13, <1>a, <1>b, <2>1 DEF GetSentinel, scmVars, runVars
  <2>5. UnfinishedExact'
    <3>1. unfinished' = Len(queue') + Cardinality(BusySet')
      BY <1>13, <1>a, <1>b, <2>1, <2>3 DEF GetSentinel
    <3> QED BY <3>1 DEF UnfinishedExact, BusySet
  <2> QED BY <2>4, <2>5
<1>14. ASSUME NEW w \in Workers, NEW x \in {"get", "crashed"}, TaskDone(w, x),
              settled' \subseteq Files
       PROVE  Typing'
  <2>1. Cardinality(BusySet') = Cardinality(BusySet) - 1
    BY <1>14, BusyLeaves DEF TaskDone
  <2>2. Cardinality(BusySet') \in Nat
    BY <1>14, FileQueueAssumption, FS_Subset, FS_CardinalityType
    DEF FileQueueAssumption, BusySet
  <2>3. Len(queue) \in Nat
    OBVIOUS
  <2>4. TypeOK'
    BY <1>14, <1>a, <1>b, <2>1, <2>2, <2>3 DEF TaskDone, scmVars, runVars
  <2>5. UnfinishedExact'
    BY <1>14, <1>a, <1>b, <2>1, <2>3 DEF TaskDone, UnfinishedExact, BusySet
  <2> QED BY <2>4, <2>5
<1>15. ASSUME NEW w \in Workers, FinishFile(w) PROVE Typing'
  BY <1>14, <1>15 DEF FinishFile, TaskDone, Busy
<1>16. ASSUME NEW w \in Workers, CrashWorker(w) PROVE Typing'
  BY <1>14, <1>16 DEF CrashWorker
<1>17. CASE UNCHANGED vars
  BY <1>17, <1>c DEF vars, scmVars, queueVars, runVars
<1> QED
  BY <1>1, <1>2, <1>3, <1>4, <1>5, <1>6, <1>7, <1>8, <1>9, <1>10, <1>11,
     <1>12, <1>13, <1>15, <1>16, <1>17
  DEF Next, FetchStep, ProducerStep, WorkerStep, Over

(* Type correctness of the queue pipeline, for every listing and pool.     *)
THEOREM TypeCorrect == Spec => []TypeOK
<1>1. Typing => TypeOK
  BY DEF Typing
<1> QED BY <1>1, TypingInit, TypingStep, PTL DEF Spec

(* queue.join()'s counter is exact: no task_done() is missed or doubled.   *)
THEOREM JoinCounterExact == Spec => []UnfinishedExact
<1>1. Typing => UnfinishedExact
  BY DEF Typing
<1> QED BY <1>1, TypingInit, TypingStep, PTL DEF Spec
-----------------------------------------------------------------------------
(* The order argument behind the sweep. *)

Exited == \E w \in Workers : worker[w] = "exited"

(* No listed file is forgotten while no worker has died. *)
Accounted ==
  ~Crashed => Files \subseteq Undelivered \cup inHand \cup Queued \cup Working
                              \cup settled

(* The producer holds one file at a time, and none past its loop; by then  *)
(* a stream that did not raise is exhausted.                               *)
Drained ==
  /\ \A f, g \in inHand : f = g
  /\ producer # "stream" => /\ inHand = {}
                            /\ streamOk => Undelivered = {}

(* Sentinels follow every file ... *)
FilesFirst ==
  /\ producer = "stream" => ~Exited
  /\ \A i \in 1..Len(queue) : queue[i] = Sentinel =>
       /\ producer # "stream"
       /\ \A j \in i..Len(queue) : queue[j] = Sentinel

(* ... so a worker that met one leaves no file behind it in the queue. *)
ExitedSawAll ==
  Exited => \A i \in 1..Len(queue) : queue[i] = Sentinel

Verdict ==
  /\ verdict # "running" => producer = "over"
  /\ producer = "over" => \A w \in Workers : worker[w] \in {"exited", "crashed"}

SweepInv ==
  /\ Accounted
  /\ Drained
  /\ FilesFirst
  /\ ExitedSawAll
  /\ Verdict
  /\ SweepOnlyWhenSettled

LEMMA SweepInit == Init => SweepInv
<1> SUFFICES ASSUME Init PROVE SweepInv
  OBVIOUS
<1>1. Unstreamed = Files
  BY DEF Init, Unstreamed, Files
<1> QED
  BY <1>1, ConstantTypes
  DEF Init, SweepInv, Accounted, Drained, FilesFirst, ExitedSawAll, Verdict,
      SweepOnlyWhenSettled, Exited, Undelivered

LEMMA SweepStep == TypeOK /\ SweepInv /\ [Next]_vars => SweepInv'
<1> SUFFICES ASSUME TypeOK, SweepInv, [Next]_vars PROVE SweepInv'
  OBVIOUS
<1> USE ConstantTypes DEF SweepInv, TypeOK
<1>q. Len(queue) \in Nat
  OBVIOUS
<1>1. CASE RequestBatch
  <2>1. Undelivered' = Undelivered
    BY <1>1 DEF RequestBatch, Undelivered, Unstreamed
  <2>2. UNCHANGED <<inHand, queue, producer, streamOk, verdict, worker, settled>>
    BY <1>1 DEF RequestBatch, queueVars, runVars
  <2> QED
    BY <2>1, <2>2 DEF Accounted, Drained, FilesFirst, ExitedSawAll, Verdict,
       SweepOnlyWhenSettled, Crashed, Exited, Queued, Working
<1>2. ASSUME NEW f \in Files, FetchReturns(f) PROVE SweepInv'
  <2>1. Undelivered' = Undelivered
    BY <1>2 DEF FetchReturns, Undelivered, Unstreamed
  <2>2. UNCHANGED <<inHand, queue, producer, streamOk, verdict, worker, settled>>
    BY <1>2 DEF FetchReturns, queueVars, runVars
  <2> QED
    BY <2>1, <2>2 DEF Accounted, Drained, FilesFirst, ExitedSawAll, Verdict,
       SweepOnlyWhenSettled, Crashed, Exited, Queued, Working
<1>3. ASSUME NEW f \in Files, FetchFails(f) PROVE SweepInv'
  <2>1. /\ Undelivered \subseteq Undelivered' \cup {f}
        /\ Undelivered' \subseteq Undelivered
    BY <1>3 DEF FetchFails, Undelivered, Unstreamed
  <2>2. UNCHANGED <<inHand, queue, producer, streamOk, verdict, worker>>
    BY <1>3 DEF FetchFails, queueVars, runVars
  <2>3. settled' = settled \cup {f}
    BY <1>3 DEF FetchFails
  <2> QED
    BY <2>1, <2>2, <2>3 DEF Accounted, Drained, FilesFirst, ExitedSawAll, Verdict,
       SweepOnlyWhenSettled, Crashed, Exited, Queued, Working
<1>4. ASSUME NEW f \in Files, YieldFile(f) PROVE SweepInv'
  <2>1. /\ Undelivered \subseteq Undelivered' \cup inHand'
        /\ producer = "stream"
    BY <1>4 DEF YieldFile, Undelivered, Unstreamed
  <2>2. UNCHANGED <<queue, producer, streamOk, verdict, worker, settled>>
    BY <1>4 DEF YieldFile, queueVars, runVars
  <2>3. inHand = {} /\ inHand' = {f}
    BY <1>4 DEF YieldFile
  <2> QED
    BY <2>1, <2>2, <2>3 DEF Accounted, Drained, FilesFirst, ExitedSawAll, Verdict,
       SweepOnlyWhenSettled, Crashed, Exited, Queued, Working
<1>5. CASE PutFile
  <2>1. PICK f \in inHand : queue' = Append(queue, f)
    BY <1>5 DEF PutFile
  <2>2. /\ queue' \in Seq(Files \cup {Sentinel})
        /\ Len(queue') = Len(queue) + 1
        /\ \A i \in 1..Len(queue) : queue'[i] = queue[i]
        /\ queue'[Len(queue) + 1] = f
    BY <2>1, AppendType
  <2>3. /\ UNCHANGED <<next, requested, fetched, producer, streamOk, verdict, worker,
                      settled>>
        /\ producer = "stream"
        /\ inHand' = {}
    BY <1>5 DEF PutFile, scmVars, runVars
  <2>4. Accounted'
    <3>1. /\ Queued \subseteq Queued'
          /\ f \in Queued'
      BY <2>2, <1>q DEF Queued
    <3>2. inHand \subseteq {f}
      BY DEF Drained
    <3> QED BY <2>3, <3>1, <3>2 DEF Accounted, Undelivered, Unstreamed, Crashed, Working
  <2>5. FilesFirst'
    BY <2>2, <2>3, <1>q DEF FilesFirst, Exited
  <2>6. ExitedSawAll' /\ Verdict' /\ Drained' /\ SweepOnlyWhenSettled'
    BY <2>2, <2>3 DEF FilesFirst, ExitedSawAll, Exited, Verdict, Drained,
       SweepOnlyWhenSettled
  <2> QED BY <2>4, <2>5, <2>6
<1>6. CASE EndStream
  <2>1. Undelivered' = Undelivered /\ Undelivered = {} /\ inHand = {} /\ producer = "stream"
    BY <1>6 DEF EndStream, Undelivered, Unstreamed, scmVars
  <2>2. /\ UNCHANGED <<inHand, queue, streamOk, verdict, worker, settled>>
        /\ producer' = "seal"
    BY <1>6 DEF EndStream, queueVars
  <2> QED
    BY <2>1, <2>2 DEF Accounted, Drained, FilesFirst, ExitedSawAll, Verdict,
       SweepOnlyWhenSettled, Crashed, Exited, Queued, Working
<1>7. CASE StreamRaises
  <2>1. Undelivered' = Undelivered /\ inHand = {} /\ producer = "stream"
    BY <1>7 DEF StreamRaises, Undelivered, Unstreamed, scmVars
  <2>2. /\ UNCHANGED <<inHand, queue, verdict, worker, settled>>
        /\ producer' = "seal" /\ streamOk' = FALSE
    BY <1>7 DEF StreamRaises, queueVars
  <2> QED
    BY <2>1, <2>2 DEF Accounted, Drained, FilesFirst, ExitedSawAll, Verdict,
       SweepOnlyWhenSettled, Crashed, Exited, Queued, Working
<1>8. CASE PutSentinel
  <2>2. /\ queue' \in Seq(Files \cup {Sentinel})
        /\ Len(queue') = Len(queue) + 1
        /\ \A i \in 1..Len(queue) : queue'[i] = queue[i]
        /\ queue'[Len(queue) + 1] = Sentinel
    BY <1>8, AppendType DEF PutSentinel
  <2>3. /\ UNCHANGED <<next, requested, fetched, inHand, producer, streamOk, verdict,
                      worker, settled>>
        /\ producer = "seal"
    BY <1>8 DEF PutSentinel, scmVars
  <2>4. Queued' = Queued
    <3>1. \A i \in 1..Len(queue') : i \in 1..Len(queue) \/ queue'[i] = Sentinel
      BY <2>2, <1>q
    <3>2. \A i \in 1..Len(queue) : i \in 1..Len(queue')
      BY <2>2, <1>q
    <3>3. DOMAIN queue = 1..Len(queue) /\ DOMAIN queue' = 1..Len(queue')
      BY <2>2
    <3> QED BY <2>2, <3>1, <3>2, <3>3 DEF Queued
  <2>5. FilesFirst' /\ ExitedSawAll'
    BY <2>2, <2>3, <1>q DEF FilesFirst, ExitedSawAll, Exited
  <2>6. Accounted' /\ Verdict' /\ Drained' /\ SweepOnlyWhenSettled'
    BY <2>3, <2>4 DEF Accounted, Undelivered, Unstreamed, Crashed, Working,
       Verdict, Drained, SweepOnlyWhenSettled
  <2> QED BY <2>5, <2>6
<1>9. CASE ProducerReturns
  <2>1. /\ UNCHANGED <<next, requested, fetched, inHand, queue, streamOk, verdict,
                      worker, settled>>
        /\ producer = "seal" /\ producer' \in {"join", "gather"}
    BY <1>9 DEF ProducerReturns, scmVars, queueVars
  <2> QED
    BY <2>1 DEF Accounted, Drained, FilesFirst, ExitedSawAll, Verdict,
       SweepOnlyWhenSettled, Crashed, Exited, Queued, Working, Undelivered, Unstreamed
<1>10. CASE Join
  <2>1. /\ UNCHANGED <<next, requested, fetched, inHand, queue, streamOk, verdict,
                      worker, settled>>
        /\ producer = "join" /\ producer' = "gather"
    BY <1>10 DEF Join, scmVars, queueVars
  <2> QED
    BY <2>1 DEF Accounted, Drained, FilesFirst, ExitedSawAll, Verdict,
       SweepOnlyWhenSettled, Crashed, Exited, Queued, Working, Undelivered, Unstreamed
<1>11. CASE Gather
  <2>1. /\ UNCHANGED <<next, requested, fetched, inHand, queue, streamOk, worker, settled>>
        /\ producer = "gather" /\ producer' = "over"
        /\ \A w \in Workers : worker[w] \in {"exited", "crashed"}
        /\ verdict' = "swept" => streamOk /\ ~Crashed
    BY <1>11 DEF Gather, scmVars, queueVars
  <2>2. SweepOnlyWhenSettled'
    <3> SUFFICES ASSUME verdict' = "swept"
                 PROVE  settled = Files /\ Queued = {} /\ Working = {}
      BY <2>1 DEF SweepOnlyWhenSettled, Queued, Working
    <3>1. Exited
      BY <2>1 DEF Exited, Crashed
    <3>2. Queued = {}
      BY <3>1 DEF ExitedSawAll, Queued
    <3>3. Working = {}
      BY <2>1 DEF Working
    <3> QED BY <2>1, <3>2, <3>3 DEF Accounted, Drained
  <2> QED
    BY <2>1, <2>2 DEF Accounted, Drained, FilesFirst, ExitedSawAll, Verdict,
       Crashed, Exited, Queued, Working, Undelivered, Unstreamed
<1>12. ASSUME NEW w \in Workers, GetFile(w) PROVE SweepInv'
  <2>1. /\ Head(queue) = queue[1]
        /\ Head(queue) \in Files
        /\ Len(queue') = Len(queue) - 1
        /\ Len(queue) \in Nat \ {0}
        /\ queue' \in Seq(Files \cup {Sentinel})
        /\ \A i \in 1..Len(queue') : queue'[i] = queue[i + 1]
    BY <1>12, TailType DEF GetFile
  <2>2. /\ UNCHANGED <<next, requested, fetched, inHand, producer, streamOk, verdict, settled>>
        /\ worker[w] = "get"
        /\ worker' = [worker EXCEPT ![w] = queue[1]]
    BY <1>12, <2>1 DEF GetFile, scmVars, runVars
  <2>3. verdict # "swept"
    BY <2>2 DEF Verdict
  <2>4. Queued \subseteq Queued' \cup {queue[1]}
    <3> SUFFICES ASSUME NEW i \in 1..Len(queue), i # 1
                 PROVE  i - 1 \in 1..Len(queue') /\ queue'[i - 1] = queue[i]
      BY <2>1 DEF Queued
    <3> QED BY <2>1
  <2>5. Working' = Working \cup {queue[1]}
    BY <2>1, <2>2 DEF Working
  <2>6. ~Exited
    BY <2>1 DEF ExitedSawAll
  <2>7. ~Exited' /\ (Crashed' <=> Crashed)
    BY <2>1, <2>2, <2>6 DEF Exited, Crashed
  <2>8. FilesFirst'
    <3> SUFFICES ASSUME NEW i \in 1..Len(queue'), queue'[i] = Sentinel
                 PROVE  /\ producer # "stream"
                        /\ \A j \in i..Len(queue') : queue'[j] = Sentinel
      BY <2>2, <2>7 DEF FilesFirst
    <3>1. i + 1 \in 1..Len(queue) /\ queue[i + 1] = Sentinel
      BY <2>1
    <3>2. ASSUME NEW j \in i..Len(queue')
          PROVE  queue'[j] = Sentinel
      <4>1. j \in 1..Len(queue') /\ j + 1 \in (i + 1)..Len(queue)
        BY <2>1
      <4> QED BY <2>1, <3>1, <4>1 DEF FilesFirst
    <3> QED BY <3>1, <3>2 DEF FilesFirst
  <2>9. Accounted'
    BY <2>2, <2>4, <2>5, <2>7 DEF Accounted, Undelivered, Unstreamed
  <2> QED
    BY <2>2, <2>3, <2>7, <2>8, <2>9
    DEF Drained, ExitedSawAll, Verdict, SweepOnlyWhenSettled, Undelivered, Unstreamed
<1>13. ASSUME NEW w \in Workers, GetSentinel(w) PROVE SweepInv'
  <2>1. /\ Head(queue) = queue[1]
        /\ queue[1] = Sentinel
        /\ Len(queue') = Len(queue) - 1
        /\ Len(queue) \in Nat \ {0}
        /\ \A i \in 1..Len(queue') : queue'[i] = queue[i + 1]
    BY <1>13, TailType DEF GetSentinel
  <2>2. /\ UNCHANGED <<next, requested, fetched, inHand, producer, streamOk, verdict, settled>>
        /\ worker[w] = "get"
        /\ worker' = [worker EXCEPT ![w] = "exited"]
    BY <1>13 DEF GetSentinel, scmVars, runVars
  <2>3. verdict # "swept"
    BY <2>2 DEF Verdict
  <2>4. /\ producer # "stream"
        /\ \A i \in 1..Len(queue) : queue[i] = Sentinel
    BY <2>1 DEF FilesFirst
  <2>5. \A i \in 1..Len(queue') : queue'[i] = Sentinel
    BY <2>1, <2>4
  <2>6. Working' = Working /\ (Crashed' <=> Crashed)
    BY <2>2 DEF Working, Crashed
  <2>7. Queued = {}
    BY <2>4 DEF Queued
  <2>8. FilesFirst'
    <3>1. Len(queue') \in Nat
      BY <2>1
    <3> QED BY <2>2, <2>4, <2>5, <3>1 DEF FilesFirst
  <2> QED
    BY <2>2, <2>3, <2>5, <2>6, <2>7, <2>8
    DEF Accounted, Drained, ExitedSawAll, Verdict, SweepOnlyWhenSettled,
        Undelivered, Unstreamed
<1>14. ASSUME NEW w \in Workers, NEW x \in {"get", "crashed"}, TaskDone(w, x),
              \/ settled' = settled \cup {worker[w]}
              \/ x = "crashed" /\ settled' = settled
       PROVE  SweepInv'
  <2>1. /\ UNCHANGED <<next, requested, fetched, inHand, queue, producer, streamOk, verdict>>
        /\ worker[w] \in Files
        /\ worker' = [worker EXCEPT ![w] = x]
    BY <1>14 DEF TaskDone, Busy, scmVars, runVars
  <2>2. producer # "over" /\ verdict # "swept"
    BY <2>1 DEF Verdict
  <2>3. Exited' => Exited
    BY <2>1 DEF Exited
  <2>4. Working \subseteq Working' \cup {worker[w]}
    BY <2>1 DEF Working
  <2>5. Crashed => Crashed'
    BY <2>1 DEF Crashed
  <2>6. x = "crashed" => Crashed'
    BY <2>1 DEF Crashed
  <2>7. Accounted'
    BY <1>14, <2>1, <2>4, <2>5, <2>6 DEF Accounted, Undelivered, Unstreamed, Queued
  <2> QED
    BY <2>1, <2>2, <2>3, <2>7
    DEF Drained, FilesFirst, ExitedSawAll, Verdict, SweepOnlyWhenSettled,
        Undelivered, Unstreamed
<1>15. ASSUME NEW w \in Workers, FinishFile(w) PROVE SweepInv'
  <2>1. TaskDone(w, "get") /\ settled' = settled \cup {worker[w]}
    BY <1>15 DEF FinishFile
  <2> QED BY <1>14, <2>1
<1>16. ASSUME NEW w \in Workers, CrashWorker(w) PROVE SweepInv'
  <2>1. TaskDone(w, "crashed") /\ settled' = settled
    BY <1>16 DEF CrashWorker
  <2> QED BY <1>14, <2>1
<1>17. CASE UNCHANGED vars
  <2>1. UNCHANGED <<next, requested, fetched, inHand, queue, producer, streamOk, verdict,
                    worker, settled>>
    BY <1>17 DEF vars, scmVars, queueVars, runVars
  <2>2. /\ Queued' = Queued /\ Working' = Working /\ Undelivered' = Undelivered
        /\ Unstreamed' = Unstreamed /\ Crashed' = Crashed /\ Exited' = Exited
    BY <2>1 DEF Queued, Working, Undelivered, Unstreamed, Crashed, Exited
  <2> QED
    BY <2>1, <2>2 DEF Accounted, Drained, FilesFirst, ExitedSawAll, Verdict,
       SweepOnlyWhenSettled
<1> QED
  BY <1>1, <1>2, <1>3, <1>4, <1>5, <1>6, <1>7, <1>8, <1>9, <1>10, <1>11,
     <1>12, <1>13, <1>15, <1>16, <1>17
  DEF Next, FetchStep, ProducerStep, WorkerStep, Over

(* The deletion sweep is allowed only when every listed file is settled:   *)
(* neither an SCM error nor a dead worker is followed by a purge.          *)
THEOREM SweepSafe == Spec => []SweepOnlyWhenSettled
<1>1. SweepInv => SweepOnlyWhenSettled
  BY DEF SweepInv
<1> QED BY <1>1, TypeCorrect, SweepInit, SweepStep, PTL DEF Spec
-----------------------------------------------------------------------------
(* Backpressure. *)

(* What the elements of I name has no more elements than I. *)
LEMMA NamedByFew ==
  ASSUME NEW I, IsFiniteSet(I), NEW g, NEW T, \A t \in T : \E i \in I : t = g[i]
  PROVE  IsFiniteSet(T) /\ Cardinality(T) <= Cardinality(I)
<1> DEFINE h == [t \in T |-> CHOOSE i \in I : t = g[i]]
<1>1. \A t \in T : h[t] \in I /\ t = g[h[t]]
  OBVIOUS
<1>2. h \in Injection(T, I)
  <2>1. h \in [T -> I]
    BY <1>1
  <2>2. \A a, b \in T : h[a] = h[b] => a = b
    BY <1>1
  <2> QED BY <2>1, <2>2 DEF Injection, IsInjective
<1> HIDE DEF h
<1> QED BY <1>2, FS_Injection

(* What the producer side holds is one batch of the SCM. *)
Held == requested \cup fetched \cup inHand

MemoryInv ==
  /\ IsFiniteSet(Held)
  /\ Cardinality(Held) <= ScmBatch
  /\ Len(queue) <= Capacity

LEMMA HeldShrinks ==
  ASSUME MemoryInv, Held' \subseteq Held
  PROVE  IsFiniteSet(Held') /\ Cardinality(Held') <= ScmBatch
<1>1. /\ IsFiniteSet(Held') /\ Cardinality(Held') <= Cardinality(Held)
      /\ Cardinality(Held') \in Nat /\ Cardinality(Held) \in Nat
  BY FS_Subset, FS_CardinalityType DEF MemoryInv
<1> QED BY <1>1, ConstantTypes DEF MemoryInv

LEMMA CapacityType == Capacity \in Nat /\ Capacity' = Capacity
BY ConstantTypes DEF Capacity, FileParallel

LEMMA MemoryInit == Init => MemoryInv
<1> SUFFICES ASSUME Init PROVE MemoryInv
  OBVIOUS
<1>1. Held = {} /\ Len(queue) = 0
  BY DEF Init, Held
<1> QED BY <1>1, FS_EmptySet, ConstantTypes, CapacityType DEF MemoryInv

LEMMA MemoryStep == TypeOK /\ MemoryInv /\ [Next]_vars => MemoryInv'
<1> SUFFICES ASSUME TypeOK, MemoryInv, [Next]_vars PROVE MemoryInv'
  OBVIOUS
<1>q. Len(queue) \in Nat /\ queue \in Seq(Files \cup {Sentinel})
  BY DEF TypeOK
<1>a. ASSUME Held' \subseteq Held, Len(queue') <= Capacity PROVE MemoryInv'
  BY <1>a, HeldShrinks, CapacityType DEF MemoryInv
<1>1. CASE RequestBatch
  <2> DEFINE last == IF next + ScmBatch - 1 < Len(Listing)
                     THEN next + ScmBatch - 1 ELSE Len(Listing)
  <2>1. /\ Held' = {Listing[i] : i \in next..last} /\ queue' = queue
        /\ next <= Len(Listing)
    BY <1>1 DEF RequestBatch, Held, queueVars
  <2>2. next \in Nat /\ last \in Nat /\ last - next + 1 <= ScmBatch /\ next <= last
    BY <2>1, ConstantTypes DEF TypeOK
  <2> HIDE DEF last
  <2>3. IsFiniteSet(next..last) /\ Cardinality(next..last) = last - next + 1
    BY <2>2, FS_Interval
  <2>4. IsFiniteSet(Held') /\ Cardinality(Held') <= Cardinality(next..last)
    <3>1. \A t \in Held' : \E i \in next..last : t = Listing[i]
      BY <2>1
    <3> QED BY <3>1, <2>3, NamedByFew
  <2>5. Cardinality(Held') \in Nat
    BY <2>4, FS_CardinalityType
  <2> QED BY <2>1, <2>2, <2>3, <2>4, <2>5, ConstantTypes, CapacityType DEF MemoryInv
<1>2. ASSUME NEW f \in Files, FetchReturns(f) \/ FetchFails(f) \/ YieldFile(f)
      PROVE  MemoryInv'
  <2>1. Held' \subseteq Held /\ queue' = queue
    BY <1>2 DEF FetchReturns, FetchFails, YieldFile, Held, queueVars
  <2> QED BY <1>a, <2>1 DEF MemoryInv
<1>3. CASE PutFile \/ PutSentinel
  <2>1. Held' \subseteq Held /\ Len(queue) < Capacity
    BY <1>3 DEF PutFile, PutSentinel, Held, scmVars
  <2>2. Len(queue') = Len(queue) + 1
    <3>1. CASE PutFile
      <4>1. PICK f \in inHand : queue' = Append(queue, f)
        BY <3>1 DEF PutFile
      <4>2. f \in Files \cup {Sentinel}
        BY DEF TypeOK
      <4> QED BY <1>q, <4>1, <4>2, AppendType
    <3>2. CASE PutSentinel
      BY <1>q, <3>2, AppendType DEF PutSentinel
    <3> QED BY <1>3, <3>1, <3>2
  <2> QED BY <1>a, <1>q, <2>1, <2>2, CapacityType
<1>4. CASE EndStream \/ StreamRaises \/ ProducerReturns \/ Join \/ Gather \/ Over
  <2>1. Held' = Held /\ queue' = queue
    BY <1>4 DEF EndStream, StreamRaises, ProducerReturns, Join, Gather, Over,
       Held, vars, scmVars, queueVars
  <2> QED BY <1>a, <2>1 DEF MemoryInv
<1>5. ASSUME NEW w \in Workers, GetFile(w) \/ GetSentinel(w) PROVE MemoryInv'
  <2>1. Held' = Held /\ Len(queue') = Len(queue) - 1
    BY <1>5, <1>q, TailType DEF GetFile, GetSentinel, Held, scmVars
  <2> QED BY <1>a, <1>q, <2>1, CapacityType DEF MemoryInv
<1>6. ASSUME NEW w \in Workers, FinishFile(w) \/ CrashWorker(w) PROVE MemoryInv'
  <2>1. Held' = Held /\ queue' = queue
    BY <1>6 DEF FinishFile, CrashWorker, TaskDone, Held, scmVars
  <2> QED BY <1>a, <2>1 DEF MemoryInv
<1>7. CASE UNCHANGED vars
  <2>1. Held' = Held /\ queue' = queue
    BY <1>7 DEF Held, vars, scmVars, queueVars
  <2> QED BY <1>a, <2>1 DEF MemoryInv
<1> QED
  BY <1>1, <1>2, <1>3, <1>4, <1>5, <1>6, <1>7
  DEF Next, FetchStep, ProducerStep, WorkerStep

LEMMA MemoryInvBounds == TypeOK /\ MemoryInv => MemoryBound
<1> SUFFICES ASSUME TypeOK, MemoryInv PROVE MemoryBound
  OBVIOUS
<1>1. Len(queue) \in Nat /\ DOMAIN queue = 1..Len(queue)
  BY DEF TypeOK
<1>2. IsFiniteSet(Queued) /\ Cardinality(Queued) <= Capacity
  <2>1. IsFiniteSet(1..Len(queue)) /\ Cardinality(1..Len(queue)) = Len(queue)
    <3>1. 1 \in Int /\ Len(queue) \in Int
      BY <1>1
    <3>2. /\ IsFiniteSet(1..Len(queue))
          /\ Cardinality(1..Len(queue)) =
               IF 1 > Len(queue) THEN 0 ELSE Len(queue) - 1 + 1
      BY <3>1, FS_Interval
    <3> QED BY <1>1, <3>2
  <2>2. \A f \in Queued : \E i \in 1..Len(queue) : f = queue[i]
    BY <1>1 DEF Queued
  <2>3. IsFiniteSet(Queued) /\ Cardinality(Queued) <= Cardinality(1..Len(queue))
    BY <2>1, <2>2, NamedByFew
  <2>4. Cardinality(Queued) \in Nat
    BY <2>3, FS_CardinalityType
  <2> QED BY <1>1, <2>1, <2>3, <2>4, CapacityType DEF MemoryInv
<1>3. IsFiniteSet(Working) /\ Cardinality(Working) <= FileParallel
  <2>1. \A f \in Working : \E w \in Workers : f = worker[w]
    BY DEF Working
  <2> QED BY <2>1, FileQueueAssumption, NamedByFew DEF FileQueueAssumption, FileParallel
<1>4. IsFiniteSet(fetched \cup inHand) /\ Cardinality(fetched \cup inHand) <= ScmBatch
  <2>1. fetched \cup inHand \in SUBSET Held
    BY DEF Held
  <2>2. /\ IsFiniteSet(fetched \cup inHand)
        /\ Cardinality(fetched \cup inHand) <= Cardinality(Held)
    BY <2>1, FS_Subset DEF MemoryInv
  <2>3. Cardinality(fetched \cup inHand) \in Nat /\ Cardinality(Held) \in Nat
    BY <2>2, FS_CardinalityType DEF MemoryInv
  <2> QED BY <2>2, <2>3, ConstantTypes DEF MemoryInv
<1>5. ASSUME NEW A, NEW B, IsFiniteSet(A), IsFiniteSet(B), NEW m \in Nat, NEW n \in Nat,
             Cardinality(A) <= m, Cardinality(B) <= n
      PROVE  IsFiniteSet(A \cup B) /\ Cardinality(A \cup B) <= m + n
  <2>1. IsFiniteSet(A \cap B)
    BY <1>5, FS_Subset
  <2>2. {Cardinality(A), Cardinality(B), Cardinality(A \cap B)} \subseteq Nat
    BY <1>5, <2>1, FS_CardinalityType
  <2>3. /\ IsFiniteSet(A \cup B)
        /\ Cardinality(A \cup B) = Cardinality(A) + Cardinality(B) - Cardinality(A \cap B)
    BY <1>5, FS_Union
  <2> QED BY <1>5, <2>2, <2>3
<1>6. /\ IsFiniteSet((fetched \cup inHand) \cup Queued)
      /\ Cardinality((fetched \cup inHand) \cup Queued) <= ScmBatch + Capacity
  BY <1>2, <1>4, <1>5, ConstantTypes, CapacityType
<1>7. Cardinality(((fetched \cup inHand) \cup Queued) \cup Working)
        <= (ScmBatch + Capacity) + FileParallel
  <2>1. ScmBatch + Capacity \in Nat /\ FileParallel \in Nat
    BY ConstantTypes, CapacityType
  <2> HIDE DEF FileParallel, Capacity
  <2> QED BY <2>1, <1>3, <1>5, <1>6
<1>8. Cardinality(InMemory) <= (ScmBatch + Capacity) + FileParallel
  BY <1>7 DEF InMemory
<1>9. Cardinality(InMemory) \in Nat
  <2>1. IsFiniteSet(InMemory)
    BY <1>3, <1>6, FS_Union DEF InMemory
  <2> QED BY <2>1, FS_CardinalityType
<1> QED BY <1>8, <1>9, ConstantTypes, CapacityType DEF MemoryBound

(* The file bodies in memory are bounded, for every listing and pool. *)
THEOREM MemoryBounded == Spec => []MemoryBound
BY TypeCorrect, MemoryInit, MemoryStep, MemoryInvBounds, PTL DEF Spec
-----------------------------------------------------------------------------
(* The pipeline implements FilePass: a file is in one place at a time. *)

Apart ==
  /\ Unstreamed \cap (requested \cup fetched \cup inHand \cup Queued \cup Working) = {}
  /\ requested \cap (fetched \cup inHand \cup Queued \cup Working) = {}
  /\ fetched \cap (inHand \cup Queued \cup Working) = {}
  /\ inHand \cap (Queued \cup Working) = {}
  /\ Queued \cap Working = {}

QueuedOnce ==
  \A i, j \in 1..Len(queue) : queue[i] \in Files /\ queue[i] = queue[j] => i = j

WorkedOnce ==
  \A v, w \in Workers : worker[v] \in Files /\ worker[v] = worker[w] => v = w

OnePlace == Apart /\ QueuedOnce /\ WorkedOnce

Waiting == Undelivered \cup inHand \cup Queued
Moves == [Pass!Next]_(Pass!passVars)

(* A step that leaves each file where it is, or moves it within Waiting. *)
LEMMA Stutters ==
  ASSUME Waiting' = Waiting, UNCHANGED <<worker, settled, verdict>>
  PROVE  Moves
BY DEF Moves, Waiting, Working, Pass!passVars

LEMMA PlaceKept ==
  ASSUME UNCHANGED <<next, requested, fetched, inHand, queue, worker>>
  PROVE  (OnePlace => OnePlace') /\ Waiting' = Waiting
BY DEF OnePlace, Apart, QueuedOnce, WorkedOnce, Waiting, Undelivered, Unstreamed,
   Queued, Working

LEMMA OnePlaceInit == Init => OnePlace /\ Pass!Init
<1> SUFFICES ASSUME Init PROVE OnePlace /\ Pass!Init
  OBVIOUS
<1>1. Unstreamed = Files /\ Queued = {} /\ Working = {}
  BY ConstantTypes DEF Init, Unstreamed, Files, Queued, Working
<1>2. QueuedOnce /\ WorkedOnce
  BY ConstantTypes DEF Init, QueuedOnce, WorkedOnce
<1> QED
  BY <1>1, <1>2 DEF Init, OnePlace, Apart, Pass!Init, Undelivered

LEMMA OnePlaceStep ==
  TypeOK /\ SweepInv /\ OnePlace /\ [Next]_vars => OnePlace' /\ Moves
<1> SUFFICES ASSUME TypeOK, SweepInv, OnePlace, [Next]_vars PROVE OnePlace' /\ Moves
  OBVIOUS
<1>q. Len(queue) \in Nat /\ queue \in Seq(Files \cup {Sentinel})
  BY DEF TypeOK
<1>d. DOMAIN queue = 1..Len(queue)
  BY <1>q
<1>1. CASE RequestBatch
  <2> DEFINE last == IF next + ScmBatch - 1 < Len(Listing)
                     THEN next + ScmBatch - 1 ELSE Len(Listing)
  <2>1. /\ requested = {} /\ fetched = {} /\ inHand = {} /\ next <= Len(Listing)
        /\ requested' = {Listing[i] : i \in next..last} /\ next' = last + 1
        /\ UNCHANGED <<fetched, inHand, queue, worker, settled, verdict>>
    BY <1>1 DEF RequestBatch, queueVars, runVars
  <2>2. /\ next \in Nat \ {0} /\ last \in Nat /\ next <= last /\ last <= Len(Listing)
        /\ Len(Listing) \in Nat
    BY <2>1, ConstantTypes DEF TypeOK
  <2> HIDE DEF last
  <2>3. Unstreamed = requested' \cup Unstreamed'
    <3>1. next..Len(Listing) = (next..last) \cup ((last + 1)..Len(Listing))
      BY <2>2
    <3> QED BY <2>1, <3>1 DEF Unstreamed
  <2>4. Unstreamed' \cap requested' = {}
    <3> SUFFICES ASSUME NEW i \in next..last, NEW j \in (last + 1)..Len(Listing),
                        Listing[i] = Listing[j]
                 PROVE  FALSE
      BY <2>1 DEF Unstreamed
    <3>1. i \in 1..Len(Listing) /\ j \in 1..Len(Listing) /\ i # j
      BY <2>2
    <3> QED BY <3>1, FileQueueAssumption DEF FileQueueAssumption
  <2>5. Queued' = Queued /\ Working' = Working
    BY <2>1 DEF Queued, Working
  <2>6. Apart'
    BY <2>1, <2>3, <2>4, <2>5 DEF OnePlace, Apart
  <2>7. QueuedOnce' /\ WorkedOnce'
    BY <2>1 DEF OnePlace, QueuedOnce, WorkedOnce
  <2>8. Waiting' = Waiting
    BY <2>1, <2>3, <2>5 DEF Waiting, Undelivered
  <2> QED BY <2>1, <2>6, <2>7, <2>8, Stutters DEF OnePlace
<1>2. ASSUME NEW f \in Files, FetchReturns(f) \/ FetchFails(f) \/ YieldFile(f)
      PROVE  OnePlace' /\ Moves
  <2>1. UNCHANGED <<next, queue, worker, verdict>>
    BY <1>2 DEF FetchReturns, FetchFails, YieldFile, queueVars, runVars
  <2>2. UNCHANGED <<Unstreamed, Queued, Working>> /\ QueuedOnce' /\ WorkedOnce'
    BY <2>1 DEF Unstreamed, Queued, Working, OnePlace, QueuedOnce, WorkedOnce
  <2>3. Apart'
    <3>1. CASE FetchReturns(f)
      BY <2>2, <3>1 DEF FetchReturns, OnePlace, Apart
    <3>2. CASE FetchFails(f)
      BY <2>2, <3>2 DEF FetchFails, OnePlace, Apart
    <3>3. CASE YieldFile(f)
      BY <2>2, <3>3 DEF YieldFile, OnePlace, Apart
    <3> QED BY <1>2, <3>1, <3>2, <3>3
  <2>4. CASE FetchReturns(f) \/ YieldFile(f)
    <3>1. Waiting' = Waiting /\ settled' = settled
      BY <2>2, <2>4 DEF FetchReturns, YieldFile, Waiting, Undelivered
    <3> QED BY <2>1, <2>2, <2>3, <3>1, Stutters DEF OnePlace
  <2>5. CASE FetchFails(f)
    <3>1. f \in Waiting /\ Waiting' = Waiting \ {f} /\ settled' = settled \cup {f}
      BY <2>2, <2>5 DEF FetchFails, Waiting, Undelivered, OnePlace, Apart
    <3>2. Pass!Drop(f)
      BY <2>1, <2>2, <3>1 DEF Pass!Drop, Waiting
    <3> QED BY <2>2, <2>3, <3>2 DEF OnePlace, Moves, Pass!Next
  <2> QED BY <1>2, <2>4, <2>5
<1>3. CASE PutFile
  <2>1. PICK f \in inHand : queue' = Append(queue, f)
    BY <1>3 DEF PutFile
  <2>2. f \in Files /\ inHand = {f} /\ inHand' = {}
    BY <1>3 DEF PutFile, TypeOK, SweepInv, Drained
  <2>3. UNCHANGED <<next, requested, fetched, worker, settled, verdict>>
    BY <1>3 DEF PutFile, scmVars, runVars
  <2>4. /\ queue' \in Seq(Files \cup {Sentinel}) /\ Len(queue') = Len(queue) + 1
        /\ \A i \in 1..Len(queue) : queue'[i] = queue[i]
        /\ queue'[Len(queue) + 1] = f
    BY <1>q, <2>1, <2>2, AppendType
  <2>5. 1..Len(queue') = (1..Len(queue)) \cup {Len(queue) + 1} /\ DOMAIN queue' = 1..Len(queue')
    BY <1>q, <2>4
  <2>6. Queued' = Queued \cup {f}
    BY <1>d, <2>2, <2>4, <2>5 DEF Queued
  <2>7. f \notin Queued /\ \A i \in 1..Len(queue) : queue[i] # f
    BY <1>d, <2>2 DEF OnePlace, Apart, Queued
  <2>8. QueuedOnce'
    BY <2>4, <2>5, <2>7 DEF OnePlace, QueuedOnce
  <2>9. UNCHANGED <<Unstreamed, Working>> /\ WorkedOnce'
    BY <2>3 DEF Unstreamed, Working, OnePlace, WorkedOnce
  <2>10. Apart'
    BY <2>2, <2>3, <2>6, <2>9 DEF OnePlace, Apart
  <2>11. Waiting' = Waiting
    BY <2>2, <2>3, <2>6, <2>9 DEF Waiting, Undelivered
  <2> QED BY <2>3, <2>8, <2>9, <2>10, <2>11, Stutters DEF OnePlace
<1>4. CASE PutSentinel
  <2>1. UNCHANGED <<next, requested, fetched, inHand, worker, settled, verdict>>
    BY <1>4 DEF PutSentinel, scmVars
  <2>2. /\ queue' \in Seq(Files \cup {Sentinel}) /\ Len(queue') = Len(queue) + 1
        /\ \A i \in 1..Len(queue) : queue'[i] = queue[i]
        /\ queue'[Len(queue) + 1] = Sentinel
    BY <1>4, <1>q, AppendType DEF PutSentinel
  <2>3. 1..Len(queue') = (1..Len(queue)) \cup {Len(queue) + 1} /\ DOMAIN queue' = 1..Len(queue')
    BY <1>q, <2>2
  <2>4. Queued' = Queued
    BY <1>d, <2>2, <2>3, ConstantTypes DEF Queued
  <2>5. QueuedOnce'
    BY <2>2, <2>3, ConstantTypes DEF OnePlace, QueuedOnce
  <2>6. UNCHANGED <<Unstreamed, Working>> /\ WorkedOnce'
    BY <2>1 DEF Unstreamed, Working, OnePlace, WorkedOnce
  <2>7. Apart' /\ Waiting' = Waiting
    BY <2>1, <2>4, <2>6 DEF OnePlace, Apart, Waiting, Undelivered
  <2> QED BY <2>1, <2>5, <2>6, <2>7, Stutters DEF OnePlace
<1>5. CASE EndStream \/ StreamRaises \/ ProducerReturns \/ Join \/ Over
  <2>1. UNCHANGED <<next, requested, fetched, inHand, queue, worker, settled, verdict>>
    BY <1>5 DEF EndStream, StreamRaises, ProducerReturns, Join, Over, vars, scmVars,
       queueVars, runVars
  <2> QED BY <2>1, PlaceKept, Stutters
<1>6. CASE Gather
  <2>1. /\ UNCHANGED <<next, requested, fetched, inHand, queue, worker, settled, streamOk>>
        /\ producer = "gather" /\ verdict' \in {"raised", "partial", "swept"}
    BY <1>6 DEF Gather, scmVars, queueVars
  <2>2. OnePlace' /\ Waiting' = Waiting /\ Working' = Working
    BY <2>1, PlaceKept DEF Working
  <2>3. verdict = "running"
    BY <2>1 DEF SweepInv, Verdict
  <2>4. verdict' = "swept" => settled = Files
    BY <2>1, SweepStep DEF SweepInv, SweepOnlyWhenSettled
  <2>5. Pass!Sweep \/ Pass!GiveUp
    BY <2>1, <2>2, <2>3, <2>4 DEF Pass!Sweep, Pass!GiveUp, Waiting
  <2> QED BY <2>2, <2>5 DEF Moves, Pass!Next
<1>7. ASSUME NEW w \in Workers, GetFile(w) PROVE OnePlace' /\ Moves
  <2> DEFINE f == queue[1]
  <2>1. /\ f \in Files /\ worker' = [worker EXCEPT ![w] = f]
        /\ UNCHANGED <<next, requested, fetched, inHand, settled, verdict>>
        /\ worker[w] = "get" /\ worker \in [Workers -> Files \cup {"get", "exited", "crashed"}]
    BY <1>7, <1>q, TailType DEF GetFile, scmVars, runVars, TypeOK
  <2>2. /\ queue' \in Seq(Files \cup {Sentinel})
        /\ Len(queue) \in Nat \ {0} /\ Len(queue') = Len(queue) - 1
        /\ \A i \in 1..Len(queue') : queue'[i] = queue[i + 1]
    BY <1>7, <1>q, TailType DEF GetFile
  <2>3. QueuedOnce'
    <3> SUFFICES ASSUME NEW i \in 1..Len(queue'), NEW j \in 1..Len(queue'),
                        queue'[i] \in Files, queue'[i] = queue'[j]
                 PROVE  i = j
      BY DEF QueuedOnce
    <3>1. i + 1 \in 1..Len(queue) /\ j + 1 \in 1..Len(queue)
      BY <2>2
    <3>2. i + 1 = j + 1
      BY <2>2, <3>1 DEF OnePlace, QueuedOnce
    <3> QED BY <3>2
  <2>4. f \in Queued /\ Queued' = Queued \ {f}
    <3>1. \A i \in 1..Len(queue) : i = 1 \/ (i - 1 \in 1..Len(queue') /\ queue'[i - 1] = queue[i])
      BY <2>2
    <3>2. \A i \in 1..Len(queue') : i + 1 \in 1..Len(queue) /\ i + 1 # 1
      BY <2>2
    <3>3. 1 \in 1..Len(queue) /\ DOMAIN queue' = 1..Len(queue')
      BY <2>2
    <3>4. \A i \in 1..Len(queue') : queue'[i] # f
      BY <2>1, <2>2, <3>2, <3>3 DEF OnePlace, QueuedOnce
    <3>5. ASSUME NEW g \in Queued' PROVE g \in Queued \ {f}
      <4>1. PICK i \in 1..Len(queue') : queue'[i] = g
        BY <3>3, <3>5 DEF Queued
      <4>2. g = queue[i + 1] /\ g \in Files
        BY <2>2, <3>5, <4>1 DEF Queued
      <4> QED BY <1>d, <3>2, <3>4, <4>1, <4>2 DEF Queued
    <3>6. ASSUME NEW g \in Queued, g # f PROVE g \in Queued'
      <4>1. PICK i \in 1..Len(queue) : queue[i] = g
        BY <1>d, <3>6 DEF Queued
      <4>2. i - 1 \in 1..Len(queue') /\ queue'[i - 1] = g /\ g \in Files
        BY <3>1, <3>6, <4>1 DEF Queued
      <4> QED BY <3>3, <4>2 DEF Queued
    <3>7. f \in Queued
      BY <1>d, <2>1, <3>3 DEF Queued
    <3> QED BY <3>5, <3>6, <3>7
  <2>5. f \notin Working /\ Working' = Working \cup {f}
    <3>1. f \notin Working
      BY <2>4 DEF OnePlace, Apart
    <3> QED BY <2>1, <3>1, ConstantTypes DEF Working
  <2>6. WorkedOnce'
    BY <2>1, <2>5 DEF OnePlace, WorkedOnce, Working
  <2>7. Unstreamed' = Unstreamed
    BY <2>1 DEF Unstreamed
  <2>8. Apart' /\ f \in Waiting /\ Waiting' = Waiting \ {f}
    BY <2>1, <2>4, <2>5, <2>7 DEF OnePlace, Apart, Waiting, Undelivered
  <2> HIDE DEF f
  <2>9. Pass!Take(f)
    BY <2>1, <2>5, <2>8 DEF Pass!Take, Waiting
  <2> QED BY <2>1, <2>3, <2>6, <2>8, <2>9 DEF OnePlace, Moves, Pass!Next
<1>8. ASSUME NEW w \in Workers, GetSentinel(w) PROVE OnePlace' /\ Moves
  <2>1. /\ queue[1] = Sentinel /\ worker' = [worker EXCEPT ![w] = "exited"]
        /\ UNCHANGED <<next, requested, fetched, inHand, settled, verdict>>
        /\ worker[w] = "get" /\ worker \in [Workers -> Files \cup {"get", "exited", "crashed"}]
    BY <1>8, <1>q, TailType DEF GetSentinel, scmVars, runVars, TypeOK
  <2>2. /\ Len(queue) \in Nat \ {0} /\ Len(queue') = Len(queue) - 1
        /\ queue' \in Seq(Files \cup {Sentinel})
        /\ \A i \in 1..Len(queue') : queue'[i] = queue[i + 1]
    BY <1>8, <1>q, TailType DEF GetSentinel
  <2>3. \A i \in 1..Len(queue) : queue[i] = Sentinel
    BY <2>1, <2>2 DEF SweepInv, FilesFirst
  <2>4. \A i \in 1..Len(queue') : queue'[i] = Sentinel
    BY <2>2, <2>3
  <2>5. Queued = {} /\ Queued' = {} /\ QueuedOnce'
    BY <1>d, <2>2, <2>3, <2>4, ConstantTypes DEF Queued, QueuedOnce
  <2>6. Working' = Working /\ WorkedOnce'
    BY <2>1, ConstantTypes DEF Working, OnePlace, WorkedOnce
  <2>7. Unstreamed' = Unstreamed
    BY <2>1 DEF Unstreamed
  <2>8. Apart' /\ Waiting' = Waiting
    BY <2>1, <2>5, <2>6, <2>7 DEF OnePlace, Apart, Waiting, Undelivered
  <2>9. Moves
    BY <2>1, <2>6, <2>8 DEF Moves, Waiting, Pass!passVars
  <2> QED BY <2>5, <2>6, <2>8, <2>9 DEF OnePlace
<1>9. ASSUME NEW w \in Workers, FinishFile(w) \/ CrashWorker(w) PROVE OnePlace' /\ Moves
  <2> DEFINE f == worker[w]
  <2>1. PICK x \in {"get", "crashed"} :
          /\ f \in Files /\ worker' = [worker EXCEPT ![w] = x]
          /\ UNCHANGED <<next, requested, fetched, inHand, queue, verdict>>
          /\ settled' = settled \cup {f} \/ settled' = settled
    BY <1>9 DEF FinishFile, CrashWorker, TaskDone, Busy, scmVars, runVars
  <2>2. worker \in [Workers -> Files \cup {"get", "exited", "crashed"}] /\ x \notin Files
    BY ConstantTypes DEF TypeOK
  <2>3. f \in Working /\ Working' = Working \ {f} /\ WorkedOnce'
    BY <2>1, <2>2 DEF OnePlace, WorkedOnce, Working
  <2>4. UNCHANGED <<Unstreamed, Queued>> /\ QueuedOnce'
    BY <2>1 DEF Unstreamed, Queued, OnePlace, QueuedOnce
  <2>5. Apart' /\ Waiting' = Waiting
    BY <2>1, <2>3, <2>4 DEF OnePlace, Apart, Waiting, Undelivered
  <2> HIDE DEF f
  <2>6. Pass!Settle(f) \/ Pass!Lose(f)
    BY <2>1, <2>3, <2>5 DEF Pass!Settle, Pass!Lose, Waiting
  <2> QED BY <2>1, <2>3, <2>4, <2>5, <2>6 DEF OnePlace, Moves, Pass!Next
<1>10. CASE UNCHANGED vars
  <2>1. UNCHANGED <<next, requested, fetched, inHand, queue, worker, settled, verdict>>
    BY <1>10 DEF vars, scmVars, queueVars, runVars
  <2> QED BY <2>1, PlaceKept, Stutters
<1> QED
  BY <1>1, <1>2, <1>3, <1>4, <1>5, <1>6, <1>7, <1>8, <1>9, <1>10
  DEF Next, FetchStep, ProducerStep, WorkerStep

(* Every behaviour of the pipeline is a pass: each file is taken once, and *)
(* the sweep comes after all of them, for every listing and pool.          *)
THEOREM PassImplemented == Spec => ImplementsPass
BY TypeCorrect, SweepInit, SweepStep, OnePlaceInit, OnePlaceStep, PTL
   DEF Spec, ImplementsPass, Moves, Pass!Spec
=============================================================================
