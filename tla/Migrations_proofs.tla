------------------------- MODULE Migrations_proofs --------------------------
(***************************************************************************)
(* Proofs about Migrations, for any number of replicas, migrations, file   *)
(* contents and restarts: although the advisory lock is released before    *)
(* the commit, the primary key and the order of the loop keep the schema   *)
(* a prefix of the migrations, each applied once.                          *)
(***************************************************************************)
EXTENDS Migrations, TLAPS

USE MigrationsAssumption

(* Rows only accumulate: what a replica read is still there. *)
StillRecorded ==
  \A r \in Replicas, m \in Migration :
    recorded[r][m] # None => table[m] = recorded[r][m]

(* A replica inserts its own files ... *)
OwnFiles ==
  \A r \in Replicas, m \in Migration :
    inserted[r][m] # None => inserted[r][m] = file[r][m]

(* ... and none before those below it are applied. *)
InOrder ==
  \A r \in Replicas : \A m \in Have(inserted[r]) : \A k \in 1..m :
    table[k] # None \/ inserted[r][k] # None

(* Past the check, what it read agrees with its files ... *)
Verified ==
  \A r \in Replicas :
    pc[r] \in {"apply", "unlock", "close"} /\ good[r]
      => \A m \in Have(file[r]) \cap Have(recorded[r]) : recorded[r][m] = file[r][m]

(* ... and past the loop nothing is left to apply. *)
LoopDone ==
  \A r \in Replicas : pc[r] \in {"unlock", "close"} /\ good[r] => Pending(r) = {}

Inv ==
  /\ TypeOK
  /\ AppliedOnce
  /\ NoGaps
  /\ StillRecorded
  /\ OwnFiles
  /\ InOrder
  /\ Verified
  /\ LoopDone
  /\ ReturnsMigrated

LEMMA EmptyRows == Empty \in Rows /\ Have(Empty) = {}
BY DEF Empty, Rows, Have

LEMMA InvInit == Init => Inv
<1> SUFFICES ASSUME Init PROVE Inv
  OBVIOUS
<1>1. TypeOK
  BY EmptyRows DEF Init, TypeOK, Stages
<1>2. AppliedOnce /\ NoGaps /\ StillRecorded /\ OwnFiles /\ InOrder
  BY DEF Init, AppliedOnce, NoGaps, StillRecorded, OwnFiles, InOrder, Have, Empty
<1>3. Verified /\ LoopDone /\ ReturnsMigrated
  BY DEF Init, Verified, LoopDone, ReturnsMigrated
<1> QED
  BY <1>1, <1>2, <1>3 DEF Inv

LEMMA TypeStep == TypeOK /\ [Next]_vars => TypeOK'
<1> SUFFICES ASSUME TypeOK, [Next]_vars PROVE TypeOK'
  OBVIOUS
<1>1. CASE UNCHANGED vars
  BY <1>1 DEF vars, TypeOK
<1>2. ASSUME NEW r \in Replicas, Begin(r)
      PROVE  TypeOK'
  BY <1>2 DEF Begin, Goto, TypeOK, Stages
<1>3. ASSUME NEW r \in Replicas, Acquire(r)
      PROVE  TypeOK'
  BY <1>3 DEF Acquire, Goto, TypeOK, Stages
<1>4. ASSUME NEW r \in Replicas, Read(r)
      PROVE  TypeOK'
  BY <1>4 DEF Read, Goto, TypeOK, Stages, Edited
<1>5. ASSUME NEW r \in Replicas, Apply(r)
      PROVE  TypeOK'
  <2>1. PICK m \in Due(r) :
          \/ /\ good' = [good EXCEPT ![r] = FALSE]
             /\ pc' = [pc EXCEPT ![r] = "unlock"]
             /\ inserted' = inserted
          \/ /\ inserted' = [inserted EXCEPT ![r][m] = file[r][m]]
             /\ good' = good /\ pc' = pc
    BY <1>5 DEF Apply, Goto
  <2>2. m \in Migration /\ file[r][m] \in Checksums \cup {None}
    BY DEF Due, Pending, Have, TypeOK, Image, Rows
  <2>3. inserted[r] \in Rows /\ [inserted[r] EXCEPT ![m] = file[r][m]] \in Rows
    BY <2>2 DEF TypeOK, Rows
  <2>4. inserted' \in [Replicas -> Rows]
    BY <2>1, <2>3 DEF TypeOK
  <2> QED
    BY <1>5, <2>1, <2>4 DEF Apply, TypeOK, Stages
<1>6. ASSUME NEW r \in Replicas, NothingPending(r)
      PROVE  TypeOK'
  BY <1>6 DEF NothingPending, Goto, TypeOK, Stages
<1>7. ASSUME NEW r \in Replicas, Unlock(r)
      PROVE  TypeOK'
  BY <1>7 DEF Unlock, Goto, TypeOK, Stages
<1>8. ASSUME NEW r \in Replicas, Close(r)
      PROVE  TypeOK'
  <2>1. table' \in Rows
    BY <1>8 DEF Close, TypeOK, Rows
  <2> QED
    BY <1>8, <2>1, EmptyRows DEF Close, Goto, TypeOK, Stages
<1>9. ASSUME NEW r \in Replicas, Restart(r)
      PROVE  TypeOK'
  BY <1>9, EmptyRows DEF Restart, Goto, TypeOK, Stages
<1> QED
  BY <1>1, <1>2, <1>3, <1>4, <1>5, <1>6, <1>7, <1>8, <1>9 DEF Next, Step

LEMMA InvStep == Inv /\ [Next]_vars => Inv'
<1> SUFFICES ASSUME Inv, [Next]_vars PROVE Inv'
  OBVIOUS
<1>t. TypeOK /\ TypeOK'
  BY TypeStep DEF Inv
<1>h. \A rows, m : m \in Have(rows) <=> m \in Migration /\ rows[m] # None
  BY DEF Have
<1>1. CASE UNCHANGED vars
  BY <1>1 DEF vars, Inv, TypeOK, AppliedOnce, NoGaps, StillRecorded, OwnFiles, InOrder,
              Verified, LoopDone, Pending, ReturnsMigrated
(* Steps that leave every row where it was. *)
<1>2. ASSUME NEW r \in Replicas, Begin(r) \/ Acquire(r) \/ NothingPending(r) \/ Unlock(r)
      PROVE  Inv'
  <2>1. /\ UNCHANGED <<file, table, inserted, recorded, good>>
        /\ \A q \in Replicas \ {r} : pc'[q] = pc[q]
        /\ pc'[r] = "over" => Have(file[r]) = {}
        /\ pc'[r] # "apply"
        /\ pc'[r] = "close" => pc[r] = "unlock"
        /\ pc'[r] = "unlock" => pc[r] = "apply" /\ Pending(r) = {}
    BY <1>2, <1>t DEF Begin, Acquire, NothingPending, Unlock, Goto, TypeOK
  <2>2. AppliedOnce' /\ NoGaps' /\ StillRecorded' /\ OwnFiles' /\ InOrder'
    BY <2>1 DEF Inv, AppliedOnce, NoGaps, StillRecorded, OwnFiles, InOrder
  <2>3. Verified'
    BY <2>1 DEF Inv, Verified
  <2>4. LoopDone'
    BY <2>1 DEF Inv, LoopDone, Pending
  <2>5. ReturnsMigrated'
    BY <2>1 DEF Inv, ReturnsMigrated
  <2> QED
    BY <1>t, <2>2, <2>3, <2>4, <2>5 DEF Inv
<1>3. ASSUME NEW r \in Replicas, Read(r)
      PROVE  Inv'
  <2>1. /\ UNCHANGED <<file, table, inserted>>
        /\ \A q \in Replicas \ {r} :
             pc'[q] = pc[q] /\ recorded'[q] = recorded[q] /\ good'[q] = good[q]
        /\ recorded'[r] = table
        /\ pc'[r] \in {"apply", "unlock"}
        /\ pc'[r] = "unlock" => ~good'[r]
        /\ good'[r] => ~Edited(r)
    BY <1>3, <1>t DEF Read, Goto, TypeOK
  <2>2. AppliedOnce' /\ NoGaps' /\ OwnFiles' /\ InOrder'
    BY <2>1 DEF Inv, AppliedOnce, NoGaps, OwnFiles, InOrder
  <2>3. StillRecorded'
    BY <2>1 DEF Inv, StillRecorded
  <2>4. Verified'
    BY <2>1 DEF Inv, Verified, Edited
  <2>5. LoopDone'
    BY <2>1 DEF Inv, LoopDone, Pending
  <2>6. ReturnsMigrated'
    BY <2>1 DEF Inv, ReturnsMigrated
  <2> QED
    BY <1>t, <2>2, <2>3, <2>4, <2>5, <2>6 DEF Inv
<1>4. ASSUME NEW r \in Replicas, Apply(r)
      PROVE  Inv'
  <2>1. PICK m \in Due(r) :
          /\ ~Blocked(r, m)
          /\ IF Rejected(r, m)
             THEN /\ good' = [good EXCEPT ![r] = FALSE]
                  /\ pc' = [pc EXCEPT ![r] = "unlock"]
                  /\ inserted' = inserted
             ELSE /\ inserted' = [inserted EXCEPT ![r][m] = file[r][m]]
                  /\ good' = good /\ pc' = pc
    BY <1>4 DEF Apply, Goto
  <2>2. UNCHANGED <<file, table, recorded>> /\ pc[r] = "apply"
    BY <1>4 DEF Apply
  <2>3. CASE Rejected(r, m)
    <3>1. /\ inserted' = inserted
          /\ \A q \in Replicas \ {r} : pc'[q] = pc[q] /\ good'[q] = good[q]
          /\ ~good'[r]
      BY <2>1, <2>3, <1>t DEF TypeOK
    <3>2. AppliedOnce' /\ NoGaps' /\ StillRecorded' /\ OwnFiles' /\ InOrder'
      BY <2>2, <3>1 DEF Inv, AppliedOnce, NoGaps, StillRecorded, OwnFiles, InOrder
    <3>3. Verified' /\ LoopDone' /\ ReturnsMigrated'
      BY <2>2, <3>1 DEF Inv, Verified, LoopDone, Pending, ReturnsMigrated
    <3> QED
      BY <1>t, <3>2, <3>3 DEF Inv
  <2>4. CASE ~Rejected(r, m)
    <3>1. /\ pc' = pc /\ good' = good
          /\ \A q \in Replicas \ {r} : inserted'[q] = inserted[q]
          /\ inserted'[r][m] = file[r][m]
          /\ \A k \in Migration \ {m} : inserted'[r][k] = inserted[r][k]
          /\ m \in Migration /\ file[r][m] # None /\ table[m] = None
          /\ \A q \in Replicas \ {r} : inserted[q][m] = None
      BY <2>1, <2>4, <1>t DEF TypeOK, Rows, Due, Pending, Have, Blocked, Rejected
    <3>2. \A q \in Replicas : \A k \in Have(inserted'[q]) :
            k \in Have(inserted[q]) \/ (q = r /\ k = m)
      BY <3>1, <1>h
    <3>3. AppliedOnce'
      BY <2>2, <3>1, <3>2, <1>h DEF Inv, AppliedOnce
    <3>4. NoGaps' /\ StillRecorded'
      BY <2>2 DEF Inv, NoGaps, StillRecorded
    <3>5. OwnFiles'
      BY <2>2, <3>1 DEF Inv, OwnFiles
    <3>6. ASSUME NEW k \in 1..m
          PROVE  table[k] # None \/ inserted'[r][k] # None
      <4>1. k \in Have(file[r]) /\ k \in Migration /\ k <= m
        BY <3>1, <3>6, <1>t, <1>h DEF TypeOK, Image, Migration
      <4>2. CASE k = m
        BY <3>1, <4>2
      <4>3. CASE k # m
        <5>1. k \notin Pending(r)
          BY <4>1, <4>3, <2>1, <3>1 DEF Due, Migration
        <5>2. recorded[r][k] # None \/ inserted[r][k] # None
          BY <4>1, <5>1 DEF Pending
        <5> QED
          BY <3>1, <4>1, <4>3, <5>2 DEF Inv, StillRecorded
      <4> QED
        BY <4>2, <4>3
    <3>7. InOrder'
      <4>1. ASSUME NEW q \in Replicas, NEW n \in Have(inserted'[q]), NEW k \in 1..n
            PROVE  table[k] # None \/ inserted'[q][k] # None
        <5>1. CASE q = r /\ n = m
          BY <3>6, <5>1
        <5>2. CASE n \in Have(inserted[q])
          <6>1. table[k] # None \/ inserted[q][k] # None
            BY <5>2 DEF Inv, InOrder
          <6>2. k \in Migration
            BY <5>2, <1>h DEF Migration
          <6> QED
            BY <3>1, <6>1, <6>2
        <5> QED
          BY <3>2, <5>1, <5>2
      <4> QED
        BY <2>2, <4>1 DEF InOrder
    <3>8. Verified' /\ ReturnsMigrated'
      BY <2>2, <3>1 DEF Inv, Verified, ReturnsMigrated
    <3>9. LoopDone'
      <4>1. ASSUME NEW q \in Replicas, pc[q] \in {"unlock", "close"}
            PROVE  Pending(q)' = Pending(q)
        BY <4>1, <2>2, <3>1 DEF Pending
      <4> QED
        BY <2>2, <3>1, <4>1 DEF Inv, LoopDone
    <3> QED
      BY <1>t, <3>3, <3>4, <3>5, <3>7, <3>8, <3>9 DEF Inv
  <2> QED
    BY <2>3, <2>4
<1>5. ASSUME NEW r \in Replicas, Close(r)
      PROVE  Inv'
  <2>1. /\ UNCHANGED <<file, recorded, good>> /\ pc[r] = "close"
        /\ \A q \in Replicas \ {r} : pc'[q] = pc[q] /\ inserted'[q] = inserted[q]
        /\ inserted'[r] = Empty /\ pc'[r] = "over"
        /\ ~good[r] => table' = table
        /\ good[r] => \A m \in Migration :
             table'[m] = IF inserted[r][m] # None THEN inserted[r][m] ELSE table[m]
    BY <1>5, <1>t DEF Close, Goto, TypeOK
  <2>2. \A m \in Migration : table[m] # None => table'[m] = table[m]
    BY <2>1, <1>h DEF Inv, AppliedOnce
  <2>3. \A m \in Have(table') : m \in Have(table) \/ (good[r] /\ m \in Have(inserted[r]))
    BY <2>1, <1>h
  <2>4. AppliedOnce'
    <3>1. ASSUME NEW q \in Replicas, NEW m \in Have(inserted'[q])
          PROVE  table'[m] = None /\ \A p \in Replicas \ {q} : inserted'[p][m] = None
      <4>1. q # r /\ m \in Have(inserted[q]) /\ m \in Migration
        BY <3>1, <2>1, <1>h, EmptyRows
      <4>2. table[m] = None /\ \A p \in Replicas \ {q} : inserted[p][m] = None
        BY <4>1 DEF Inv, AppliedOnce
      <4>3. table'[m] = None
        BY <4>1, <4>2, <2>1
      <4> QED
        BY <4>1, <4>2, <4>3, <2>1 DEF Empty
    <3> QED
      BY <3>1 DEF AppliedOnce
  <2>5. NoGaps'
    <3>1. ASSUME NEW m \in Have(table'), NEW k \in 1..m
          PROVE  k \in Have(table')
      <4>1. k \in Migration
        BY <3>1, <1>h DEF Migration
      <4>2. CASE m \in Have(table)
        BY <4>1, <4>2, <2>2, <1>h DEF Inv, NoGaps
      <4>3. CASE good[r] /\ m \in Have(inserted[r])
        <5>1. table[k] # None \/ inserted[r][k] # None
          BY <4>3 DEF Inv, InOrder
        <5> QED
          BY <4>1, <4>3, <5>1, <2>1, <2>2, <1>h
      <4> QED
        BY <2>3, <4>2, <4>3
    <3> QED
      BY <3>1 DEF NoGaps
  <2>6. StillRecorded'
    BY <2>1, <2>2 DEF Inv, StillRecorded
  <2>7. OwnFiles'
    BY <2>1 DEF Inv, OwnFiles, Empty
  <2>8. InOrder'
    <3>1. ASSUME NEW q \in Replicas, NEW m \in Have(inserted'[q]), NEW k \in 1..m
          PROVE  table'[k] # None \/ inserted'[q][k] # None
      <4>1. q # r /\ m \in Have(inserted[q]) /\ k \in Migration
        BY <3>1, <2>1, <1>h, EmptyRows DEF Migration
      <4>2. table[k] # None \/ inserted[q][k] # None
        BY <4>1, <3>1 DEF Inv, InOrder
      <4> QED
        BY <4>1, <4>2, <2>1, <2>2
    <3> QED
      BY <3>1 DEF InOrder
  <2>9. Verified'
    BY <2>1 DEF Inv, Verified
  <2>10. LoopDone'
    <3>1. \A q \in Replicas \ {r} : Pending(q)' = Pending(q)
      BY <2>1 DEF Pending
    <3> QED
      BY <2>1, <3>1 DEF Inv, LoopDone
  <2>11. ReturnsMigrated'
    <3>1. ASSUME NEW q \in Replicas, pc'[q] = "over", good[q], NEW m \in Have(file[q])
          PROVE  table'[m] = file[q][m]
      <4>0. m \in Migration /\ file[q][m] # None
        BY <1>h
      <4>1. CASE q # r
        BY <3>1, <4>0, <4>1, <2>1, <2>2 DEF Inv, ReturnsMigrated
      <4>2. CASE q = r
        <5>1. recorded[r][m] # None \/ inserted[r][m] # None
          BY <3>1, <4>0, <4>2, <2>1, <1>h DEF Inv, LoopDone, Pending
        <5>2. CASE inserted[r][m] # None
          BY <3>1, <4>0, <4>2, <5>2, <2>1 DEF Inv, OwnFiles
        <5>3. CASE recorded[r][m] # None
          <6>1. recorded[r][m] = file[r][m]
            BY <3>1, <4>0, <4>2, <5>3, <2>1, <1>h DEF Inv, Verified
          <6> QED
            BY <4>0, <4>2, <5>3, <6>1, <2>2 DEF Inv, StillRecorded
        <5> QED
          BY <5>1, <5>2, <5>3
      <4> QED
        BY <4>1, <4>2
    <3> QED
      BY <2>1, <3>1 DEF ReturnsMigrated
  <2> QED
    BY <1>t, <2>4, <2>5, <2>6, <2>7, <2>8, <2>9, <2>10, <2>11 DEF Inv
<1>6. ASSUME NEW r \in Replicas, Restart(r)
      PROVE  Inv'
  <2>1. /\ table' = table
        /\ \A q \in Replicas \ {r} :
             /\ pc'[q] = pc[q] /\ good'[q] = good[q] /\ file'[q] = file[q]
             /\ inserted'[q] = inserted[q] /\ recorded'[q] = recorded[q]
        /\ pc'[r] = "start" /\ inserted'[r] = Empty /\ recorded'[r] = Empty
    BY <1>6, <1>t DEF Restart, Goto, TypeOK
  <2>2. \A q \in Replicas : Have(inserted'[q]) \subseteq Have(inserted[q])
    BY <2>1, EmptyRows
  <2>3. AppliedOnce'
    <3>1. ASSUME NEW q \in Replicas, NEW m \in Have(inserted'[q])
          PROVE  table'[m] = None /\ \A p \in Replicas \ {q} : inserted'[p][m] = None
      <4>1. m \in Have(inserted[q]) /\ m \in Migration
        BY <2>2, <1>h
      <4> QED
        BY <4>1, <2>1 DEF Inv, AppliedOnce, Empty
    <3> QED
      BY <3>1 DEF AppliedOnce
  <2>4. NoGaps'
    BY <2>1 DEF Inv, NoGaps
  <2>5. StillRecorded' /\ OwnFiles'
    BY <2>1 DEF Inv, StillRecorded, OwnFiles, Empty
  <2>6. InOrder'
    <3>1. \A q \in Replicas : \A m \in Have(inserted'[q]) : q # r
      BY <2>1, EmptyRows
    <3> QED
      BY <2>1, <2>2, <3>1 DEF Inv, InOrder
  <2>7. Verified' /\ ReturnsMigrated'
    BY <2>1 DEF Inv, Verified, ReturnsMigrated
  <2>8. LoopDone'
    <3>1. \A q \in Replicas \ {r} : Pending(q)' = Pending(q)
      BY <2>1 DEF Pending
    <3> QED
      BY <2>1, <3>1 DEF Inv, LoopDone
  <2> QED
    BY <1>t, <2>3, <2>4, <2>5, <2>6, <2>7, <2>8 DEF Inv
<1> QED
  BY <1>1, <1>2, <1>3, <1>4, <1>5, <1>6 DEF Next, Step

LEMMA Invariant == Spec => []Inv
BY InvInit, InvStep, PTL DEF Spec

(* Every variable of Migrations keeps its type. *)
THEOREM TypeCorrect == Spec => []TypeOK
<1>1. Inv => TypeOK
  BY DEF Inv
<1> QED
  BY Invariant, <1>1, PTL

(* No migration is applied twice, whatever the overlap of the replicas. *)
THEOREM NeverAppliedTwice == Spec => []AppliedOnce
<1>1. Inv => AppliedOnce
  BY DEF Inv
<1> QED
  BY Invariant, <1>1, PTL

(* The committed schema is a prefix of the migrations. *)
THEOREM SchemaIsPrefix == Spec => []NoGaps
<1>1. Inv => NoGaps
  BY DEF Inv
<1> QED
  BY Invariant, <1>1, PTL

(* apply_all returns only when every file on disk is applied as it is. *)
THEOREM ReturnMeansMigrated == Spec => []ReturnsMigrated
<1>1. Inv => ReturnsMigrated
  BY DEF Inv
<1> QED
  BY Invariant, <1>1, PTL
=============================================================================
