----------------------------- MODULE Migrations -----------------------------
(***************************************************************************)
(* apply_all of opsrag/db/migrate.py, run by every API replica and every   *)
(* indexing job as it starts, against one Postgres.                        *)
(*                                                                         *)
(* All callers open their pools with autocommit off, so the call that      *)
(* takes the advisory lock also opens a transaction, each "async with      *)
(* lock_conn.transaction()" inside it is a savepoint, and the rows become  *)
(* visible to others when pool.connection() commits, which is after the    *)
(* finally block has released the lock.                                    *)
(*                                                                         *)
(* A migration is its place in the lexical order.  The schema objects it   *)
(* creates are committed or lost with its row, so the row stands for both. *)
(***************************************************************************)
EXTENDS Naturals

CONSTANTS Replicas,     \* the processes that run apply_all
          N,            \* the number of migrations ever written
          Checksums,    \* contents of a migration file
          Broken,       \* those whose SQL raises
          None,         \* no file, no row, nobody
          MaxRestarts   \* bound on crashes, restarts and redeployments

ASSUME MigrationsAssumption ==
  /\ N \in Nat
  /\ Broken \subseteq Checksums
  /\ None \notin Checksums \cup Replicas
  /\ MaxRestarts \in Nat

Migration == 1..N
Rows == [Migration -> Checksums \cup {None}]
Empty == [m \in Migration |-> None]

VARIABLES file,      \* file[r]: the .sql files of the image r runs
          table,     \* opsrag_schema_migrations, as committed
          inserted,  \* inserted[r]: rows in the open transaction of r
          recorded,  \* recorded[r]: what r read inside the lock
          holder,    \* who holds the advisory lock
          pc,        \* where apply_all is
          good,      \* good[r]: apply_all has not raised
          restarts   \* crashes and restarts so far (bound)

vars == <<file, table, inserted, recorded, holder, pc, good, restarts>>

Stages == {"start", "lock", "read", "apply", "unlock", "close", "over"}

Have(rows) == {m \in Migration : rows[m] # None}

(* discover_migrations: an image carries the migrations written so far. *)
Image == {rows \in Rows : \A m \in Have(rows) : 1..m \subseteq Have(rows)}

(* Mutant of Init: discover_migrations leaves out a file it cannot read.   *)
InitSkipsFile ==
  /\ file \in [Replicas -> Rows]
  /\ table = Empty
  /\ inserted = [r \in Replicas |-> Empty]
  /\ recorded = [r \in Replicas |-> Empty]
  /\ holder = None
  /\ pc = [r \in Replicas |-> "start"]
  /\ good = [r \in Replicas |-> TRUE]
  /\ restarts = 0

Init ==
  /\ file \in [Replicas -> Image]
  /\ table = Empty
  /\ inserted = [r \in Replicas |-> Empty]
  /\ recorded = [r \in Replicas |-> Empty]
  /\ holder = None
  /\ pc = [r \in Replicas |-> "start"]
  /\ good = [r \in Replicas |-> TRUE]
  /\ restarts = 0

Goto(r, stage) == pc' = [pc EXCEPT ![r] = stage]

-----------------------------------------------------------------------------
(* ensure_migrations_table has run in a transaction of its own; the next   *)
(* statement opens the transaction and asks for the lock.                  *)
Begin(r) ==
  /\ pc[r] = "start"
  /\ Goto(r, IF Have(file[r]) = {} THEN "over" ELSE "lock")
  /\ UNCHANGED <<file, table, inserted, recorded, holder, good, restarts>>

(* pg_advisory_lock *)
Acquire(r) ==
  /\ pc[r] = "lock"
  /\ holder = None
  /\ holder' = r
  /\ Goto(r, "read")
  /\ UNCHANGED <<file, table, inserted, recorded, good, restarts>>

(* _verify_checksums: an applied file was edited. *)
Edited(r) ==
  \E m \in Have(file[r]) \cap Have(table) : table[m] # file[r][m]

(* Mutant of Read: the checksums are not verified. *)
ReadUnverified(r) ==
  /\ pc[r] = "read"
  /\ recorded' = [recorded EXCEPT ![r] = table]
  /\ UNCHANGED good
  /\ Goto(r, "apply")
  /\ UNCHANGED <<file, table, inserted, holder, restarts>>

(* The applied set is read again inside the lock, and verified. *)
Read(r) ==
  /\ pc[r] = "read"
  /\ recorded' = [recorded EXCEPT ![r] = table]
  /\ good' = [good EXCEPT ![r] = ~Edited(r)]
  /\ Goto(r, IF Edited(r) THEN "unlock" ELSE "apply")
  /\ UNCHANGED <<file, table, inserted, holder, restarts>>

(* The loop over the pending migrations. *)
Pending(r) ==
  {m \in Have(file[r]) : recorded[r][m] = None /\ inserted[r][m] = None}

(* The one whose turn it is. *)
Due(r) == {m \in Pending(r) : \A k \in Pending(r) : m <= k}

(* An uncommitted row of another transaction blocks the insert. *)
Blocked(r, m) == \E q \in Replicas \ {r} : inserted[q][m] # None

(* The SQL raises, or the primary key is taken. *)
Rejected(r, m) == file[r][m] \in Broken \/ table[m] # None

(* Mutant of Apply: a row that is already there is no error, as with       *)
(* INSERT ... ON CONFLICT DO UPDATE.                                       *)
ApplyAgain(r) ==
  /\ pc[r] = "apply"
  /\ \E m \in Due(r) :
       /\ ~Blocked(r, m)
       /\ IF file[r][m] \in Broken
          THEN /\ good' = [good EXCEPT ![r] = FALSE]
               /\ Goto(r, "unlock")
               /\ UNCHANGED inserted
          ELSE /\ inserted' = [inserted EXCEPT ![r][m] = file[r][m]]
               /\ UNCHANGED <<good, pc>>
  /\ UNCHANGED <<file, table, recorded, holder, restarts>>

(* Mutant of Apply: the migrations are taken in any order, and one that    *)
(* fails ends the run without an exception.                                *)
ApplyUnordered(r) ==
  /\ pc[r] = "apply"
  /\ \E m \in Pending(r) :
       /\ ~Blocked(r, m)
       /\ IF Rejected(r, m)
          THEN Goto(r, "unlock") /\ UNCHANGED <<good, inserted>>
          ELSE /\ inserted' = [inserted EXCEPT ![r][m] = file[r][m]]
               /\ UNCHANGED <<good, pc>>
  /\ UNCHANGED <<file, table, recorded, holder, restarts>>

(* One migration: its SQL and its row, in a savepoint.  An exception goes  *)
(* on to the finally block, out of apply_all, and rolls everything back.   *)
Apply(r) ==
  /\ pc[r] = "apply"
  /\ \E m \in Due(r) :
       /\ ~Blocked(r, m)
       /\ IF Rejected(r, m)
          THEN /\ good' = [good EXCEPT ![r] = FALSE]
               /\ Goto(r, "unlock")
               /\ UNCHANGED inserted
          ELSE /\ inserted' = [inserted EXCEPT ![r][m] = file[r][m]]
               /\ UNCHANGED <<good, pc>>
  /\ UNCHANGED <<file, table, recorded, holder, restarts>>

NothingPending(r) ==
  /\ pc[r] = "apply"
  /\ Pending(r) = {}
  /\ Goto(r, "unlock")
  /\ UNCHANGED <<file, table, inserted, recorded, holder, good, restarts>>

(* Mutant of Unlock: the lock is released on success only. *)
UnlockOnSuccess(r) ==
  /\ pc[r] = "unlock"
  /\ holder' = IF good[r] THEN None ELSE holder
  /\ Goto(r, "close")
  /\ UNCHANGED <<file, table, inserted, recorded, good, restarts>>

(* finally: pg_advisory_unlock *)
Unlock(r) ==
  /\ pc[r] = "unlock"
  /\ holder' = None
  /\ Goto(r, "close")
  /\ UNCHANGED <<file, table, inserted, recorded, good, restarts>>

(* pool.connection() commits, or rolls back under an exception. *)
Close(r) ==
  /\ pc[r] = "close"
  /\ table' = IF good[r]
              THEN [m \in Migration |->
                      IF inserted[r][m] # None THEN inserted[r][m] ELSE table[m]]
              ELSE table
  /\ inserted' = [inserted EXCEPT ![r] = Empty]
  /\ Goto(r, "over")
  /\ UNCHANGED <<file, recorded, holder, good, restarts>>

(* A process dies, or ends, and starts again, with the same image or       *)
(* another.  Postgres rolls its transaction back and drops its lock.       *)
Restart(r) ==
  /\ pc[r] # "start"
  /\ restarts < MaxRestarts
  /\ restarts' = restarts + 1
  /\ \E image \in Image : file' = [file EXCEPT ![r] = image]
  /\ inserted' = [inserted EXCEPT ![r] = Empty]
  /\ recorded' = [recorded EXCEPT ![r] = Empty]
  /\ holder' = IF holder = r THEN None ELSE holder
  /\ good' = [good EXCEPT ![r] = TRUE]
  /\ Goto(r, "start")
  /\ UNCHANGED table

-----------------------------------------------------------------------------
Step(r) ==
  \/ Begin(r)
  \/ Acquire(r)
  \/ Read(r)
  \/ Apply(r)
  \/ NothingPending(r)
  \/ Unlock(r)
  \/ Close(r)

Next == \E r \in Replicas : Step(r) \/ Restart(r)

Spec == Init /\ [][Next]_vars

(* Postgres answers, and a waiter gets the lock once it is free. *)
FairSpec == Spec /\ \A r \in Replicas : WF_vars(Step(r))

-----------------------------------------------------------------------------
TypeOK ==
  /\ file \in [Replicas -> Image]
  /\ table \in Rows
  /\ inserted \in [Replicas -> Rows]
  /\ recorded \in [Replicas -> Rows]
  /\ holder \in Replicas \cup {None}
  /\ pc \in [Replicas -> Stages]
  /\ good \in [Replicas -> BOOLEAN]
  /\ restarts \in 0..MaxRestarts

(* No migration is applied twice: one that an open transaction carries is  *)
(* neither committed nor carried by another one, although the lock is      *)
(* released before the commit.                                             *)
AppliedOnce ==
  \A r \in Replicas : \A m \in Have(inserted[r]) :
    table[m] = None /\ \A q \in Replicas \ {r} : inserted[q][m] = None

(* What is committed is a prefix of the lexical order, whichever images    *)
(* ran, failed and crashed before.                                         *)
NoGaps == \A m \in Have(table) : 1..m \subseteq Have(table)

(* A replica whose apply_all returns has all its files applied, as they    *)
(* are on its disk.                                                        *)
ReturnsMigrated ==
  \A r \in Replicas :
    pc[r] = "over" /\ good[r] => \A m \in Have(file[r]) : table[m] = file[r][m]

(* Every run of apply_all ends: no replica waits for the lock, or for      *)
(* another's transaction, forever.                                         *)
Ends == \A r \in Replicas : (pc[r] # "over") ~> (pc[r] = "over")

(* The comment of apply_all on the replicas that wait for the lock: "they  *)
(* then re-read applied_migrations() inside the lock and see our work as   *)
(* already done".  So an apply_all that gets as far as a migration fails   *)
(* there by the migration's own SQL, never because another replica's work, *)
(* committed by now, was not in what it read inside the lock.              *)
SeesEarlierWork ==
  [][\A r \in Replicas : \A m \in Due(r) :
       pc[r] = "apply" /\ pc'[r] = "unlock" /\ ~good'[r]
         => table[m] = None]_vars
=============================================================================
