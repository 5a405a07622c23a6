---------------------------- MODULE EventLedger -----------------------------
(***************************************************************************)
(* The ledger of investigation events (opsrag/investigations/store.py) and *)
(* the runners that write it (run_one in opsrag/investigations/runner.py). *)
(*                                                                         *)
(* Every event is one INSERT, committed on its own; its sequence number is *)
(* drawn from one BIGSERIAL for all investigations, before the commit      *)
(* makes it visible.  emit_event swallows what goes wrong.  The lifecycle  *)
(* row of the investigation is a second table, written by mark_status.     *)
(*                                                                         *)
(* Of the pipeline only the order of its writes is kept: a number of       *)
(* events, then a conclusion or an exception.                              *)
(***************************************************************************)
EXTENDS Naturals

CONSTANTS Invs,        \* the investigations
          MaxEvents,   \* bound on the events before the terminal one
          Faults,      \* which of "emit", "raise", "stamp", "crash" may happen
          MaxMishaps   \* bound on the failures

ASSUME EventLedgerAssumption == MaxEvents \in Nat /\ MaxMishaps \in Nat

VARIABLES rows,      \* the committed events: [inv, seq, kind]
          nextval,   \* the BIGSERIAL: the sequence number it gives next
          inflight,  \* inflight[i]: the number of i's uncommitted INSERT, or 0
          status,    \* status[i]: the lifecycle row of i, "absent" before it
          runner,    \* runner[i]: where run_one is
          emitted,   \* emitted[i]: events _run_pipeline has tried to emit
          mishaps    \* failures so far

ledgerVars == <<rows, nextval, inflight, status, runner, emitted, mishaps>>

Kinds    == {"started", "step", "completed", "failed"}
Terminal == {"completed", "failed"}
Statuses == {"absent", "running"} \cup Terminal
Stages   == {"absent", "run", "stamp", "complete", "fail", "unstamp", "done", "dead"}

RowsOf(i) == {r \in rows : r.inv = i}

LedgerInit ==
  /\ rows = {}
  /\ nextval = 1
  /\ inflight = [i \in Invs |-> 0]
  /\ status = [i \in Invs |-> "absent"]
  /\ runner = [i \in Invs |-> "absent"]
  /\ emitted = [i \in Invs |-> 0]
  /\ mishaps = 0

Goto(i, stage) == runner' = [runner EXCEPT ![i] = stage]

Fail(fault) ==
  /\ fault \in Faults
  /\ mishaps < MaxMishaps
  /\ mishaps' = mishaps + 1

-----------------------------------------------------------------------------
(* POST /investigations: the lifecycle row, then the detached task. *)
Launch(i) ==
  /\ status[i] = "absent"
  /\ status' = [status EXCEPT ![i] = "running"]
  /\ Goto(i, "run")
  /\ UNCHANGED <<rows, nextval, inflight, emitted, mishaps>>

(* The event run_one emits at its present stage. *)
Kind(i) ==
  IF runner[i] = "complete" THEN "completed"
  ELSE IF runner[i] = "fail" THEN "failed"
  ELSE IF emitted[i] = 0 THEN "started" ELSE "step"

Emits(i) ==
  \/ runner[i] = "run" /\ emitted[i] < MaxEvents
  \/ runner[i] \in {"complete", "fail"}

(* append_event up to its INSERT, which draws the sequence number. *)
EmitBegin(i) ==
  /\ Emits(i)
  /\ inflight[i] = 0
  /\ inflight' = [inflight EXCEPT ![i] = nextval]
  /\ nextval' = nextval + 1
  /\ UNCHANGED <<rows, status, runner, emitted, mishaps>>

(* emit_event returns, whatever came of the event. *)
Emitted(i) ==
  /\ inflight' = [inflight EXCEPT ![i] = 0]
  /\ emitted' = IF runner[i] = "run" THEN [emitted EXCEPT ![i] = @ + 1] ELSE emitted
  /\ \/ runner[i] = "run" /\ UNCHANGED runner
     \/ runner[i] = "complete" /\ Goto(i, "done")
     \/ runner[i] = "fail" /\ Goto(i, "unstamp")

(* The event is committed.  Whether its answer comes back or not is all    *)
(* the same to the caller: an exception is swallowed.                      *)
(* Mutant of EmitCommit: an answer that is lost raises in the pipeline. *)
EmitCommitRaises(i) ==
  /\ inflight[i] # 0
  /\ rows' = rows \cup {[inv |-> i, seq |-> inflight[i], kind |-> Kind(i)]}
  /\ \/ Emitted(i)
     \/ /\ runner[i] # "fail"
        /\ inflight' = [inflight EXCEPT ![i] = 0]
        /\ Goto(i, "fail")
        /\ UNCHANGED emitted
  /\ UNCHANGED <<nextval, status, mishaps>>

EmitCommit(i) ==
  /\ inflight[i] # 0
  /\ rows' = rows \cup {[inv |-> i, seq |-> inflight[i], kind |-> Kind(i)]}
  /\ Emitted(i)
  /\ UNCHANGED <<nextval, status, mishaps>>

(* The event is lost.  If that was before its INSERT no number was drawn:  *)
(* a gap more or less is all the same to the readers.                      *)
EmitLost(i) ==
  /\ inflight[i] # 0
  /\ Fail("emit")
  /\ Emitted(i)
  /\ UNCHANGED <<rows, nextval, status>>

(* An exception in the pipeline: a lane, a call of the model, the store. *)
Raise(i) ==
  /\ Fail("raise")
  /\ runner[i] = "run" /\ inflight[i] = 0
  /\ emitted[i] >= 2
  /\ Goto(i, "fail")
  /\ UNCHANGED <<rows, nextval, inflight, status, emitted>>

(* The pipeline has emitted its conclusion. *)
(* Mutant of Conclude: the terminal event goes out before the status. *)
ConcludeUnstamped(i) ==
  /\ runner[i] = "run" /\ inflight[i] = 0
  /\ emitted[i] >= 2
  /\ Goto(i, "complete")
  /\ UNCHANGED <<rows, nextval, inflight, status, emitted, mishaps>>

Conclude(i) ==
  /\ runner[i] = "run" /\ inflight[i] = 0
  /\ emitted[i] >= 2
  /\ Goto(i, "stamp")
  /\ UNCHANGED <<rows, nextval, inflight, status, emitted, mishaps>>

(* mark_status(COMPLETED), before the terminal event.  If it raises, its   *)
(* UPDATE may be committed all the same, and run_one takes the error path. *)
Stamp(i) ==
  /\ runner[i] = "stamp"
  /\ \/ /\ status' = [status EXCEPT ![i] = "completed"]
        /\ Goto(i, "complete")
        /\ UNCHANGED mishaps
     \/ /\ Fail("stamp")
        /\ status' \in {status, [status EXCEPT ![i] = "completed"]}
        /\ Goto(i, "fail")
  /\ UNCHANGED <<rows, nextval, inflight, emitted>>

(* mark_status(FAILED), after the terminal event; its errors are ignored. *)
Unstamp(i) ==
  /\ runner[i] = "unstamp"
  /\ \/ status' = [status EXCEPT ![i] = "failed"] /\ UNCHANGED mishaps
     \/ UNCHANGED status /\ Fail("stamp")
  /\ Goto(i, "done")
  /\ UNCHANGED <<rows, nextval, inflight, emitted>>

(* The process dies: nothing starts its investigations again. *)
Crash ==
  /\ Fail("crash")
  /\ runner' = [i \in Invs |->
                  IF runner[i] \in {"absent", "done"} THEN runner[i] ELSE "dead"]
  /\ inflight' = [i \in Invs |-> 0]
  /\ UNCHANGED <<rows, nextval, status, emitted>>

-----------------------------------------------------------------------------
Write(i) ==
  \/ EmitBegin(i)
  \/ EmitCommit(i)
  \/ EmitLost(i)
  \/ Raise(i)
  \/ Conclude(i)
  \/ Stamp(i)
  \/ Unstamp(i)

LedgerNext == Crash \/ \E i \in Invs : Launch(i) \/ Write(i)

LedgerSpec == LedgerInit /\ [][LedgerNext]_ledgerVars

-----------------------------------------------------------------------------
LedgerTypeOK ==
  /\ rows \subseteq [inv : Invs, seq : Nat \ {0}, kind : Kinds]
  /\ nextval \in Nat \ {0}
  /\ inflight \in [Invs -> Nat]
  /\ status \in [Invs -> Statuses]
  /\ runner \in [Invs -> Stages]
  /\ emitted \in [Invs -> 0..MaxEvents]
  /\ mishaps \in 0..MaxMishaps

(* An investigation has one terminal event at most, and it is its last:    *)
(* run_one never reports a failure after it reported a completion, even    *)
(* when the answer to an INSERT or an UPDATE is lost after its commit.     *)
OneEnd ==
  \A r \in rows : \A q \in RowsOf(r.inv) : r.kind \in Terminal => q.seq <= r.seq

(* The lifecycle row of an investigation that reported its completion says *)
(* completed: who saw the event and reloads the page finds it there.       *)
CompletedIsStamped ==
  \A r \in rows : r.kind = "completed" => status[r.inv] = "completed"
=============================================================================
