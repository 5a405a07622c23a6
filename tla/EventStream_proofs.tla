------------------------- MODULE EventStream_proofs -------------------------
(***************************************************************************)
(* What the event ledger promises its readers, and what they hear, proved  *)
(* for any number of investigations and pages, any numbers of events and   *)
(* of failures.                                                            *)
(*                                                                         *)
(* LedgerInv is inductive.  A terminal event is the last one because the   *)
(* runner that commits it is over (Ended) and because a runner has one     *)
(* event under way at most, with a number above its earlier ones (Latest): *)
(* one writer per investigation, that awaits each commit.                  *)
(*                                                                         *)
(* ShapeInv adds the types, StreamInv what a page has heard (HeardAt) and  *)
(* what is under way to it (WireAt): two windows of the ledger that meet   *)
(* at seqRef.  The windows stay as they are while the runners write        *)
(* (WindowStays), which is again Latest.                                   *)
(***************************************************************************)
EXTENDS EventStream, TLAPS

coreVars == <<rows, nextval, inflight, status, runner>>

Shape ==
  /\ rows \subseteq [inv : Invs, seq : Nat \ {0}, kind : Kinds]
  /\ nextval \in Nat \ {0}
  /\ inflight \in [Invs -> Nat]
  /\ status \in [Invs -> Statuses]
  /\ runner \in [Invs -> Stages]

(* The numbers in use are below the BIGSERIAL. *)
Numbered ==
  /\ \A r \in rows : r.seq < nextval
  /\ \A i \in Invs : inflight[i] < nextval

(* An event under way comes after the committed ones of its investigation. *)
Latest == \A r \in rows : inflight[r.inv] # 0 => r.seq < inflight[r.inv]

(* Only a runner that emits has an event under way. *)
Quiet == \A i \in Invs : inflight[i] # 0 => runner[i] \in {"run", "complete", "fail"}

Fresh == \A i \in Invs : status[i] = "absent" <=> runner[i] = "absent"

Stamped == \A i \in Invs : runner[i] = "complete" => status[i] = "completed"

(* A runner does nothing to the ledger after its terminal event. *)
Ended ==
  /\ \A r \in rows : r.kind = "completed" => runner[r.inv] = "done"
  /\ \A r \in rows : r.kind = "failed" => runner[r.inv] \in {"unstamp", "done", "dead"}

LedgerInv ==
  /\ Shape
  /\ Numbered
  /\ Latest
  /\ Quiet
  /\ Fresh
  /\ Stamped
  /\ Ended
  /\ OneEnd
  /\ CompletedIsStamped

USE DEF Kinds, Statuses, Stages, Terminal

LEMMA InitLedger == Init => LedgerInv
BY DEF Init, LedgerInit, LedgerInv, Shape, Numbered, Latest, Quiet, Fresh, Stamped,
       Ended, OneEnd, CompletedIsStamped, RowsOf

(* A step that commits no row and draws no number. *)
LEMMA SameRows ==
  ASSUME LedgerInv, Shape', UNCHANGED <<rows, nextval>>,
         \A i \in Invs : inflight'[i] \in {0, inflight[i]},
         Quiet', Fresh', Stamped', Ended', CompletedIsStamped'
  PROVE  LedgerInv'
<1>1. Numbered'
  BY DEF LedgerInv, Numbered, Shape
<1>2. Latest'
  BY DEF LedgerInv, Latest, Shape
<1>3. OneEnd'
  BY DEF LedgerInv, OneEnd, RowsOf
<1> QED  BY <1>1, <1>2, <1>3 DEF LedgerInv

LEMMA LaunchKeeps ==
  ASSUME LedgerInv, NEW i \in Invs, Launch(i)  PROVE LedgerInv'
<1> USE DEF LedgerInv, Launch, Goto
<1>1. Shape'  BY DEF Shape
<1>2. Quiet' /\ Fresh' /\ Stamped'  BY DEF Shape, Quiet, Fresh, Stamped
<1>3. Ended'  BY DEF Shape, Fresh, Ended
<1>4. CompletedIsStamped'  BY DEF Shape, CompletedIsStamped
<1> QED  BY <1>1, <1>2, <1>3, <1>4, SameRows DEF Shape

LEMMA BeginKeeps ==
  ASSUME LedgerInv, NEW i \in Invs, EmitBegin(i)  PROVE LedgerInv'
<1> USE DEF LedgerInv, EmitBegin
<1>1. Shape' /\ Numbered'  BY DEF Shape, Numbered
<1>2. Latest'  BY DEF Shape, Numbered, Latest
<1>3. Quiet'  BY DEF Shape, Quiet, Emits
<1>4. Fresh' /\ Stamped' /\ Ended' /\ CompletedIsStamped'
  BY DEF Fresh, Stamped, Ended, CompletedIsStamped
<1>5. OneEnd'  BY DEF OneEnd, RowsOf
<1> QED  BY <1>1, <1>2, <1>3, <1>4, <1>5

(* The stage after an event, by the stage that emitted it. *)
LEMMA AfterEmit ==
  ASSUME Shape, NEW i \in Invs, Emitted(i), runner[i] \in {"run", "complete", "fail"}
  PROVE  /\ inflight' = [inflight EXCEPT ![i] = 0]
         /\ \A j \in Invs \ {i} : runner'[j] = runner[j]
         /\ runner[i] = "run" => runner'[i] = "run"
         /\ runner[i] = "complete" => runner'[i] = "done"
         /\ runner[i] = "fail" => runner'[i] = "unstamp"
         /\ runner' \in [Invs -> Stages]
<1>1. CASE runner[i] = "run"  BY <1>1 DEF Emitted, Goto, Shape
<1>2. CASE runner[i] = "complete"  BY <1>2 DEF Emitted, Goto, Shape
<1>3. CASE runner[i] = "fail"  BY <1>3 DEF Emitted, Goto, Shape
<1> QED  BY <1>1, <1>2, <1>3

LEMMA CommitKeeps ==
  ASSUME LedgerInv, NEW i \in Invs, EmitCommit(i)  PROVE LedgerInv'
<1> DEFINE new == [inv |-> i, seq |-> inflight[i], kind |-> Kind(i)]
<1>1. /\ rows' = rows \cup {new} /\ inflight[i] # 0
      /\ UNCHANGED <<nextval, status>> /\ Emitted(i)
  BY DEF EmitCommit
<1>2. runner[i] \in {"run", "complete", "fail"}
  BY <1>1 DEF LedgerInv, Quiet
<1>3. /\ Kind(i) \in Kinds
      /\ Kind(i) = "completed" <=> runner[i] = "complete"
      /\ Kind(i) = "failed" <=> runner[i] = "fail"
  BY <1>2 DEF Kind
<1>4. new.inv = i /\ new.seq = inflight[i] /\ new.kind = Kind(i)
  OBVIOUS
<1>5. new \in [inv : Invs, seq : Nat \ {0}, kind : Kinds]
  BY <1>1, <1>3 DEF LedgerInv, Shape
<1> HIDE DEF new
<1>6. /\ inflight' = [inflight EXCEPT ![i] = 0]
      /\ \A j \in Invs \ {i} : runner'[j] = runner[j]
      /\ runner[i] = "run" => runner'[i] = "run"
      /\ runner[i] = "complete" => runner'[i] = "done"
      /\ runner[i] = "fail" => runner'[i] = "unstamp"
      /\ runner' \in [Invs -> Stages]
  BY <1>1, <1>2, AfterEmit DEF LedgerInv
<1>7. Shape'
  BY <1>1, <1>5, <1>6 DEF LedgerInv, Shape
<1>8. Numbered'
  BY <1>1, <1>4, <1>6 DEF LedgerInv, Shape, Numbered
<1>9. Latest'
  BY <1>1, <1>4, <1>6 DEF LedgerInv, Shape, Latest
<1>10. Quiet' /\ Fresh' /\ Stamped'
  BY <1>1, <1>2, <1>6 DEF LedgerInv, Shape, Quiet, Fresh, Stamped
<1>11. \A r \in rows : r.inv = i => r.kind \notin Terminal
  BY <1>2 DEF LedgerInv, Ended
<1>12. Ended'
  <2> SUFFICES ASSUME NEW r \in rows'
               PROVE  /\ r.kind = "completed" => runner'[r.inv] = "done"
                      /\ r.kind = "failed" => runner'[r.inv] \in {"unstamp", "done", "dead"}
    BY DEF Ended
  <2>1. CASE r = new  BY <2>1, <1>3, <1>4, <1>6
  <2>2. CASE r \in rows
    BY <2>2, <1>6, <1>11 DEF LedgerInv, Shape, Ended
  <2> QED  BY <1>1, <2>1, <2>2
<1>13. OneEnd'
  <2> SUFFICES ASSUME NEW r \in rows', NEW q \in rows', q.inv = r.inv, r.kind \in Terminal
               PROVE  q.seq <= r.seq
    BY DEF OneEnd, RowsOf
  <2>1. CASE r \in rows /\ q \in rows
    BY <2>1 DEF LedgerInv, OneEnd, RowsOf
  <2>2. CASE r = new /\ q \in rows
    BY <2>2, <1>1, <1>4 DEF LedgerInv, Shape, Latest
  <2>3. CASE r \in rows /\ q = new
    BY <2>3, <1>4, <1>11
  <2>4. CASE r = new /\ q = new
    BY <2>4, <1>4 DEF LedgerInv, Shape
  <2> QED  BY <1>1, <2>1, <2>2, <2>3, <2>4
<1>14. CompletedIsStamped'
  <2> SUFFICES ASSUME NEW r \in rows', r.kind = "completed"
               PROVE  status[r.inv] = "completed"
    BY <1>1 DEF CompletedIsStamped
  <2>1. CASE r = new  BY <2>1, <1>3, <1>4 DEF LedgerInv, Stamped
  <2>2. CASE r \in rows  BY <2>2 DEF LedgerInv, CompletedIsStamped
  <2> QED  BY <1>1, <2>1, <2>2
<1> QED  BY <1>7, <1>8, <1>9, <1>10, <1>12, <1>13, <1>14 DEF LedgerInv

LEMMA LostKeeps ==
  ASSUME LedgerInv, NEW i \in Invs, EmitLost(i)  PROVE LedgerInv'
<1>1. /\ UNCHANGED <<rows, nextval, status>> /\ Emitted(i)
      /\ runner[i] \in {"run", "complete", "fail"}
  BY DEF EmitLost, LedgerInv, Quiet
<1>2. /\ inflight' = [inflight EXCEPT ![i] = 0]
      /\ \A j \in Invs \ {i} : runner'[j] = runner[j]
      /\ runner[i] = "run" => runner'[i] = "run"
      /\ runner[i] = "complete" => runner'[i] = "done"
      /\ runner[i] = "fail" => runner'[i] = "unstamp"
      /\ runner' \in [Invs -> Stages]
  BY <1>1, AfterEmit DEF LedgerInv
<1>3. Shape'  BY <1>1, <1>2 DEF LedgerInv, Shape
<1>4. Quiet' /\ Fresh' /\ Stamped'
  BY <1>1, <1>2 DEF LedgerInv, Shape, Quiet, Fresh, Stamped
<1>5. Ended'
  BY <1>1, <1>2 DEF LedgerInv, Shape, Ended
<1>6. CompletedIsStamped'  BY <1>1 DEF LedgerInv, CompletedIsStamped
<1> QED  BY <1>1, <1>2, <1>3, <1>4, <1>5, <1>6, SameRows DEF LedgerInv, Shape

(* The steps of a runner between its events. *)
LEMMA StageKeeps ==
  ASSUME LedgerInv, NEW i \in Invs, Raise(i) \/ Conclude(i) \/ Stamp(i) \/ Unstamp(i)
  PROVE  LedgerInv'
<1> USE DEF Raise, Conclude, Stamp, Unstamp, Goto, LedgerInv
<1>1. UNCHANGED <<rows, nextval, inflight>>  OBVIOUS
<1>2. Shape'  BY DEF Shape
<1>3. inflight[i] = 0  BY DEF Shape, Quiet
<1>4. Quiet' /\ Fresh' /\ Stamped'
  BY <1>3 DEF Shape, Quiet, Fresh, Stamped
<1>5. Ended'
  BY DEF Shape, Ended
<1>6. CompletedIsStamped'
  BY DEF Shape, Ended, CompletedIsStamped
<1> QED  BY <1>1, <1>2, <1>4, <1>5, <1>6, SameRows

LEMMA CrashKeeps ==
  ASSUME LedgerInv, Crash  PROVE LedgerInv'
<1> USE DEF Crash, LedgerInv
<1>1. UNCHANGED <<rows, nextval, status>> /\ inflight' = [i \in Invs |-> 0]  OBVIOUS
<1>2. Shape'  BY DEF Shape
<1>3. Quiet' /\ Fresh' /\ Stamped'  BY DEF Shape, Quiet, Fresh, Stamped
<1>4. Ended'  BY DEF Shape, Ended
<1>5. CompletedIsStamped'  BY DEF CompletedIsStamped
<1> QED  BY <1>1, <1>2, <1>3, <1>4, <1>5, SameRows

LEMMA CoreUnchanged ==
  ASSUME LedgerInv, UNCHANGED coreVars  PROVE LedgerInv'
BY DEF coreVars, LedgerInv, Shape, Numbered, Latest, Quiet, Fresh, Stamped, Ended,
       OneEnd, CompletedIsStamped, RowsOf

LEMMA NextKeeps == LedgerInv /\ [Next]_vars => LedgerInv'
<1> SUFFICES ASSUME LedgerInv, [Next]_vars  PROVE LedgerInv'
  OBVIOUS
<1>1. ASSUME NEW i \in Invs, Launch(i)  PROVE LedgerInv'
  BY <1>1, LaunchKeeps
<1>2. ASSUME NEW i \in Invs, Write(i)  PROVE LedgerInv'
  BY <1>2, BeginKeeps, CommitKeeps, LostKeeps, StageKeeps DEF Write
<1>3. ASSUME NEW p \in Pages, NEW i \in Invs, Mount(p, i) \/ Switch(p, i)
      PROVE  LedgerInv'
  BY <1>3, CoreUnchanged DEF Mount, Switch, Subscribe, ledgerVars, coreVars
<1>4. ASSUME NEW p \in Pages, Read(p)  PROVE LedgerInv'
  BY <1>4, CoreUnchanged
  DEF Read, Connect, Poll, Check, Receive, StreamEnds, ledgerVars, coreVars
<1>5. ASSUME NEW p \in Pages, Blip(p)  PROVE LedgerInv'
  BY <1>5, CoreUnchanged DEF Blip, coreVars
<1>6. CASE ServerCrash
  BY <1>6, CrashKeeps DEF ServerCrash
<1>7. CASE UNCHANGED vars
  BY <1>7, CoreUnchanged DEF vars, ledgerVars, coreVars
<1> QED  BY <1>1, <1>2, <1>3, <1>4, <1>5, <1>6, <1>7 DEF Next

THEOREM LedgerInvariant == Spec => []LedgerInv
<1> QED  BY InitLedger, NextKeeps, PTL DEF Spec

(* An investigation has one terminal event at most and nothing after it,   *)
(* although emit_event and mark_status may fail before or after they       *)
(* commit.                                                                 *)
THEOREM OutcomeIsLast == Spec => []OneEnd
<1>1. LedgerInv => OneEnd  BY DEF LedgerInv
<1> QED  BY <1>1, LedgerInvariant, PTL

(* The lifecycle row of an investigation whose completion is in the ledger *)
(* says completed, and no later failure path changes it.                   *)
THEOREM CompletionIsStamped == Spec => []CompletedIsStamped
<1>1. LedgerInv => CompletedIsStamped  BY DEF LedgerInv
<1> QED  BY <1>1, LedgerInvariant, PTL

-----------------------------------------------------------------------------
(* Sequences of numbers that ascend *)

LEMMA SetOf ==
  ASSUME NEW S, NEW s \in Seq(S)
  PROVE  ToSet(s) = {s[m] : m \in 1..Len(s)} /\ ToSet(s) \subseteq S /\ Len(s) \in Nat
BY DEF ToSet

LEMMA AscendsAppend ==
  ASSUME NEW s \in Seq(Nat), NEW n \in Nat, Ascends(s), \A m \in ToSet(s) : m < n
  PROVE  /\ Append(s, n) \in Seq(Nat) /\ Ascends(Append(s, n))
         /\ ToSet(Append(s, n)) = ToSet(s) \cup {n}
<1>1. /\ Append(s, n) \in Seq(Nat) /\ Len(Append(s, n)) = Len(s) + 1
      /\ \A k \in 1..Len(s) : Append(s, n)[k] = s[k]
      /\ Append(s, n)[Len(s) + 1] = n
  OBVIOUS
<1>2. 1..(Len(s) + 1) = 1..Len(s) \cup {Len(s) + 1} /\ Len(s) \in Nat
  OBVIOUS
<1>3. ToSet(s) = {s[k] : k \in 1..Len(s)}
      /\ ToSet(Append(s, n)) = {Append(s, n)[k] : k \in 1..(Len(s) + 1)}
  BY <1>1, SetOf
<1>4. ToSet(Append(s, n)) = ToSet(s) \cup {n}
  BY <1>1, <1>2, <1>3
<1>5. \A k \in 1..Len(s) : s[k] < n
  BY <1>3
<1>6. Ascends(Append(s, n))
  BY <1>1, <1>2, <1>5 DEF Ascends
<1> QED BY <1>1, <1>4, <1>6

LEMMA AscendsConcat ==
  ASSUME NEW s \in Seq(Nat), NEW t \in Seq(Nat), Ascends(s), Ascends(t),
         \A m \in ToSet(s), n \in ToSet(t) : m < n
  PROVE  /\ s \o t \in Seq(Nat) /\ Ascends(s \o t)
         /\ ToSet(s \o t) = ToSet(s) \cup ToSet(t)
<1>1. /\ s \o t \in Seq(Nat) /\ Len(s \o t) = Len(s) + Len(t)
      /\ \A k \in 1..(Len(s) + Len(t)) :
           (s \o t)[k] = IF k <= Len(s) THEN s[k] ELSE t[k - Len(s)]
      /\ Len(s) \in Nat /\ Len(t) \in Nat
  OBVIOUS
<1>2. /\ ToSet(s) = {s[k] : k \in 1..Len(s)}
      /\ ToSet(t) = {t[k] : k \in 1..Len(t)}
      /\ ToSet(s \o t) = {(s \o t)[k] : k \in 1..(Len(s) + Len(t))}
  BY <1>1, SetOf
<1>3. \A k \in 1..Len(s), l \in 1..Len(t) : s[k] < t[l]
  BY <1>2
<1>4. Ascends(s \o t)
  <2> SUFFICES ASSUME NEW m \in 1..(Len(s) + Len(t)), NEW n \in 1..(Len(s) + Len(t)), m < n
               PROVE  (s \o t)[m] < (s \o t)[n]
    BY <1>1 DEF Ascends
  <2>1. CASE n <= Len(s)
    BY <1>1, <2>1 DEF Ascends
  <2>2. CASE m > Len(s)
    <3>1. m - Len(s) \in 1..Len(t) /\ n - Len(s) \in 1..Len(t) /\ m - Len(s) < n - Len(s)
      BY <1>1, <2>2
    <3>2. t[m - Len(s)] < t[n - Len(s)]
      BY <3>1 DEF Ascends
    <3> QED BY <1>1, <2>2, <3>2
  <2>3. CASE m <= Len(s) /\ n > Len(s)
    <3>1. m \in 1..Len(s) /\ n - Len(s) \in 1..Len(t)
      BY <1>1, <2>3
    <3> QED BY <1>1, <1>3, <2>3, <3>1
  <2> QED BY <1>1, <2>1, <2>2, <2>3
<1>5. ToSet(s \o t) = ToSet(s) \cup ToSet(t)
  <2>1. ASSUME NEW k \in 1..(Len(s) + Len(t))
        PROVE  (s \o t)[k] \in ToSet(s) \cup ToSet(t)
    <3>1. k \in 1..Len(s) \/ (k > Len(s) /\ k - Len(s) \in 1..Len(t))
      BY <1>1
    <3> QED BY <1>1, <1>2, <3>1
  <2>2. ASSUME NEW k \in 1..Len(s) PROVE s[k] \in ToSet(s \o t)
    <3>1. k \in 1..(Len(s) + Len(t)) /\ (s \o t)[k] = s[k]
      BY <1>1
    <3> QED BY <1>2, <3>1
  <2>3. ASSUME NEW k \in 1..Len(t) PROVE t[k] \in ToSet(s \o t)
    <3>1. /\ k + Len(s) \in 1..(Len(s) + Len(t)) /\ ~(k + Len(s) <= Len(s))
          /\ (k + Len(s)) - Len(s) = k
      BY <1>1
    <3>2. (s \o t)[k + Len(s)] = t[k]
      BY <1>1, <3>1
    <3> QED BY <1>2, <3>1, <3>2
  <2> QED BY <1>2, <2>1, <2>2, <2>3
<1> QED BY <1>1, <1>4, <1>5

LEMMA AscendsTail ==
  ASSUME NEW s \in Seq(Nat), s # <<>>, Ascends(s)
  PROVE  /\ Head(s) \in ToSet(s)
         /\ \A m \in ToSet(s) : Head(s) <= m
         /\ Tail(s) \in Seq(Nat) /\ Ascends(Tail(s))
         /\ ToSet(Tail(s)) = ToSet(s) \ {Head(s)}
<1>1. /\ Len(s) \in Nat \ {0} /\ Head(s) = s[1] /\ Tail(s) \in Seq(Nat)
      /\ Len(Tail(s)) = Len(s) - 1
      /\ \A k \in 1..(Len(s) - 1) : Tail(s)[k] = s[k + 1]
      /\ \A k \in 1..Len(s) : s[k] \in Nat
  OBVIOUS
<1>2. /\ ToSet(s) = {s[k] : k \in 1..Len(s)}
      /\ ToSet(Tail(s)) = {Tail(s)[k] : k \in 1..(Len(s) - 1)}
  BY <1>1, SetOf
<1>3. \A k \in 1..Len(s) : k # 1 => s[1] < s[k]
  BY <1>1 DEF Ascends
<1>4. Head(s) \in ToSet(s) /\ \A m \in ToSet(s) : Head(s) <= m
  BY <1>1, <1>2, <1>3
<1>5. Ascends(Tail(s))
  <2> SUFFICES ASSUME NEW m \in 1..(Len(s) - 1), NEW n \in 1..(Len(s) - 1), m < n
               PROVE  Tail(s)[m] < Tail(s)[n]
    BY <1>1 DEF Ascends
  <2>1. m + 1 \in 1..Len(s) /\ n + 1 \in 1..Len(s) /\ m + 1 < n + 1
    BY <1>1
  <2> QED BY <1>1, <2>1 DEF Ascends
<1>6. ToSet(Tail(s)) = ToSet(s) \ {Head(s)}
  <2>1. ASSUME NEW k \in 1..(Len(s) - 1) PROVE Tail(s)[k] \in ToSet(s) \ {Head(s)}
    <3>1. k + 1 \in 1..Len(s) /\ k + 1 # 1
      BY <1>1
    <3> QED BY <1>1, <1>2, <1>3, <3>1
  <2>2. ASSUME NEW k \in 1..Len(s), s[k] # Head(s) PROVE s[k] \in ToSet(Tail(s))
    <3>1. k - 1 \in 1..(Len(s) - 1) /\ (k - 1) + 1 = k
      BY <1>1, <2>2
    <3>2. Tail(s)[k - 1] = s[k]
      BY <1>1, <3>1
    <3> QED BY <1>2, <3>1, <3>2
  <2> QED BY <1>2, <2>1, <2>2
<1> QED BY <1>1, <1>4, <1>5, <1>6

LEMMA AscendsLast ==
  ASSUME NEW s \in Seq(Nat), s # <<>>, Ascends(s)
  PROVE  Last(s) \in ToSet(s) /\ \A m \in ToSet(s) : m <= Last(s)
<1>1. Len(s) \in Nat \ {0} /\ \A k \in 1..Len(s) : s[k] \in Nat
  OBVIOUS
<1>2. ToSet(s) = {s[k] : k \in 1..Len(s)}
  BY SetOf
<1>3. Len(s) \in 1..Len(s)
  BY <1>1
<1>4. \A k \in 1..Len(s) : s[k] <= s[Len(s)]
  BY <1>1, <1>3 DEF Ascends
<1> QED BY <1>2, <1>3, <1>4 DEF Last

LEMMA AscendsEmpty == <<>> \in Seq(Nat) /\ Ascends(<<>>) /\ ToSet(<<>>) = {}
BY DEF Ascends, ToSet

LEMMA MaxOfTwo == ASSUME NEW m \in Nat, NEW n \in Nat, m < n PROVE Max({m, n}) = n
<1>1. n \in {m, n} /\ \A y \in {m, n} : n >= y
  OBVIOUS
<1>2. \A x \in {m, n} : (\A y \in {m, n} : x >= y) => x = n
  OBVIOUS
<1> QED BY <1>1, <1>2 DEF Max

(* What a poll reads: the first events after the cursor, none left out     *)
(* before the last of them.                                                *)
LEMMA PageIsFirst ==
  ASSUME NEW found \in SUBSET Nat, NEW page \in FirstOf(found)
  PROVE  /\ page \in Seq(Nat) /\ Ascends(page) /\ ToSet(page) \subseteq found
         /\ page # <<>> => /\ Last(page) \in ToSet(page)
                           /\ \A n \in found : n <= Last(page) <=> n \in ToSet(page)
         /\ page = <<>> => ToSet(page) = {}
<1>1. /\ page \in BoundedSeq(found, Limit) /\ Ascends(page)
      /\ \A n \in found \ ToSet(page), m \in ToSet(page) : m < n
  BY DEF FirstOf
<1>2. page \in Seq(found)
  <2>1. PICK m \in 0..Limit : page \in [1..m -> found]
    BY <1>1 DEF BoundedSeq, SeqOf
  <2> QED BY <2>1, PageAssumption
<1>3. page \in Seq(Nat) /\ ToSet(page) \subseteq found
  <2>1. ToSet(page) \subseteq found
    BY <1>2, SetOf
  <2>2. Len(page) \in Nat /\ page \in [1..Len(page) -> found]
    BY <1>2
  <2>3. page \in [1..Len(page) -> Nat]
    BY <2>2
  <2>4. page \in Seq(Nat)
    BY <2>2, <2>3
  <2> QED BY <2>1, <2>4
<1>4. page = <<>> => ToSet(page) = {}
  BY AscendsEmpty
<1>5. ASSUME page # <<>>
      PROVE  /\ Last(page) \in ToSet(page)
             /\ \A n \in found : n <= Last(page) <=> n \in ToSet(page)
  <2>1. Last(page) \in ToSet(page) /\ \A m \in ToSet(page) : m <= Last(page)
    BY <1>1, <1>3, <1>5, AscendsLast
  <2>2. Last(page) \in Nat
    BY <1>3, <2>1
  <2> QED BY <1>1, <2>1, <2>2
<1> QED BY <1>1, <1>3, <1>4, <1>5

-----------------------------------------------------------------------------
(* The ledger as its readers see it *)

(* The numbers of the committed events of an investigation. *)
Committed(i) == {r.seq : r \in RowsOf(i)}

LEMMA AfterIs ==
  ASSUME NEW i, NEW n
  PROVE  After(i, n) = {m \in Committed(i) : m > n}
BY DEF After, Committed

LEMMA CommittedAreNumbers ==
  ASSUME LedgerInv
  PROVE  /\ Numbers \subseteq Nat /\ 0 \in Numbers
         /\ \A i : Committed(i) \subseteq Numbers /\ Committed(i) \subseteq Nat
BY DEF LedgerInv, Shape, Numbered, Committed, RowsOf, Numbers

(* A step of the runners: an event that becomes visible comes after those  *)
(* of its investigation that are visible already.                          *)
Grows ==
  /\ Numbers \subseteq Numbers'
  /\ \A i \in Invs :
       /\ Committed(i) \subseteq Committed(i)'
       /\ \A n \in Committed(i)' \ Committed(i) : \A m \in Committed(i) : m < n

LEMMA LedgerGrows ==
  ASSUME LedgerInv, NEW i \in Invs, Launch(i) \/ Write(i)
  PROVE  Grows
<1>1. CASE UNCHANGED <<rows, nextval>>
  BY <1>1 DEF Grows, Numbers, Committed, RowsOf
<1>2. CASE EmitBegin(i)
  <2>1. rows' = rows /\ nextval' = nextval + 1 /\ nextval \in Nat
    BY <1>2 DEF EmitBegin, LedgerInv, Shape
  <2> QED BY <2>1 DEF Grows, Numbers, Committed, RowsOf
<1>3. CASE EmitCommit(i)
  <2> DEFINE new == [inv |-> i, seq |-> inflight[i], kind |-> Kind(i)]
  <2>1. rows' = rows \cup {new} /\ nextval' = nextval /\ inflight[i] # 0
    BY <1>3 DEF EmitCommit
  <2>2. new.inv = i /\ new.seq = inflight[i]
    OBVIOUS
  <2> HIDE DEF new
  <2>3. \A j \in Invs : Committed(j)' = IF j = i THEN Committed(j) \cup {inflight[i]} ELSE Committed(j)
    BY <2>1, <2>2 DEF Committed, RowsOf
  <2>4. \A m \in Committed(i) : m < inflight[i]
    BY <2>1 DEF LedgerInv, Latest, Committed, RowsOf
  <2> QED BY <2>1, <2>3, <2>4 DEF Grows, Numbers
<1> QED
  BY <1>1, <1>2, <1>3 DEF Launch, Write, EmitLost, Raise, Conclude, Stamp, Unstamp

-----------------------------------------------------------------------------
(* The types of the ledger and of its readers *)

(* A runner with an event under way has not emitted all it may. *)
Room == \A i \in Invs : inflight[i] # 0 => Emits(i)

LEMMA LedgerTypeStep ==
  ASSUME LedgerInv, LedgerTypeOK, Room, LedgerInv',
         Crash \/ (\E i \in Invs : Launch(i) \/ Write(i)) \/ UNCHANGED ledgerVars
  PROVE  LedgerTypeOK' /\ Room'
<1>t. /\ emitted \in [Invs -> 0..MaxEvents] /\ mishaps \in 0..MaxMishaps
      /\ Shape /\ Shape' /\ MaxEvents \in Nat /\ MaxMishaps \in Nat
  BY EventLedgerAssumption DEF LedgerTypeOK, LedgerInv
<1>m. ASSUME NEW kind, Fail(kind) PROVE mishaps' \in 0..MaxMishaps
  BY <1>m, <1>t DEF Fail
<1>1. CASE UNCHANGED ledgerVars
  BY <1>1 DEF ledgerVars, LedgerTypeOK, Room, Emits
<1>2. CASE Crash
  BY <1>2, <1>t, <1>m DEF Crash, LedgerTypeOK, Room, Shape
<1>3. ASSUME NEW i \in Invs, Launch(i)
      PROVE  LedgerTypeOK' /\ Room'
  <2>1. inflight[i] = 0
    BY <1>3, <1>t DEF Launch, LedgerInv, Fresh, Quiet
  <2> QED BY <1>3, <1>t, <2>1 DEF Launch, Goto, LedgerTypeOK, Room, Emits, Shape
<1>4. ASSUME NEW i \in Invs, EmitBegin(i)
      PROVE  LedgerTypeOK' /\ Room'
  BY <1>4, <1>t DEF EmitBegin, LedgerTypeOK, Room, Emits, Shape
<1>5. ASSUME NEW i \in Invs, EmitCommit(i) \/ EmitLost(i)
      PROVE  LedgerTypeOK' /\ Room'
  <2>1. inflight[i] # 0 /\ Emitted(i) /\ mishaps' \in 0..MaxMishaps
    BY <1>5, <1>t, <1>m DEF EmitCommit, EmitLost
  <2>2. /\ inflight' = [inflight EXCEPT ![i] = 0]
        /\ \A j \in Invs \ {i} : runner'[j] = runner[j]
    BY <2>1, <1>t, AfterEmit DEF LedgerInv, Quiet
  <2>3. /\ emitted' \in [Invs -> 0..MaxEvents]
        /\ \A j \in Invs \ {i} : emitted'[j] = emitted[j]
    BY <2>1, <1>t DEF Emitted, Room, Emits
  <2>4. Room'
    BY <2>2, <2>3, <1>t DEF Room, Emits, Shape
  <2> QED BY <1>t, <2>1, <2>3, <2>4 DEF LedgerTypeOK, Shape
<1>6. ASSUME NEW i \in Invs, Raise(i) \/ Conclude(i) \/ Stamp(i) \/ Unstamp(i)
      PROVE  LedgerTypeOK' /\ Room'
  <2>1. inflight[i] = 0
    BY <1>6, <1>t DEF Raise, Conclude, Stamp, Unstamp, LedgerInv, Quiet, Shape
  <2>2. /\ UNCHANGED <<inflight, emitted>> /\ mishaps' \in 0..MaxMishaps
        /\ \A j \in Invs \ {i} : runner'[j] = runner[j]
    BY <1>6, <1>t, <1>m DEF Raise, Conclude, Stamp, Unstamp, Goto, Shape
  <2>3. Room'
    BY <2>1, <2>2 DEF Room, Emits
  <2> QED BY <1>t, <2>2, <2>3 DEF LedgerTypeOK, Shape
<1> QED BY <1>1, <1>2, <1>3, <1>4, <1>5, <1>6 DEF Write

(* A stream that is up is served by a generator that still has polls, and  *)
(* there are frames under way only then.                                   *)
Linked(p) ==
  /\ link[p] = "up" <=> feed[p].at # "none"
  /\ feed[p].at \in {"poll", "check"} => feed[p].left # 0
  /\ feed[p].at = "none" => wire[p] = <<>>

ShapeInv == LedgerInv /\ TypeOK /\ Room /\ \A p \in Pages : Linked(p)

LEMMA NumbersGrow ==
  ASSUME Numbers \subseteq Numbers', NEW s \in Seq(Numbers)
  PROVE  s \in Seq(Numbers')
<1>1. Len(s) \in Nat /\ s \in [1..Len(s) -> Numbers]
  OBVIOUS
<1>2. s \in [1..Len(s) -> Numbers']
  BY <1>1
<1> QED BY <1>1, <1>2

(* What the steps of the pages do, the page of the step apart. *)
PageStep(p) ==
  \/ \E i \in Invs : Mount(p, i) \/ Switch(p, i)
  \/ Read(p)
  \/ Blip(p)

Same(q) ==
  /\ target'[q] = target[q] /\ since'[q] = since[q] /\ seen'[q] = seen[q]
  /\ link'[q] = link[q] /\ over'[q] = over[q] /\ heard'[q] = heard[q]
  /\ feed'[q] = feed[q] /\ wire'[q] = wire[q]

LEMMA StepFrame ==
  ASSUME TypeOK, NEW p \in Pages, PageStep(p)
  PROVE  UNCHANGED <<rows, nextval, inflight, status, runner, emitted>>
         /\ \A q \in Pages : q # p => Same(q)
<1>1. CASE \E i \in Invs : Mount(p, i) \/ Switch(p, i)
  <2>1. \E i, from : Subscribe(p, i, from)
    BY <1>1 DEF Mount, Switch
  <2> QED BY <2>1 DEF Subscribe, Same, TypeOK, ledgerVars
<1>2. CASE Connect(p) \/ StreamEnds(p) \/ Check(p)
  BY <1>2 DEF Connect, StreamEnds, Check, Same, TypeOK, ledgerVars, hookVars
<1>3. CASE Poll(p)
  BY <1>3 DEF Poll, Same, TypeOK, ledgerVars, hookVars
<1>4. CASE Receive(p)
  BY <1>4 DEF Receive, Same, TypeOK, ledgerVars
<1>5. CASE Blip(p)
  BY <1>5 DEF Blip, Same, TypeOK
<1> QED BY <1>1, <1>2, <1>3, <1>4, <1>5 DEF PageStep, Read

Mapped ==
  /\ target = [q \in Pages |-> target[q]] /\ since = [q \in Pages |-> since[q]]
  /\ seen = [q \in Pages |-> seen[q]] /\ link = [q \in Pages |-> link[q]]
  /\ over = [q \in Pages |-> over[q]] /\ heard = [q \in Pages |-> heard[q]]
  /\ feed = [q \in Pages |-> feed[q]] /\ wire = [q \in Pages |-> wire[q]]

LEMMA StepMapped ==
  ASSUME TypeOK, NEW p \in Pages, PageStep(p)
  PROVE  Mapped' /\ visits' \in 0..MaxVisits /\ mishaps' \in 0..MaxMishaps
<1>t. visits \in 0..MaxVisits /\ mishaps \in 0..MaxMishaps /\ MaxVisits \in Nat /\ MaxMishaps \in Nat
  BY PageAssumption, EventLedgerAssumption DEF TypeOK, LedgerTypeOK
<1>m. Mapped
  BY DEF TypeOK, Mapped
<1>1. CASE \E i \in Invs : Mount(p, i) \/ Switch(p, i)
  <2>1. PICK i, from : Subscribe(p, i, from)
    BY <1>1 DEF Mount, Switch
  <2>2. visits' \in 0..MaxVisits /\ mishaps' = mishaps
    BY <1>t, <2>1 DEF Subscribe, ledgerVars
  <2>3. Mapped'
    BY <1>m, <2>1 DEF Subscribe, Mapped
  <2> QED BY <1>t, <2>2, <2>3
<1>2. CASE Connect(p) \/ StreamEnds(p) \/ Check(p)
  <2>1. visits' = visits /\ mishaps' = mishaps
    BY <1>2 DEF Connect, StreamEnds, Check, ledgerVars
  <2>2. Mapped'
    BY <1>m, <1>2 DEF Connect, StreamEnds, Check, Mapped, hookVars
  <2> QED BY <1>t, <2>1, <2>2
<1>3. CASE Poll(p)
  <2>1. visits' = visits /\ mishaps' = mishaps
    BY <1>3 DEF Poll, ledgerVars
  <2>2. Mapped'
    BY <1>m, <1>3 DEF Poll, Mapped, hookVars
  <2> QED BY <1>t, <2>1, <2>2
<1>4. CASE Receive(p)
  <2>1. visits' = visits /\ mishaps' = mishaps
    BY <1>4 DEF Receive, ledgerVars
  <2>2. Mapped'
    BY <1>m, <1>4 DEF Receive, Mapped
  <2> QED BY <1>t, <2>1, <2>2
<1>5. CASE Blip(p)
  <2>1. visits' = visits /\ mishaps' \in 0..MaxMishaps
    BY <1>t, <1>5 DEF Blip, Fail
  <2>2. Mapped'
    BY <1>m, <1>5 DEF Blip, Mapped
  <2> QED BY <1>t, <2>1, <2>2
<1> QED BY <1>1, <1>2, <1>3, <1>4, <1>5 DEF PageStep, Read

(* What they do to it. *)
Subscribes(p) ==
  \E i \in Invs, from \in Numbers :
    /\ target'[p] = i /\ since'[p] = from /\ seen'[p] = from /\ link'[p] = "retry"
    /\ over'[p] = FALSE /\ heard'[p] = <<>> /\ feed'[p] = NoFeed /\ wire'[p] = <<>>

Keeps(p) == target'[p] = target[p] /\ since'[p] = since[p]

Connects(p) ==
  /\ Keeps(p) /\ seen'[p] = seen[p] /\ over'[p] = over[p] /\ heard'[p] = heard[p]
  /\ wire'[p] = wire[p]
  /\ link[p] = "retry" /\ link'[p] = "up"
  /\ feed'[p] = [at |-> "poll", cursor |-> seen[p], left |-> Polls, got |-> FALSE]

PollsOn(p) ==
  /\ Keeps(p) /\ seen'[p] = seen[p] /\ over'[p] = over[p] /\ heard'[p] = heard[p]
  /\ link'[p] = link[p]
  /\ feed[p].at = "poll"
  /\ \E page \in FirstOf(After(target[p], feed[p].cursor)), got \in BOOLEAN :
       /\ wire'[p] = wire[p] \o page
       /\ feed'[p] = [at |-> "check", left |-> feed[p].left, got |-> got,
                      cursor |-> IF page = <<>> THEN feed[p].cursor ELSE Last(page)]

ChecksOn(p) ==
  /\ Keeps(p) /\ seen'[p] = seen[p] /\ over'[p] = over[p] /\ heard'[p] = heard[p]
  /\ link'[p] = link[p] /\ wire'[p] = wire[p]
  /\ feed[p].at = "check"
  /\ \E next \in {"poll", "end"} :
       /\ next = "poll" => feed[p].left # 1
       /\ feed'[p] = [at |-> next, cursor |-> feed[p].cursor, left |-> feed[p].left - 1,
                      got |-> FALSE]

Hears(p) ==
  /\ Keeps(p)
  /\ wire[p] # <<>>
  /\ seen'[p] = Max({seen[p], Head(wire[p])})
  /\ heard'[p] = Append(heard[p], Head(wire[p]))
  /\ over'[p] \in BOOLEAN
  /\ \/ link'[p] = link[p] /\ feed'[p] = feed[p] /\ wire'[p] = Tail(wire[p])
     \/ link'[p] = "off" /\ feed'[p] = NoFeed /\ wire'[p] = <<>>

Drops(p) ==
  /\ Keeps(p) /\ seen'[p] = seen[p] /\ over'[p] = over[p] /\ heard'[p] = heard[p]
  /\ link'[p] = "retry" /\ feed'[p] = NoFeed /\ wire'[p] = <<>>

PageEffect(p) ==
  Subscribes(p) \/ Connects(p) \/ PollsOn(p) \/ ChecksOn(p) \/ Hears(p) \/ Drops(p)

LEMMA StepEffect ==
  ASSUME LedgerInv, TypeOK, NEW p \in Pages, PageStep(p)
  PROVE  PageEffect(p)
<1>t. /\ target \in [Pages -> Invs \cup {None}] /\ since \in [Pages -> Numbers]
      /\ seen \in [Pages -> Numbers] /\ link \in [Pages -> {"off", "retry", "up"}]
      /\ over \in [Pages -> BOOLEAN] /\ heard \in [Pages -> Seq(Numbers)]
      /\ feed \in [Pages -> [at : {"none", "poll", "check", "end"}, cursor : Numbers,
                             left : 0..Polls, got : BOOLEAN]]
      /\ wire \in [Pages -> Seq(Numbers)]
  BY DEF TypeOK
<1>1. CASE \E i \in Invs : Mount(p, i) \/ Switch(p, i)
  <2>1. PICK i \in Invs, from \in Numbers : Subscribe(p, i, from)
    <3>1. 0 \in Numbers /\ {r.seq : r \in rows} \subseteq Numbers
      BY CommittedAreNumbers DEF LedgerInv, Shape, Numbered, Numbers
    <3> QED BY <1>1, <3>1 DEF Mount, Switch
  <2> QED BY <1>t, <2>1 DEF Subscribe, PageEffect, Subscribes
<1>2. CASE Connect(p)
  BY <1>t, <1>2 DEF Connect, PageEffect, Connects, Keeps
<1>3. CASE Poll(p)
  <2>1. PICK page \in FirstOf(After(target[p], feed[p].cursor)) :
          /\ wire' = [wire EXCEPT ![p] = @ \o page]
          /\ feed' = [feed EXCEPT ![p].at = "check",
                                  ![p].got = page # <<>>,
                                  ![p].cursor = IF page = <<>> THEN @ ELSE Last(page)]
    BY <1>3 DEF Poll
  <2> DEFINE got == page # <<>>
             cursor == IF page = <<>> THEN feed[p].cursor ELSE Last(page)
  <2>2. got \in BOOLEAN
    OBVIOUS
  <2>3. feed' = [feed EXCEPT ![p].at = "check", ![p].got = got, ![p].cursor = cursor]
    BY <1>t, <2>1
  <2> HIDE DEF got, cursor
  <2>4. feed'[p] = [at |-> "check", left |-> feed[p].left, got |-> got, cursor |-> cursor]
    BY <1>t, <2>3
  <2>5. wire'[p] = wire[p] \o page
    BY <1>t, <2>1
  <2> QED BY <1>3, <1>t, <2>2, <2>4, <2>5 DEF Poll, hookVars, PageEffect, PollsOn, Keeps, cursor
<1>4. CASE Check(p)
  <2> DEFINE next == IF \/ status[target[p]] \in Terminal /\ ~feed[p].got
                        \/ feed[p].left = 1
                     THEN "end" ELSE "poll"
  <2>1. next \in {"poll", "end"} /\ (next = "poll" => feed[p].left # 1)
    OBVIOUS
  <2>2. feed' = [feed EXCEPT ![p].at = next, ![p].left = @ - 1, ![p].got = FALSE]
    BY <1>4 DEF Check
  <2> HIDE DEF next
  <2> DEFINE f == feed[p]
  <2>a. feed'[p] = [f EXCEPT !.at = next, !.left = @ - 1, !.got = FALSE]
    BY <1>t, <2>2
  <2>b. f \in [at : {"none", "poll", "check", "end"}, cursor : Numbers, left : 0..Polls, got : BOOLEAN]
    BY <1>t
  <2> HIDE DEF f
  <2>c. feed'[p] = [at |-> next, cursor |-> f.cursor, left |-> f.left - 1, got |-> FALSE]
    BY <2>a, <2>b
  <2>3. feed'[p] = [at |-> next, cursor |-> feed[p].cursor, left |-> feed[p].left - 1, got |-> FALSE]
    BY <2>c DEF f
  <2> QED BY <1>4, <1>t, <2>1, <2>3 DEF Check, hookVars, PageEffect, ChecksOn, Keeps
<1>5. CASE Receive(p)
  <2> DEFINE last == KindOf(Head(wire[p])) \in Terminal
  <2>1. /\ wire[p] # <<>>
        /\ seen'[p] = Max({seen[p], Head(wire[p])})
        /\ heard'[p] = Append(heard[p], Head(wire[p]))
        /\ over'[p] = last
        /\ target' = target /\ since' = since
    BY <1>5, <1>t DEF Receive
  <2>2. CASE last
    <3>1. link'[p] = "off" /\ feed'[p] = NoFeed /\ wire'[p] = <<>>
      BY <1>5, <1>t, <2>2 DEF Receive
    <3> QED BY <2>1, <3>1 DEF PageEffect, Hears, Keeps
  <2>3. CASE ~last
    <3>1. link'[p] = link[p] /\ feed'[p] = feed[p] /\ wire'[p] = Tail(wire[p])
      BY <1>5, <1>t, <2>3 DEF Receive
    <3> QED BY <2>1, <3>1 DEF PageEffect, Hears, Keeps
  <2> QED BY <2>2, <2>3
<1>6. CASE StreamEnds(p) \/ Blip(p)
  BY <1>6, <1>t DEF StreamEnds, Blip, PageEffect, Drops, Keeps
<1> QED BY <1>1, <1>2, <1>3, <1>4, <1>5, <1>6 DEF PageStep, Read

-----------------------------------------------------------------------------
(* The types *)

Feeds == [at : {"none", "poll", "check", "end"}, cursor : Numbers, left : 0..Polls, got : BOOLEAN]

PageTyped(p) ==
  /\ target[p] \in Invs \cup {None}
  /\ since[p] \in Numbers
  /\ seen[p] \in Numbers
  /\ link[p] \in {"off", "retry", "up"}
  /\ over[p] \in BOOLEAN
  /\ heard[p] \in Seq(Numbers)
  /\ feed[p] \in Feeds
  /\ wire[p] \in Seq(Numbers)

LEMMA TypedByPage ==
  TypeOK <=> LedgerTypeOK /\ Mapped /\ (\A p \in Pages : PageTyped(p)) /\ visits \in 0..MaxVisits
BY DEF TypeOK, Mapped, PageTyped, Feeds

LEMMA EffectTyped ==
  ASSUME LedgerInv, NEW p \in Pages, PageTyped(p), Linked(p), PageEffect(p),
         UNCHANGED <<rows, nextval>>
  PROVE  PageTyped(p)' /\ Linked(p)'
<1>n. /\ Numbers' = Numbers /\ Numbers \subseteq Nat /\ 0 \in Numbers
      /\ Polls \in Nat \ {0}
  BY CommittedAreNumbers, PageAssumption DEF Numbers
<1>f. NoFeed \in Feeds /\ NoFeed.at = "none"
  BY <1>n DEF NoFeed, Feeds
<1>g. Feeds' = Feeds
  BY <1>n DEF Feeds
<1>e. <<>> \in Seq(Numbers)
  OBVIOUS
<1>1. CASE Subscribes(p)
  BY <1>1, <1>e, <1>f, <1>g, <1>n DEF Subscribes, PageTyped, Linked
<1>2. CASE Connects(p)
  <2>1. feed'[p] \in Feeds /\ feed'[p].at = "poll" /\ feed'[p].left # 0
    BY <1>2, <1>n DEF Connects, PageTyped, Feeds
  <2> QED BY <1>2, <1>g, <1>n, <2>1 DEF Connects, Keeps, PageTyped, Linked
<1>3. CASE PollsOn(p)
  <2>1. PICK page \in FirstOf(After(target[p], feed[p].cursor)), got \in BOOLEAN :
          /\ wire'[p] = wire[p] \o page
          /\ feed'[p] = [at |-> "check", left |-> feed[p].left, got |-> got,
                         cursor |-> IF page = <<>> THEN feed[p].cursor ELSE Last(page)]
    BY <1>3 DEF PollsOn
  <2>2. After(target[p], feed[p].cursor) \subseteq Numbers
    BY CommittedAreNumbers, AfterIs
  <2>3. ToSet(page) \subseteq Numbers /\ page \in Seq(Nat)
        /\ (page # <<>> => Last(page) \in Numbers)
    BY <1>n, <2>2, PageIsFirst
  <2>4. page \in Seq(Numbers)
    <3>1. ToSet(page) = {page[m] : m \in 1..Len(page)} /\ Len(page) \in Nat
          /\ page \in [1..Len(page) -> Nat]
      BY <2>3, SetOf
    <3>2. page \in [1..Len(page) -> Numbers]
      BY <2>3, <3>1
    <3> QED BY <3>1, <3>2
  <2>5. wire'[p] \in Seq(Numbers)
    BY <2>1, <2>4 DEF PageTyped
  <2>6. /\ feed'[p] \in Feeds /\ feed'[p].at = "check" /\ feed'[p].left = feed[p].left
    BY <2>1, <2>3 DEF PageTyped, Feeds
  <2> QED BY <1>3, <1>g, <1>n, <2>5, <2>6 DEF PollsOn, Keeps, PageTyped, Linked
<1>4. CASE ChecksOn(p)
  <2>1. PICK next \in {"poll", "end"} :
          /\ next = "poll" => feed[p].left # 1
          /\ feed'[p] = [at |-> next, cursor |-> feed[p].cursor, left |-> feed[p].left - 1,
                         got |-> FALSE]
    BY <1>4 DEF ChecksOn
  <2>2. feed[p].left \in 1..Polls /\ feed[p].cursor \in Numbers /\ feed[p].at = "check"
    BY <1>4, <1>n DEF ChecksOn, PageTyped, Feeds, Linked
  <2>3. /\ feed'[p] \in Feeds /\ feed'[p].at = next
        /\ (feed'[p].at = "poll" => feed'[p].left # 0)
    BY <1>n, <2>1, <2>2 DEF Feeds
  <2> QED BY <1>4, <1>g, <1>n, <2>2, <2>3 DEF ChecksOn, Keeps, PageTyped, Linked
<1>5. CASE Hears(p)
  <2>1. /\ wire[p] # <<>> /\ wire[p] \in Seq(Numbers) /\ Head(wire[p]) \in Numbers
        /\ Tail(wire[p]) \in Seq(Numbers)
    BY <1>5 DEF Hears, PageTyped
  <2>2. heard'[p] \in Seq(Numbers)
    BY <1>5, <2>1 DEF Hears, PageTyped
  <2>3. seen'[p] \in Numbers
    <3>1. seen[p] \in Numbers /\ seen'[p] = Max({seen[p], Head(wire[p])})
      BY <1>5 DEF Hears, PageTyped
    <3>2. ASSUME NEW m \in Numbers, NEW n \in Numbers PROVE Max({m, n}) \in {m, n}
      <4>1. \E x \in {m, n} : \A y \in {m, n} : x >= y
        BY <1>n
      <4> QED BY <4>1 DEF Max
    <3> QED BY <2>1, <3>1, <3>2
  <2>4. wire'[p] \in Seq(Numbers) /\ feed'[p] \in Feeds
    BY <1>5, <1>e, <1>f, <2>1 DEF Hears, PageTyped
  <2>5. Linked(p)'
    <3>1. CASE link'[p] = link[p] /\ feed'[p] = feed[p] /\ wire'[p] = Tail(wire[p])
      BY <2>1, <3>1 DEF Linked
    <3>2. CASE link'[p] = "off" /\ feed'[p] = NoFeed /\ wire'[p] = <<>>
      BY <1>f, <3>2 DEF Linked
    <3> QED BY <1>5, <3>1, <3>2 DEF Hears
  <2>6. link'[p] \in {"off", "retry", "up"} /\ over'[p] \in BOOLEAN /\ Keeps(p)
    BY <1>5 DEF Hears, PageTyped
  <2> QED BY <1>g, <1>n, <2>2, <2>3, <2>4, <2>5, <2>6 DEF Keeps, PageTyped
<1>6. CASE Drops(p)
  BY <1>6, <1>e, <1>f, <1>g, <1>n DEF Drops, Keeps, PageTyped, Linked
<1> QED BY <1>1, <1>2, <1>3, <1>4, <1>5, <1>6 DEF PageEffect

LEMMA InitShape == Init => ShapeInv
<1> SUFFICES ASSUME Init PROVE ShapeInv
  OBVIOUS
<1>1. LedgerInv
  BY InitLedger
<1>2. 0 \in Numbers /\ <<>> \in Seq(Numbers)
  BY <1>1, CommittedAreNumbers
<1>3. LedgerTypeOK /\ Room
  BY EventLedgerAssumption DEF Init, LedgerInit, LedgerTypeOK, Room
<1>4. TypeOK /\ \A p \in Pages : Linked(p)
  BY <1>2, <1>3, PageAssumption DEF Init, TypeOK, Linked, NoFeed
<1> QED BY <1>1, <1>3, <1>4 DEF ShapeInv

LEMMA ShapeStep == ShapeInv /\ [Next]_vars => ShapeInv'
<1> SUFFICES ASSUME ShapeInv, [Next]_vars PROVE ShapeInv'
  OBVIOUS
<1>t. LedgerInv /\ LedgerInv' /\ TypeOK /\ Room /\ LedgerTypeOK /\ \A p \in Pages : Linked(p)
  BY NextKeeps DEF ShapeInv, TypeOK
<1>u. Mapped /\ (\A p \in Pages : PageTyped(p)) /\ visits \in 0..MaxVisits
  BY <1>t, TypedByPage
(* A step of the runners: the pages keep what they have. *)
<1>1. ASSUME UNCHANGED streamVars, Numbers \subseteq Numbers', LedgerTypeOK', Room'
      PROVE  ShapeInv'
  <2>1. \A p \in Pages : PageTyped(p)'
    <3> SUFFICES ASSUME NEW p \in Pages PROVE PageTyped(p)'
      OBVIOUS
    <3>1. PageTyped(p) /\ Same(p)
      BY <1>1, <1>u DEF streamVars, hookVars, feedVars, Same
    <3>2. heard[p] \in Seq(Numbers') /\ wire[p] \in Seq(Numbers')
      BY <1>1, <3>1, NumbersGrow DEF PageTyped
    <3>3. Feeds \subseteq Feeds'
      BY <1>1 DEF Feeds
    <3> QED BY <1>1, <3>1, <3>2, <3>3 DEF PageTyped, Same
  <2>2. Mapped' /\ visits' \in 0..MaxVisits
    BY <1>1, <1>u DEF streamVars, hookVars, feedVars, Mapped
  <2>4. TypeOK'
    BY <1>1, <2>1, <2>2 DEF TypeOK, Mapped, PageTyped, Feeds
  <2>5. \A p \in Pages : Linked(p)'
    BY <1>1, <1>t DEF streamVars, hookVars, feedVars, Linked
  <2> QED BY <1>1, <1>t, <2>4, <2>5 DEF ShapeInv
<1>2. ASSUME NEW i \in Invs, Launch(i) \/ Write(i), UNCHANGED streamVars
      PROVE  ShapeInv'
  <2>1. LedgerTypeOK' /\ Room'
    BY <1>2, <1>t, LedgerTypeStep
  <2>2. Numbers \subseteq Numbers'
    BY <1>2, <1>t, LedgerGrows DEF Grows
  <2> QED BY <1>1, <1>2, <2>1, <2>2
<1>3. ASSUME NEW p \in Pages, PageStep(p)
      PROVE  ShapeInv'
  <2>1. /\ UNCHANGED <<rows, nextval, inflight, status, runner, emitted>>
        /\ \A q \in Pages : q # p => Same(q)
    BY <1>3, <1>t, StepFrame
  <2>2. Mapped' /\ visits' \in 0..MaxVisits /\ mishaps' \in 0..MaxMishaps
    BY <1>3, <1>t, StepMapped
  <2>3. LedgerTypeOK' /\ Room'
    BY <1>t, <2>1, <2>2 DEF LedgerTypeOK, Room, Emits
  <2>4. PageTyped(p)' /\ Linked(p)'
    BY <1>3, <1>t, <1>u, <2>1, StepEffect, EffectTyped
  <2>5. ASSUME NEW q \in Pages, q # p
        PROVE  PageTyped(q)' /\ Linked(q)'
    <3>1. PageTyped(q) /\ Linked(q) /\ Same(q)
      BY <1>t, <1>u, <2>1, <2>5
    <3>2. Numbers' = Numbers
      BY <2>1 DEF Numbers
    <3>3. Feeds' = Feeds
      BY <3>2 DEF Feeds
    <3>4. Linked(q)'
      BY <3>1 DEF Linked, Same
    <3>5. PageTyped(q)'
      BY <3>1, <3>2, <3>3 DEF PageTyped, Same
    <3> QED BY <3>4, <3>5
  <2>6. TypeOK'
    BY <2>2, <2>3, <2>4, <2>5 DEF TypeOK, Mapped, PageTyped, Feeds
  <2> QED BY <1>t, <2>3, <2>4, <2>5, <2>6 DEF ShapeInv
<1>4. CASE ServerCrash
  <2>1. LedgerTypeOK' /\ Room' /\ Numbers' = Numbers
    BY <1>4, <1>t, LedgerTypeStep DEF ServerCrash, Crash, Numbers
  <2>2. NoFeed \in Feeds /\ NoFeed.at = "none" /\ <<>> \in Seq(Numbers)
    BY <1>t, CommittedAreNumbers, PageAssumption DEF NoFeed, Feeds
  <2>3. \A p \in Pages : /\ link'[p] = IF link[p] = "up" THEN "retry" ELSE link[p]
                         /\ feed'[p] = NoFeed /\ wire'[p] = <<>>
    BY <1>4 DEF ServerCrash
  <2>4. \A p \in Pages : PageTyped(p)' /\ Linked(p)'
    BY <1>4, <1>u, <2>1, <2>2, <2>3 DEF ServerCrash, PageTyped, Linked, Feeds
  <2>5. Mapped' /\ visits' \in 0..MaxVisits
    BY <1>4, <1>u DEF ServerCrash, Mapped
  <2>6. TypeOK'
    BY <2>1, <2>4, <2>5 DEF TypeOK, Mapped, PageTyped, Feeds
  <2> QED BY <1>t, <2>1, <2>4, <2>6 DEF ShapeInv
<1>5. CASE UNCHANGED vars
  <2>1. LedgerTypeOK' /\ Room' /\ Numbers' = Numbers /\ UNCHANGED streamVars
    BY <1>5, <1>t, LedgerTypeStep DEF vars, ledgerVars, Numbers
  <2> QED BY <1>1, <2>1
<1> QED BY <1>2, <1>3, <1>4, <1>5 DEF Next, PageStep

(* Every variable of the ledger and of its readers keeps its type: no page *)
(* holds a number the ledger has not given yet, no stream outlives its     *)
(* polls.                                                                  *)
THEOREM TypeCorrect == Spec => []TypeOK
<1>1. ShapeInv => TypeOK
  BY DEF ShapeInv
<1> QED BY <1>1, InitShape, ShapeStep, PTL DEF Spec

-----------------------------------------------------------------------------
(* What a page has heard *)

(* The committed events of i above low and up to high; and that high is    *)
(* the number of one, or low itself.                                       *)
Window(i, low, high) == {n \in Committed(i) : low < n /\ n <= high}
Marks(i, low, high) == high = low \/ (low < high /\ high \in Committed(i))

(* The page has heard the events from where it subscribed to seqRef, the   *)
(* frames under way are those from there to the cursor of its stream.      *)
HeardAt(p) ==
  /\ Ascends(heard[p])
  /\ ToSet(heard[p]) = Window(target[p], since[p], seen[p])
  /\ Marks(target[p], since[p], seen[p])

WireAt(p) ==
  /\ Ascends(wire[p])
  /\ ToSet(wire[p]) = Window(target[p], seen[p], feed[p].cursor)
  /\ Marks(target[p], seen[p], feed[p].cursor)

Hearing(p) ==
  target[p] # None => HeardAt(p) /\ (feed[p].at # "none" => WireAt(p))

StreamInv == ShapeInv /\ \A p \in Pages : Hearing(p)

LEMMA WindowEmpty == ASSUME LedgerInv, NEW i, NEW n \in Nat
                     PROVE  Window(i, n, n) = {} /\ Marks(i, n, n)
BY CommittedAreNumbers DEF Window, Marks

(* A window that ends at a committed event gets no other: an event that    *)
(* becomes visible later is above it.  This is what one writer per         *)
(* investigation, which awaits each commit, gives to the readers.          *)
LEMMA WindowStays ==
  ASSUME LedgerInv, LedgerInv', Grows, NEW i \in Invs, NEW low \in Nat, NEW high \in Nat,
         Marks(i, low, high)
  PROVE  Window(i, low, high)' = Window(i, low, high) /\ Marks(i, low, high)'
<1>1. /\ Committed(i) \subseteq Committed(i)' /\ Committed(i)' \subseteq Nat
      /\ \A n \in Committed(i)' \ Committed(i) : \A m \in Committed(i) : m < n
  BY DEF Grows, LedgerInv, Shape, Committed, RowsOf
<1>2. ASSUME NEW n \in Committed(i)' \ Committed(i), low < n, n <= high
      PROVE  FALSE
  <2>1. n \in Nat /\ low # high
    BY <1>1, <1>2
  <2>2. high < n
    BY <1>1, <2>1 DEF Marks
  <2> QED BY <1>2, <2>1, <2>2
<1> QED BY <1>1, <1>2 DEF Window, Marks

LEMMA SameWindow ==
  ASSUME UNCHANGED rows, NEW i
  PROVE  /\ Committed(i)' = Committed(i)
         /\ \A low, high : /\ Window(i, low, high)' = Window(i, low, high)
                           /\ Marks(i, low, high)' = Marks(i, low, high)
BY DEF Committed, RowsOf, Window, Marks

(* The poll: the window of the wire grows by the page. *)
LEMMA PollWidens ==
  ASSUME LedgerInv, NEW i, NEW low \in Nat, NEW cursor \in Nat, NEW s \in Seq(Nat),
         Ascends(s), ToSet(s) = Window(i, low, cursor), Marks(i, low, cursor),
         NEW page \in FirstOf(After(i, cursor)),
         NEW next, next = IF page = <<>> THEN cursor ELSE Last(page)
  PROVE  /\ Ascends(s \o page) /\ ToSet(s \o page) = Window(i, low, next)
         /\ Marks(i, low, next)
<1>1. After(i, cursor) = {m \in Committed(i) : m > cursor} /\ Committed(i) \subseteq Nat
  BY AfterIs, CommittedAreNumbers
<1>2. After(i, cursor) \in SUBSET Nat
  BY <1>1
<1>3. /\ page \in Seq(Nat) /\ Ascends(page) /\ ToSet(page) \subseteq After(i, cursor)
      /\ page # <<>> => /\ Last(page) \in ToSet(page)
                        /\ \A n \in After(i, cursor) : n <= Last(page) <=> n \in ToSet(page)
      /\ page = <<>> => ToSet(page) = {}
  BY <1>2, PageIsFirst
<1>4. low <= cursor
  BY DEF Marks
<1>5. \A m \in ToSet(s), n \in ToSet(page) : m < n
  BY <1>1, <1>3 DEF Window
<1>6. Ascends(s \o page) /\ ToSet(s \o page) = ToSet(s) \cup ToSet(page)
  BY <1>3, <1>5, AscendsConcat
<1>7. CASE page = <<>>
  BY <1>3, <1>6, <1>7
<1>8. CASE page # <<>>
  <2>1. next \in Nat /\ cursor < next /\ next \in Committed(i)
        /\ \A n \in After(i, cursor) : n <= next <=> n \in ToSet(page)
    BY <1>1, <1>3, <1>8
  <2>2. Window(i, low, next) = Window(i, low, cursor) \cup ToSet(page)
    <3>1. Window(i, low, next) \subseteq Window(i, low, cursor) \cup ToSet(page)
      BY <1>1, <2>1 DEF Window
    <3>2. Window(i, low, cursor) \subseteq Window(i, low, next)
      BY <1>1, <2>1 DEF Window
    <3>3. ToSet(page) \subseteq Window(i, low, next)
      BY <1>1, <1>3, <1>4, <2>1 DEF Window
    <3> QED BY <3>1, <3>2, <3>3
  <2>3. Marks(i, low, next)
    BY <1>4, <2>1 DEF Marks
  <2> QED BY <1>6, <2>2, <2>3
<1> QED BY <1>7, <1>8

(* The browser: the first frame moves from the wire to the page. *)
LEMMA HearMoves ==
  ASSUME LedgerInv, NEW p \in Pages, HeardAt(p), WireAt(p), wire[p] # <<>>,
         since[p] \in Nat, seen[p] \in Nat, feed[p].cursor \in Nat,
         heard[p] \in Seq(Nat), wire[p] \in Seq(Nat),
         NEW n, n = Head(wire[p])
  PROVE  /\ Max({seen[p], n}) = n
         /\ Ascends(Append(heard[p], n))
         /\ ToSet(Append(heard[p], n)) = Window(target[p], since[p], n)
         /\ Marks(target[p], since[p], n)
         /\ Ascends(Tail(wire[p]))
         /\ ToSet(Tail(wire[p])) = Window(target[p], n, feed[p].cursor)
         /\ Marks(target[p], n, feed[p].cursor)
<1> DEFINE from == since[p]  mid == seen[p]  cursor == feed[p].cursor
           h == heard[p]     w == wire[p]    i == target[p]
<1>h. /\ from \in Nat /\ mid \in Nat /\ h \in Seq(Nat)
      /\ Ascends(h) /\ ToSet(h) = Window(i, from, mid) /\ Marks(i, from, mid)
  BY DEF HeardAt
<1>w. /\ cursor \in Nat /\ w \in Seq(Nat) /\ w # <<>> /\ n = Head(w)
      /\ Ascends(w) /\ ToSet(w) = Window(i, mid, cursor) /\ Marks(i, mid, cursor)
  BY DEF WireAt
<1> SUFFICES /\ Max({mid, n}) = n
             /\ Ascends(Append(h, n)) /\ ToSet(Append(h, n)) = Window(i, from, n)
             /\ Marks(i, from, n)
             /\ Ascends(Tail(w)) /\ ToSet(Tail(w)) = Window(i, n, cursor)
             /\ Marks(i, n, cursor)
  OBVIOUS
<1> HIDE DEF from, mid, cursor, h, w, i
<1>1. /\ n \in ToSet(w) /\ \A m \in ToSet(w) : n <= m
      /\ Ascends(Tail(w)) /\ ToSet(Tail(w)) = ToSet(w) \ {n}
  BY <1>w, AscendsTail
<1>2. Committed(i) \subseteq Nat
  BY CommittedAreNumbers
<1>3. n \in Nat /\ n \in Committed(i) /\ mid < n /\ n <= cursor
  BY <1>1, <1>2, <1>w DEF Window
<1>4. from <= mid
  BY <1>h DEF Marks
<1>5. \A m \in ToSet(h) : m < n
  BY <1>2, <1>3, <1>h DEF Window
<1>6. Ascends(Append(h, n)) /\ ToSet(Append(h, n)) = ToSet(h) \cup {n}
  BY <1>3, <1>5, <1>h, AscendsAppend
(* No event lies between seqRef and the first frame. *)
<1>7. \A m \in Committed(i) : mid < m /\ m < n => FALSE
  <2> SUFFICES ASSUME NEW m \in Committed(i), mid < m, m < n PROVE FALSE
    OBVIOUS
  <2>1. m \in Nat /\ m \in ToSet(w)
    BY <1>2, <1>3, <1>w DEF Window
  <2> QED BY <1>1, <1>3, <2>1
<1>8. Window(i, from, n) = Window(i, from, mid) \cup {n}
  BY <1>h, <1>2, <1>3, <1>4, <1>7 DEF Window
<1>9. Window(i, n, cursor) = Window(i, mid, cursor) \ {n}
  <2>1. mid \in Nat /\ cursor \in Nat
    BY <1>h, <1>w
  <2>2. \A m \in Committed(i) : n < m <=> mid < m /\ m # n
    BY <1>2, <1>3, <1>7, <2>1
  <2> QED BY <2>2 DEF Window
<1>10. Marks(i, from, n)
  BY <1>3, <1>4, <1>h DEF Marks
<1>11. Marks(i, n, cursor)
  BY <1>3, <1>w, <1>h DEF Marks
<1>12. Max({mid, n}) = n
  BY <1>3, <1>h, MaxOfTwo
<1> QED BY <1>h, <1>w, <1>1, <1>6, <1>8, <1>9, <1>10, <1>11, <1>12

LEMMA EffectHears ==
  ASSUME LedgerInv, LedgerInv', NEW p \in Pages, PageTyped(p), Linked(p), Hearing(p),
         PageEffect(p), UNCHANGED <<rows, nextval>>
  PROVE  Hearing(p)'
<1>n. /\ Numbers \subseteq Nat /\ since[p] \in Nat /\ seen[p] \in Nat
      /\ feed[p].cursor \in Nat
  BY CommittedAreNumbers DEF PageTyped, Feeds
<1>s. heard[p] \in Seq(Nat) /\ wire[p] \in Seq(Nat)
  <2>1. \A s \in Seq(Numbers) : s \in Seq(Nat)
    <3> SUFFICES ASSUME NEW s \in Seq(Numbers) PROVE s \in Seq(Nat)
      OBVIOUS
    <3>1. Len(s) \in Nat /\ s \in [1..Len(s) -> Numbers]
      OBVIOUS
    <3>2. s \in [1..Len(s) -> Nat]
      BY <1>n, <3>1
    <3> QED BY <3>1, <3>2
  <2> QED BY <2>1 DEF PageTyped
<1>e. Ascends(<<>>) /\ ToSet(<<>>) = {}
  BY AscendsEmpty
<1>w. \A i : /\ Committed(i)' = Committed(i)
             /\ \A low, high : /\ Window(i, low, high)' = Window(i, low, high)
                               /\ Marks(i, low, high)' = Marks(i, low, high)
  BY SameWindow
<1>1. CASE Subscribes(p)
  <2>1. PICK i \in Invs, from \in Numbers :
          /\ target'[p] = i /\ since'[p] = from /\ seen'[p] = from
          /\ heard'[p] = <<>> /\ feed'[p] = NoFeed
    BY <1>1 DEF Subscribes
  <2>2. Window(i, from, from) = {} /\ Marks(i, from, from)
    BY <1>n, WindowEmpty
  <2>3. HeardAt(p)'
    BY <1>e, <1>w, <2>1, <2>2 DEF HeardAt, Window, Marks
  <2> QED BY <2>1, <2>3 DEF Hearing, NoFeed
<1> SUFFICES ASSUME target[p] # None, Keeps(p)
             PROVE  HeardAt(p)' /\ (feed'[p].at # "none" => WireAt(p)')
  BY <1>1 DEF Hearing, Keeps, PageEffect, Connects, PollsOn, ChecksOn, Hears, Drops
<1>h. HeardAt(p) /\ (feed[p].at # "none" => WireAt(p))
  BY DEF Hearing
(* seqRef and what was heard stay. *)
<1>k. seen'[p] = seen[p] /\ heard'[p] = heard[p] => HeardAt(p)'
  BY <1>h, <1>w DEF HeardAt, Keeps, Window, Marks
<1>2. CASE Connects(p)
  <2>1. /\ feed'[p].cursor = seen[p] /\ seen'[p] = seen[p] /\ heard'[p] = heard[p]
        /\ wire'[p] = <<>>
    BY <1>2 DEF Connects, Linked
  <2>2. Window(target[p], seen[p], seen[p]) = {} /\ Marks(target[p], seen[p], seen[p])
    BY <1>n, WindowEmpty
  <2>3. WireAt(p)'
    BY <1>e, <1>w, <2>1, <2>2 DEF WireAt, Keeps, Window, Marks
  <2> QED BY <1>k, <2>1, <2>3
<1>3. CASE PollsOn(p)
  <2>1. PICK page \in FirstOf(After(target[p], feed[p].cursor)), got \in BOOLEAN :
          /\ wire'[p] = wire[p] \o page
          /\ feed'[p] = [at |-> "check", left |-> feed[p].left, got |-> got,
                         cursor |-> IF page = <<>> THEN feed[p].cursor ELSE Last(page)]
    BY <1>3 DEF PollsOn
  <2>2. WireAt(p)
    BY <1>3, <1>h DEF PollsOn
  <2> DEFINE next == IF page = <<>> THEN feed[p].cursor ELSE Last(page)
             old == feed[p].cursor
  <2>a. feed'[p].cursor = next
    BY <2>1
  <2>b. /\ Ascends(wire[p]) /\ ToSet(wire[p]) = Window(target[p], seen[p], old)
        /\ Marks(target[p], seen[p], old) /\ old \in Nat
        /\ page \in FirstOf(After(target[p], old))
        /\ next = IF page = <<>> THEN old ELSE Last(page)
    BY <1>n, <2>2 DEF WireAt
  <2> HIDE DEF old, next
  <2>c. /\ Ascends(wire[p] \o page) /\ ToSet(wire[p] \o page) = Window(target[p], seen[p], next)
        /\ Marks(target[p], seen[p], next)
    BY <1>n, <1>s, <2>b, PollWidens
  <2>3. /\ Ascends(wire'[p]) /\ ToSet(wire'[p]) = Window(target[p], seen[p], feed'[p].cursor)
        /\ Marks(target[p], seen[p], feed'[p].cursor)
    BY <2>1, <2>a, <2>c
  <2>4. WireAt(p)'
    BY <1>3, <1>w, <2>3 DEF WireAt, PollsOn, Keeps, Window, Marks
  <2> QED BY <1>3, <1>k, <2>4 DEF PollsOn
<1>4. CASE ChecksOn(p)
  <2>1. /\ wire'[p] = wire[p] /\ seen'[p] = seen[p] /\ heard'[p] = heard[p]
        /\ feed'[p].cursor = feed[p].cursor /\ feed[p].at # "none"
    BY <1>4 DEF ChecksOn
  <2>2. WireAt(p)'
    BY <1>h, <1>w, <2>1 DEF WireAt, Keeps, Window, Marks
  <2> QED BY <1>k, <2>1, <2>2
<1>5. CASE Hears(p)
  <2> DEFINE n == Head(wire[p])
  <2>1. wire[p] # <<>> /\ feed[p].at # "none" /\ WireAt(p)
    BY <1>5, <1>h DEF Hears, Linked
  <2>2. /\ Max({seen[p], n}) = n
        /\ Ascends(Append(heard[p], n))
        /\ ToSet(Append(heard[p], n)) = Window(target[p], since[p], n)
        /\ Marks(target[p], since[p], n)
        /\ Ascends(Tail(wire[p]))
        /\ ToSet(Tail(wire[p])) = Window(target[p], n, feed[p].cursor)
        /\ Marks(target[p], n, feed[p].cursor)
    BY <1>n, <1>s, <1>h, <2>1, HearMoves
  <2>3. seen'[p] = n /\ heard'[p] = Append(heard[p], n)
    BY <1>5, <2>2 DEF Hears
  <2> HIDE DEF n
  <2>4. HeardAt(p)'
    BY <1>w, <2>2, <2>3 DEF HeardAt, Keeps, Window, Marks
  <2>5. CASE feed'[p] = feed[p] /\ wire'[p] = Tail(wire[p])
    <3>1. WireAt(p)'
      BY <1>w, <2>2, <2>3, <2>5 DEF WireAt, Keeps, Window, Marks
    <3> QED BY <2>4, <3>1
  <2>6. CASE feed'[p] = NoFeed
    BY <2>4, <2>6 DEF NoFeed
  <2> QED BY <1>5, <2>5, <2>6 DEF Hears
<1>6. CASE Drops(p)
  BY <1>6, <1>k DEF Drops, NoFeed
<1> QED BY <1>1, <1>2, <1>3, <1>4, <1>5, <1>6 DEF PageEffect, Hearing, Keeps

LEMMA InitHears == Init => StreamInv
BY InitShape DEF Init, StreamInv, Hearing

LEMMA StreamKeeps == StreamInv /\ [Next]_vars => StreamInv'
<1> SUFFICES ASSUME StreamInv, [Next]_vars PROVE StreamInv'
  OBVIOUS
<1>t. /\ ShapeInv /\ ShapeInv' /\ LedgerInv /\ LedgerInv' /\ TypeOK
      /\ \A p \in Pages : PageTyped(p) /\ Linked(p) /\ Hearing(p)
  BY ShapeStep, TypedByPage DEF StreamInv, ShapeInv
<1>n. \A p \in Pages : since[p] \in Nat /\ seen[p] \in Nat /\ feed[p].cursor \in Nat
  BY <1>t, CommittedAreNumbers DEF PageTyped, Feeds
(* A page that keeps what it has, while the runners write. *)
<1>1. ASSUME Grows, NEW p \in Pages, Same(p)
      PROVE  Hearing(p)'
  <2> SUFFICES ASSUME target[p] # None
               PROVE  HeardAt(p)' /\ (feed[p].at # "none" => WireAt(p)')
    BY <1>1 DEF Same, Hearing
  <2>1. target[p] \in Invs /\ HeardAt(p) /\ (feed[p].at # "none" => WireAt(p))
    BY <1>t DEF PageTyped, Hearing
  <2>2. \A i \in Invs, low, high \in Nat : Marks(i, low, high) =>
          Window(i, low, high)' = Window(i, low, high) /\ Marks(i, low, high)'
    BY <1>1, <1>t, WindowStays
  <2>3. HeardAt(p)'
    BY <1>1, <1>n, <2>1, <2>2 DEF Same, HeardAt, Window, Marks
  <2>4. ASSUME feed[p].at # "none" PROVE WireAt(p)'
    BY <1>1, <1>n, <2>1, <2>2, <2>4 DEF Same, WireAt, Window, Marks
  <2> QED BY <2>3, <2>4
<1>2. ASSUME NEW i \in Invs, Launch(i) \/ Write(i), UNCHANGED streamVars
      PROVE  StreamInv'
  <2>1. Grows
    BY <1>2, <1>t, LedgerGrows
  <2>2. \A p \in Pages : Same(p)
    BY <1>2 DEF streamVars, hookVars, feedVars, Same
  <2> QED BY <1>1, <1>t, <2>1, <2>2 DEF StreamInv
<1>s. UNCHANGED <<rows, nextval>> => Grows
  BY DEF Grows, Numbers, Committed, RowsOf
<1>3. ASSUME NEW p \in Pages, PageStep(p)
      PROVE  StreamInv'
  <2>1. UNCHANGED <<rows, nextval>> /\ \A q \in Pages : q # p => Same(q)
    BY <1>3, <1>t, StepFrame
  <2>2. Hearing(p)'
    BY <1>3, <1>t, <2>1, StepEffect, EffectHears
  <2>3. \A q \in Pages : q # p => Hearing(q)'
    BY <1>1, <1>s, <2>1
  <2> QED BY <1>t, <2>2, <2>3 DEF StreamInv
<1>4. CASE ServerCrash
  <2>1. UNCHANGED <<rows, nextval>>
    BY <1>4 DEF ServerCrash, Crash
  <2>2. ASSUME NEW p \in Pages PROVE Hearing(p)'
    <3>1. /\ target'[p] = target[p] /\ since'[p] = since[p] /\ seen'[p] = seen[p]
          /\ heard'[p] = heard[p] /\ feed'[p].at = "none"
      BY <1>4 DEF ServerCrash, NoFeed
    <3>2. Hearing(p) /\ \A i, low, high : /\ Window(i, low, high)' = Window(i, low, high)
                                          /\ Marks(i, low, high)' = Marks(i, low, high)
      BY <1>t, <2>1, SameWindow
    <3> QED BY <3>1, <3>2 DEF Hearing, HeardAt, Window, Marks
  <2> QED BY <1>t, <2>2 DEF StreamInv
<1>5. CASE UNCHANGED vars
  <2>1. Grows /\ \A p \in Pages : Same(p)
    BY <1>5, <1>s DEF vars, ledgerVars, streamVars, hookVars, feedVars, Same
  <2> QED BY <1>1, <1>t, <2>1 DEF StreamInv
<1> QED BY <1>2, <1>3, <1>4, <1>5 DEF Next, PageStep

THEOREM StreamInvariant == Spec => []StreamInv
<1> QED BY InitHears, StreamKeeps, PTL DEF Spec

(* A page has heard exactly what the ledger holds of its investigation     *)
(* from where it subscribed up to seqRef, in order, each event once,       *)
(* whatever streams were recycled, broken or lost with their server and    *)
(* however the runners of other investigations draw and commit numbers.    *)
THEOREM PagesHearExactly == Spec => []HeardExactly
<1>1. StreamInv => HeardExactly
  <2> SUFFICES ASSUME StreamInv, NEW p \in Pages, target[p] # None
               PROVE  /\ Ascends(heard[p])
                      /\ ToSet(heard[p]) = {n \in After(target[p], since[p]) : n <= seen[p]}
    BY DEF HeardExactly
  <2>1. HeardAt(p) /\ LedgerInv /\ since[p] \in Nat /\ seen[p] \in Nat
    BY CommittedAreNumbers, TypedByPage DEF StreamInv, ShapeInv, Hearing, PageTyped
  <2>2. /\ After(target[p], since[p]) = {m \in Committed(target[p]) : m > since[p]}
        /\ Committed(target[p]) \subseteq Nat
    BY <2>1, AfterIs, CommittedAreNumbers
  <2> QED BY <2>1, <2>2 DEF HeardAt, Window
<1> QED BY <1>1, StreamInvariant, PTL
=============================================================================
