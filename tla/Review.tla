------------------------------- MODULE Review -------------------------------
(***************************************************************************)
(* The moderation of corrections: the queue of                             *)
(* opsrag/pending_corrections.py, the chunks of opsrag/correction_store.py *)
(* and the handlers of opsrag/api/routes.py that join them.                *)
(*                                                                         *)
(* A correction is a slot, its question and its author, and a text; the    *)
(* chunk's id is a digest of the slot, so a slot has one chunk.  An        *)
(* approval is three awaits: the row is read, the chunk is injected, the   *)
(* row is resolved.  Other operators work between them.                    *)
(***************************************************************************)
EXTENDS Integers, FiniteSets

CONSTANTS Slots, Texts, Operators,
          Nobody          \* no correction

Corrections == Slots \X Texts
Slot(c) == c[1]

ASSUME ReviewAssumption == Nobody \notin Corrections

VARIABLES ruling,    \* ruling[c]: the status of its row, or "none"
          chunk,     \* chunk[s]: the correction that is live in slot s
          desk,      \* desk[o]: the approval operator o is in
          torn,      \* approvals that failed or died after they injected
          crossed,   \* rejected while an approval had read them pending
          displaced  \* approvals whose chunk was replaced or deleted

reviewVars == <<ruling, chunk, desk, torn, crossed, displaced>>

Free == [c |-> Nobody, at |-> "free"]
Handling(c, at) == \E o \in Operators : desk[o] = [c |-> c, at |-> at]

ReviewInit ==
  /\ ruling = [c \in Corrections |-> "none"]
  /\ chunk = [s \in Slots |-> Nobody]
  /\ desk = [o \in Operators |-> Free]
  /\ torn = {}
  /\ crossed = {}
  /\ displaced = {}

-----------------------------------------------------------------------------
(* submit_correction: a pending row. *)
Submit(c) ==
  /\ ruling[c] = "none"
  /\ ruling' = [ruling EXCEPT ![c] = "pending"]
  /\ UNCHANGED <<chunk, desk, torn, crossed, displaced>>

(* approve_correction reads the row, and goes on if it is pending. *)
OpenApproval(o, c) ==
  /\ desk[o] = Free
  /\ ruling[c] = "pending"
  /\ desk' = [desk EXCEPT ![o] = [c |-> c, at |-> "inject"]]
  /\ UNCHANGED <<ruling, chunk, torn, crossed, displaced>>

Written(c) ==
  /\ chunk' = [chunk EXCEPT ![Slot(c)] = c]
  /\ displaced' = (displaced \cup {chunk[Slot(c)]}) \ {c, Nobody}

(* store_correction: the upsert has been acknowledged. *)
Inject(o) ==
  /\ desk[o].at = "inject"
  /\ Written(desk[o].c)
  /\ desk' = [desk EXCEPT ![o].at = "resolve"]
  /\ UNCHANGED <<ruling, torn, crossed>>

(* The embedding or the upsert raises; the upsert may have happened.  The  *)
(* row stays pending.                                                      *)
InjectFails(o) ==
  /\ desk[o].at = "inject"
  /\ desk' = [desk EXCEPT ![o] = Free]
  /\ \/ UNCHANGED <<chunk, torn, displaced>>
     \/ Written(desk[o].c) /\ torn' = torn \cup {desk[o].c}
  /\ UNCHANGED <<ruling, crossed>>

(* Mutant of SetStatus: any row. *)
SetAnyStatus(c, to) == ruling' = [ruling EXCEPT ![c] = to]

(* The UPDATE of resolve, for a row that is still pending. *)
SetStatus(c, to) ==
  ruling' = [ruling EXCEPT ![c] = IF @ = "pending" THEN to ELSE @]

(* Whether it changed the row is not looked at. *)
Resolve(o) ==
  /\ desk[o].at = "resolve"
  /\ SetStatus(desk[o].c, "approved")
  /\ desk' = [desk EXCEPT ![o] = Free]
  /\ UNCHANGED <<chunk, torn, crossed, displaced>>

(* It raises, and may be committed. *)
ResolveFails(o) ==
  /\ desk[o].at = "resolve"
  /\ SetStatus(desk[o].c, "approved") \/ UNCHANGED ruling
  /\ torn' = torn \cup {desk[o].c}
  /\ desk' = [desk EXCEPT ![o] = Free]
  /\ UNCHANGED <<chunk, crossed, displaced>>

(* reject_correction: the row it reads is for the message only. *)
Reject(c) ==
  /\ ruling[c] # "none"
  /\ SetStatus(c, "rejected")
  /\ crossed' = crossed \cup
       {d \in {c} : /\ ruling[d] = "pending"
                   /\ \E at \in {"inject", "resolve"} : Handling(d, at)}
  /\ UNCHANGED <<chunk, desk, torn, displaced>>

(* delete_correction: the chunk goes, the row keeps its status. *)
Delete(s) ==
  /\ chunk[s] # Nobody
  /\ chunk' = [chunk EXCEPT ![s] = Nobody]
  /\ displaced' = displaced \cup {chunk[s]}
  /\ UNCHANGED <<ruling, desk, torn, crossed>>

(* The server dies, with the approvals under way. *)
ReviewCrash ==
  /\ desk' = [o \in Operators |-> Free]
  /\ torn' = torn \cup {c \in Corrections : Handling(c, "resolve")}
  /\ UNCHANGED <<ruling, chunk, crossed, displaced>>

ReviewNext ==
  \/ \E c \in Corrections : Submit(c) \/ Reject(c)
  \/ \E o \in Operators :
       \/ \E c \in Corrections : OpenApproval(o, c)
       \/ Inject(o) \/ InjectFails(o) \/ Resolve(o) \/ ResolveFails(o)
  \/ \E s \in Slots : Delete(s)
  \/ ReviewCrash

ReviewSpec == ReviewInit /\ [][ReviewNext]_reviewVars

-----------------------------------------------------------------------------
ReviewTypeOK ==
  /\ ruling \in [Corrections -> {"none", "pending", "approved", "rejected"}]
  /\ chunk \in [Slots -> Corrections \cup {Nobody}]
  /\ desk \in [Operators ->
                [c : Corrections, at : {"inject", "resolve"}] \cup {Free}]
  /\ {torn, crossed, displaced} \subseteq SUBSET Corrections

(* What is live was approved and what is approved was live, whatever two   *)
(* operators do at once: a live chunk's row says approved, or will, unless *)
(* the approval broke off after the injection or a rejection crossed it;   *)
(* and an approved correction is the live one of its slot unless a later   *)
(* approval or a deletion displaced it.                                    *)
ReviewDecides ==
  /\ \A s \in Slots : chunk[s] # Nobody =>
       \/ ruling[chunk[s]] = "approved"
       \/ Handling(chunk[s], "resolve")
       \/ chunk[s] \in torn \cup crossed
  /\ \A c \in Corrections : ruling[c] = "approved" =>
       chunk[Slot(c)] = c \/ c \in displaced
=============================================================================
