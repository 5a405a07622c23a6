------------------------------ MODULE FilePass ------------------------------
(***************************************************************************)
(* What one index_repo pass promises about the files it streams, whatever  *)
(* machinery runs it: every file of the listing is waiting, in the hands   *)
(* of a worker, settled or lost, and the deletion sweep is allowed only    *)
(* once every file is settled.                                             *)
(*                                                                         *)
(* FileQueue, the bounded producer/consumer pipeline of                    *)
(* IngestionPipeline._index_repo_locked, implements this specification.    *)
(***************************************************************************)
EXTENDS FiniteSets

CONSTANT Files          \* the paths scm.list_files returned

VARIABLES waiting,      \* files not yet in a worker's hands
          working,      \* files a worker is processing
          settled,      \* files processed, skipped or dropped
          verdict       \* "running", "swept", "partial" or "raised"

passVars == <<waiting, working, settled, verdict>>

Init ==
  /\ waiting = Files
  /\ working = {}
  /\ settled = {}
  /\ verdict = "running"

(* A worker takes a file. *)
Take(f) ==
  /\ f \in waiting
  /\ waiting' = waiting \ {f}
  /\ working' = working \cup {f}
  /\ UNCHANGED <<settled, verdict>>

(* A worker is done with a file, successfully or not. *)
Settle(f) ==
  /\ f \in working
  /\ working' = working \ {f}
  /\ settled' = settled \cup {f}
  /\ UNCHANGED <<waiting, verdict>>

(* A file whose own fetch fails is settled unseen. *)
Drop(f) ==
  /\ f \in waiting
  /\ waiting' = waiting \ {f}
  /\ settled' = settled \cup {f}
  /\ UNCHANGED <<working, verdict>>

(* A worker dies with its file. *)
Lose(f) ==
  /\ f \in working
  /\ working' = working \ {f}
  /\ UNCHANGED <<waiting, settled, verdict>>

(* The pass completes and the deletion sweep may follow. *)
Sweep ==
  /\ verdict = "running"
  /\ settled = Files
  /\ verdict' = "swept"
  /\ UNCHANGED <<waiting, working, settled>>

(* The pass ends without a sweep. *)
GiveUp ==
  /\ verdict = "running"
  /\ verdict' \in {"partial", "raised"}
  /\ UNCHANGED <<waiting, working, settled>>

Next ==
  \/ \E f \in Files : Take(f) \/ Settle(f) \/ Drop(f) \/ Lose(f)
  \/ Sweep
  \/ GiveUp

Spec == Init /\ [][Next]_passVars
=============================================================================
