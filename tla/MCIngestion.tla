---------------------------- MODULE MCIngestion -----------------------------
(***************************************************************************)
(* The instance of Ingestion that TLC checks.  Paths, runs and the         *)
(* contents that give chunks are interchangeable: nothing in Ingestion     *)
(* orders them or names one.                                               *)
(***************************************************************************)
EXTENDS Ingestion, TLC

Symmetry ==
  Permutations(Paths) \cup Permutations(Runs) \cup Permutations(Versions \ Barren)
=============================================================================
