---------------------------- MODULE MCMigrations ----------------------------
(***************************************************************************)
(* The instance of Migrations that TLC checks: the replicas are            *)
(* interchangeable, and so are the file contents that do not raise.        *)
(***************************************************************************)
EXTENDS Migrations, TLC

Symmetry == Permutations(Replicas) \cup Permutations(Checksums \ Broken)
=============================================================================
