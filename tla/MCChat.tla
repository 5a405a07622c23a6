---- MODULE MCChat ----
EXTENDS Chat, TLC

(* The tools of refused connectors are interchangeable. *)
Symmetry == Permutations(Denied)
====
