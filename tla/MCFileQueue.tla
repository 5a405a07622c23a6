----------------------------- MODULE MCFileQueue ----------------------------
(* A listing for the FileQueue run that is just longer than what the queue *)
(* may hold in memory.                                                     *)
EXTENDS FileQueue

CONSTANTS f1, f2, f3, f4, f5, f6, f7, f8, f9

NineFiles == <<f1, f2, f3, f4, f5, f6, f7, f8, f9>>
=============================================================================
