---- MODULE CragTurn ----
(***************************************************************************)
(* The corrective loop of the full graph (graph.build_full_graph): grade   *)
(* the retrieved chunks, rewrite the query while nothing relevant is       *)
(* found, and generate again while the answer fails the grounding check.   *)
(* The two loops have budgets of their own, doc.retries and doc.regens.    *)
(***************************************************************************)
EXTENDS Turn

CragNodes == {"load_memory", "route_query", "grade_documents", "rewrite_query",
              "check_hallucination", "save_memory"}

(* Mutant of MayRewrite: off by one. *)
MayRewriteOnceMore == doc.retries <= MaxRetries

MayRewrite == doc.retries < MaxRetries

(* Mutant of MayRegenerate: one budget for both loops. *)
MayRegenerateSharing(regens) == doc.retries + regens < MaxRegens

MayRegenerate(regens) == regens < MaxRegens

LoadMemory ==
  /\ Enter("load_memory") /\ Leave("route_query")
  /\ UNCHANGED <<tool, doc, out, history>>

RouteQuery ==
  /\ Enter("route_query") /\ Leave("hyde_expansion")
  /\ UNCHANGED <<tool, doc, out, history>>

(* The grader keeps some chunks or none. When it drops them all, the best   *)
(* are kept all the same if the reranker was sure or no rewrite is left.    *)
GradeDocuments ==
  /\ Enter("grade_documents")
  /\ \E graded \in {{}, Pool} :
       /\ graded = {} => Pool = {} \/ (doc.rank # "strong" /\ MayRewrite)
       /\ doc' = [doc EXCEPT !.graded = graded]
       /\ Leave(CASE graded # {} -> "generate"
                  [] graded = {} /\ ~MayRewrite -> "insufficient_info"
                  [] OTHER -> "rewrite_query")
  /\ UNCHANGED <<tool, out, history>>

RewriteQuery ==
  /\ Enter("rewrite_query") /\ Leave("vector_retrieve")
  /\ doc' = [doc EXCEPT !.retries = @ + 1]
  /\ UNCHANGED <<tool, out, history>>

(* Fails closed: an empty answer, or a check that errors, is not grounded. *)
CheckHallucination ==
  /\ Enter("check_hallucination")
  /\ \E grounded \in IF out.answer = "" THEN {FALSE} ELSE BOOLEAN :
       LET regens == IF grounded THEN doc.regens ELSE doc.regens + 1 IN
       /\ out' = [out EXCEPT !.grounded = grounded, !.checked = TRUE]
       /\ doc' = [doc EXCEPT !.regens = regens]
       /\ verdict' = IF grounded THEN "pass" ELSE "fail"
       /\ Leave(IF grounded \/ ~MayRegenerate(regens) THEN "save_memory" ELSE "generate")
  /\ UNCHANGED <<tool, written, barred, kept>>

(* The writes run in the background and touch no channel. *)
SaveMemory ==
  /\ Enter("save_memory") /\ Leave("end")
  /\ UNCHANGED <<tool, doc, out, history>>

CragNext ==
  /\ graph = "full"
  /\ \/ LoadMemory \/ RouteQuery \/ GradeDocuments \/ RewriteQuery
     \/ CheckHallucination \/ SaveMemory
====
