---- MODULE Turn ----
(***************************************************************************)
(* A chat thread of the agent: graph.query_with_session asks one question  *)
(* after another of a compiled LangGraph graph whose state is checkpointed *)
(* under the thread's id, so every channel the caller does not reset keeps *)
(* the value the previous turn left in it.                                 *)
(*                                                                         *)
(* This module holds the channels, the start and the end of a turn, and    *)
(* the nodes the graphs share: the retrieval lane and the friendly lane.   *)
(* ToolTurn adds the live-tool lane, CragTurn the corrective retrieval     *)
(* loop, and Chat puts them together.                                      *)
(*                                                                         *)
(* LangGraph itself is external: one node is one superstep, a superstep    *)
(* past Limit raises GraphRecursionError, and what a node returns is       *)
(* merged into the checkpointed state.                                     *)
(*                                                                         *)
(* Evidence is abstracted to where it was retrieved: <<t, n>> stands for   *)
(* the chunks that pass n of turn t found, <<t, 0>> for those its tools    *)
(* brought in.                                                             *)
(***************************************************************************)
EXTENDS Naturals, Sequences, FiniteSets

CONSTANTS
  Graphs,        \* graphs a deployment may have built: "multi", "full", "minimal"
  MaxTurns,      \* bound: questions asked in the thread
  MaxRetries,    \* max_retries: query rewrites of a turn
  MaxRegens,     \* max_regens: answers that may fail the grounding check
  Limit          \* MULTI_AGENT_RECURSION_LIMIT

ASSUME GraphsKnown == Graphs \subseteq {"multi", "full", "minimal"}
ASSUME BoundsAreNat == {MaxTurns, MaxRetries, MaxRegens, Limit} \subseteq Nat

VARIABLES
  graph,    \* the graph this process compiled; never changes
  at,       \* the node to run next, or where the turn came to rest
  steps,    \* supersteps of this turn
  turn,     \* questions asked so far
  tool,     \* channels of the live-tool lane
  doc,      \* channels of the retrieval lane
  out,      \* channels of the answer
  verdict,  \* history: the last grounding check of this turn
  written,  \* history: answers generated in this turn
  barred,   \* history: a call of this turn was refused for lack of permission
  kept      \* history: answers stored in the two answer caches

turnVars == <<graph, at, steps, turn>>
vars == <<graph, at, steps, turn, tool, doc, out, verdict, written, barred, kept>>

Resting == {"idle", "raised", "cut"}
SharedNodes == {"friendly_generator", "hyde_expansion", "vector_retrieve",
                "entity_expand", "rerank", "insufficient_info", "generate",
                "verify_answer"}

----------------------------------------------------------------------------
(* A superstep: the node the thread is at runs and the edges name the next. *)

Enter(n) == at = n /\ steps < Limit
Leave(n) == at' = n /\ steps' = steps + 1 /\ UNCHANGED <<graph, turn>>

(* entry_route and the edges out of START *)
Entry(casual) ==
  CASE casual /\ graph # "minimal" -> "friendly_generator"
    [] graph = "multi"             -> "triage"
    [] graph = "full"              -> "load_memory"
    [] OTHER                       -> "hyde_expansion"

AfterVerify == IF graph = "full" THEN "check_hallucination" ELSE "end"
AfterApology == IF graph = "full" THEN "save_memory" ELSE "end"

----------------------------------------------------------------------------
(* The channels as the caller sets them before every turn. The tool lane's *)
(* chunks are not among them.                                              *)

FreshTool(chunks) ==
  [calls |-> <<>>, recent |-> <<>>, owed |-> 0, answered |-> FALSE, count |-> 0,
   unknown |-> 0, audited |-> FALSE, chunks |-> chunks]
FreshDoc ==
  [retrieved |-> {}, merged |-> {}, graded |-> {}, rank |-> "weak",
   retries |-> 0, regens |-> 0]
FreshOut(checked) ==
  [answer |-> "", grounded |-> FALSE, checked |-> checked, final |-> {},
   toolPath |-> FALSE]

Init ==
  /\ graph \in Graphs
  /\ at = "idle" /\ steps = 0 /\ turn = 0
  /\ tool = FreshTool({}) /\ doc = FreshDoc /\ out = FreshOut(FALSE)
  /\ verdict = "none" /\ written = 0 /\ barred = FALSE
  /\ kept = {}

(* Mutant of ResetTool: the number of calls is not reset. *)
ResetToolKeepsCount == [FreshTool(tool.chunks) EXCEPT !.count = tool.count]

ResetTool == FreshTool(tool.chunks)

(* A question: the graph is invoked with the initial state. *)
Ask ==
  /\ at \in Resting /\ turn < MaxTurns
  /\ turn' = turn + 1 /\ steps' = 0
  /\ \E casual \in BOOLEAN : at' = Entry(casual)
  /\ tool' = ResetTool
  /\ doc' = FreshDoc
  /\ out' = FreshOut(out.checked)
  /\ verdict' = "none" /\ written' = 0 /\ barred' = FALSE
  /\ UNCHANGED <<graph, kept>>

----------------------------------------------------------------------------
(* The end of a turn. *)

(* Mutant of ExplicitlyFailed: read off a key that is never in the state. *)
ExplicitlyFailedNever == FALSE

(* Both caches refuse an answer that a grounding check explicitly failed. *)
ExplicitlyFailed == ~out.grounded /\ out.checked

Kept == [cache |-> IF out.toolPath THEN "investigation" ELSE "qa",
         turn |-> turn, answer |-> out.answer, verdict |-> verdict,
         final |-> out.final]

(* The graph is done: the answer is returned and, unless empty or flagged, *)
(* stored. A store that fails is swallowed.                                *)
Finish ==
  /\ at = "end" /\ at' = "idle"
  /\ \/ kept' = kept
     \/ /\ out.answer # "" /\ ~ExplicitlyFailed
        /\ kept' = kept \cup {Kept}
  /\ UNCHANGED <<graph, steps, turn, tool, doc, out, verdict, written, barred>>

(* A node raises, the client goes away or the process dies: the state of   *)
(* the last finished node stays checkpointed.                              *)
Raise ==
  /\ at \notin Resting \cup {"end"} /\ at' = "raised"
  /\ UNCHANGED <<graph, steps, turn, tool, doc, out, verdict, written, barred, kept>>

(* GraphRecursionError *)
Cut ==
  /\ at \notin Resting \cup {"end"} /\ steps = Limit /\ at' = "cut"
  /\ UNCHANGED <<graph, steps, turn, tool, doc, out, verdict, written, barred, kept>>

----------------------------------------------------------------------------
(* The retrieval lane. *)

history == <<verdict, written, barred, kept>>

(* merged_results or retrieved_chunks *)
Pool == IF doc.merged # {} THEN doc.merged ELSE doc.retrieved

HydeExpansion ==
  /\ Enter("hyde_expansion") /\ Leave("vector_retrieve")
  /\ UNCHANGED <<tool, doc, out, history>>

(* Mutant of VectorRetrieve: the earlier pass's merged chunks stay. *)
VectorRetrieveKeepsMerged ==
  /\ Enter("vector_retrieve") /\ Leave("entity_expand")
  /\ \E found \in SUBSET {<<turn, doc.retries + 1>>} :
       doc' = [doc EXCEPT !.retrieved = found]
  /\ UNCHANGED <<tool, out, history>>

VectorRetrieve ==
  /\ Enter("vector_retrieve") /\ Leave("entity_expand")
  /\ \E found \in SUBSET {<<turn, doc.retries + 1>>} :
       doc' = [doc EXCEPT !.retrieved = found, !.merged = {}]
  /\ UNCHANGED <<tool, out, history>>

(* Related chunks join the pool, and are of the same pass. *)
EntityExpand ==
  /\ Enter("entity_expand") /\ Leave("rerank")
  /\ doc' = [doc EXCEPT !.merged = Pool]
  /\ UNCHANGED <<tool, out, history>>

(* The best score is below the reranker's floor with no anchor matched, or  *)
(* in between, or above the score that is trusted over the grader.          *)
Rerank ==
  /\ Enter("rerank")
  /\ \E rank \in IF Pool = {} THEN {"weak"} ELSE {"weak", "fair", "strong"} :
       /\ doc' = [doc EXCEPT !.merged = Pool, !.rank = rank]
       /\ Leave(CASE graph = "minimal" -> "generate"
                  [] graph # "minimal" /\ rank = "weak" -> "insufficient_info"
                  [] graph = "multi" /\ rank # "weak" -> "generate"
                  [] OTHER -> "grade_documents")
  /\ UNCHANGED <<tool, out, history>>

InsufficientInfo ==
  /\ Enter("insufficient_info") /\ Leave(AfterApology)
  /\ out' = [out EXCEPT !.answer = "nothing found", !.grounded = TRUE]
  /\ UNCHANGED <<tool, doc, history>>

Evidence == IF doc.graded # {} THEN doc.graded ELSE Pool

(* The full graph checks the grounding in a node of its own; the others    *)
(* check it here when there are chunks to check against.                   *)
Generate ==
  /\ Enter("generate") /\ Leave("verify_answer")
  /\ \E answer \in {"", "answer"}, grounded \in BOOLEAN :
       LET checks == graph # "full" /\ answer # "" /\ Evidence # {} IN
       /\ grounded => checks
       /\ out' = [out EXCEPT !.answer = answer, !.grounded = grounded,
                             !.checked = checks, !.final = Evidence]
       /\ verdict' = CASE checks /\ grounded  -> "pass"
                       [] checks /\ ~grounded -> "fail"
                       [] OTHER               -> verdict
  /\ written' = written + 1
  /\ UNCHANGED <<tool, doc, barred, kept>>

(* The verifier rewords the answer; it raises no flag. *)
VerifyAnswer ==
  /\ Enter("verify_answer") /\ Leave(AfterVerify)
  /\ UNCHANGED <<tool, doc, out, history>>

(* The friendly lane; an apology for a model that failed is not grounded. *)
FriendlyGenerator ==
  /\ Enter("friendly_generator") /\ Leave("end")
  /\ out' \in {[out EXCEPT !.answer = "chat", !.grounded = TRUE],
               [out EXCEPT !.answer = "apology"]}
  /\ UNCHANGED <<tool, doc, history>>

SharedNext ==
  \/ Ask \/ Finish \/ Raise \/ Cut
  \/ HydeExpansion \/ VectorRetrieve \/ EntityExpand \/ Rerank
  \/ InsufficientInfo \/ Generate \/ VerifyAnswer \/ FriendlyGenerator
====
