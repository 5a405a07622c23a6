---- MODULE Chat_proofs ----
(***************************************************************************)
(* What a chat thread keeps, for every graph, every set of tools and every *)
(* budget. The invariants follow the control: which channels a node may    *)
(* find filled (FreshInv, GroundInv), how much of each budget is left when *)
(* it runs (ServedInv, RegenInv), and how many supersteps it can have      *)
(* taken to get there (ToolSteps, LaneSteps).                              *)
(***************************************************************************)
EXTENDS Chat, TLAPS, FiniteSetTheorems, WellFoundedInduction

USE GraphsKnown, CapsArePositive, BatchIsNat, LimitSuffices

LEMMA Bounds ==
  MaxTurns \in Nat /\ MaxRetries \in Nat /\ MaxRegens \in Nat /\ Limit \in Nat
BY BoundsAreNat

USE Bounds

(* Where the types need the control: what the batch being served owes, and  *)
(* that a rewrite has budget left.                                          *)
TypeInv ==
  /\ TypeOK
  /\ at = "rewrite_query" => doc.retries < MaxRetries
  /\ tool.owed >= Len(tool.calls)
  /\ turn = 0 => at \in Resting

(* The nodes before the answer of the turn is written. *)
Before == {"triage", "tool_caller", "reasoner", "generator", "load_memory",
           "route_query", "hyde_expansion", "vector_retrieve", "entity_expand",
           "rerank", "grade_documents", "rewrite_query", "insufficient_info",
           "friendly_generator"}

(* The tool lane comes to a batch with budget left, so its first call is    *)
(* served.                                                                  *)
ServedInv ==
  /\ at = "triage" => tool.count = 0 /\ tool.unknown = 0
  /\ at = "tool_caller" =>
       Len(tool.calls) > 0 /\ tool.count < MaxCalls /\ tool.unknown < MaxUnknown
  /\ FirstCallServed

(* Which chunks the channels may hold at each node. *)
Pass == {<<turn, doc.retries + 1>>}
FreshInv ==
  /\ at \in Before => out.answer = ""
  /\ at \in {"tool_caller", "reasoner", "generator"} => out.toolPath
  /\ at \notin Resting \cup {"vector_retrieve"} => doc.retrieved \cup doc.merged \subseteq Pass
  /\ at \in Before => doc.graded = {}
  /\ at \in {"generate", "verify_answer", "check_hallucination"} => doc.graded \subseteq Pass
  /\ FreshEvidence

(* An answer that may be kept is backed. *)
Backed ==
  out.answer = "answer" /\ ~ExplicitlyFailed =>
    verdict # "fail" /\ (out.final # {} => verdict = "pass")
GroundInv ==
  /\ at \in Before => verdict = "none" /\ out.answer = ""
  /\ at = "generate" /\ graph # "full" => verdict = "none"
  /\ at = "generate" /\ graph = "multi" => Evidence # {}
  /\ at \in {"generate", "verify_answer", "check_hallucination"} /\ graph = "full" =>
       Evidence # {}
  /\ at \in {"verify_answer", "check_hallucination", "save_memory", "end"}
       /\ out.answer = "answer" /\ out.final = {} => out.toolPath \/ graph = "minimal"
  /\ at \in {"save_memory", "end"} \/ (at = "verify_answer" /\ graph # "full") => Backed
  /\ KeptIsGrounded

(* The answers written in a turn of the full graph. *)
RegenInv ==
  /\ at \in Before => doc.regens = 0 /\ verdict = "none"
  /\ at \in Before => written = 0
  /\ at \in {"generate", "verify_answer", "check_hallucination"} =>
       doc.regens = 0 \/ doc.regens < MaxRegens
  /\ graph = "full" =>
       /\ at = "generate" => written = doc.regens
       /\ at \in {"verify_answer", "check_hallucination"} => written = doc.regens + 1
       /\ at = "save_memory" /\ verdict = "fail" =>
            written = IF MaxRegens = 0 THEN 1 ELSE MaxRegens
  /\ RegensSpent

(* How many supersteps a turn may have taken at each node. *)
Budget == MaxCalls + MaxUnknown
Spent == tool.count + tool.unknown
ToolSteps ==
  barred \/ /\ at = "triage" => steps = 0
            /\ at = "tool_caller" => steps <= 2 * Spent + 1
            /\ at = "reasoner" => steps <= 2 * Spent /\ steps <= 2 * Budget - 2
            /\ at = "generator" => steps <= 2 * Budget - 1
Done == 5 * doc.retries
LaneSteps ==
  /\ at \in {"triage", "load_memory", "friendly_generator"} => steps = 0
  /\ at = "route_query" => steps <= 1
  /\ at = "hyde_expansion" => steps <= 2
  /\ at = "vector_retrieve" => steps <= Done + 3
  /\ at = "entity_expand" => steps <= Done + 4
  /\ at = "rerank" => steps <= Done + 5
  /\ at = "grade_documents" => steps <= Done + 6
  /\ at \in {"rewrite_query", "insufficient_info"} => steps <= Done + 7
  /\ at = "generate" => steps <= Done + 3 * doc.regens + 7
  /\ at = "verify_answer" =>
       \/ steps <= Done + 3 * doc.regens + 8
       \/ graph = "multi" /\ (barred \/ steps <= 2 * Budget)
  /\ at = "check_hallucination" => steps <= Done + 3 * doc.regens + 9
  /\ at = "save_memory" => steps < Limit

Inv ==
  TypeInv /\ ServedInv /\ FreshInv /\ GroundInv /\ RegenInv
  /\ ToolSteps /\ LaneSteps /\ LimitIsBackstop

LEMMA BatchIsSeq ==
  ASSUME NEW batch \in Batches
  PROVE  batch \in Seq(Names) /\ Len(batch) \in Nat \ {0}
BY DEF Batches

LEMMA AskForType ==
  ASSUME tool \in ToolStates, NEW batch \in Batches
  PROVE  AskFor(batch) \in ToolStates
<1> DEFINE s == tool.recent \o batch
<1>1. s \in Seq(Names)
  BY BatchIsSeq DEF ToolStates
<1>2. LastThree(s) \in Seq(Names)
  BY <1>1 DEF LastThree
<1>3. tool.owed + Len(batch) \in Nat
  BY BatchIsSeq DEF ToolStates
<1>4. AskFor(batch) = [tool EXCEPT !.calls = batch, !.owed = tool.owed + Len(batch),
                                   !.recent = LastThree(s)]
  BY DEF AskFor
<1> HIDE DEF s
<1> QED
  BY <1>2, <1>3, <1>4, BatchIsSeq DEF ToolStates

LEMMA ServedCounts ==
  ASSUME tool \in ToolStates
  PROVE  /\ IsFiniteSet(Served) /\ Served \subseteq 1..Len(tool.calls)
         /\ Cardinality(Served) \in 0..Len(tool.calls)
         /\ \A names : Cardinality(ServedOf(names)) \in Nat
<1>1. Served \subseteq 1..Len(tool.calls)
  BY DEF Served, ToolStates
<1>2. Len(tool.calls) \in Nat
  BY DEF ToolStates
<1>3. IsFiniteSet(1..Len(tool.calls)) /\ Cardinality(1..Len(tool.calls)) = Len(tool.calls)
  <2>1. 1 \in Int /\ Len(tool.calls) \in Int
    BY <1>2
  <2>2. /\ IsFiniteSet(1..Len(tool.calls))
        /\ Cardinality(1..Len(tool.calls)) =
             IF 1 > Len(tool.calls) THEN 0 ELSE Len(tool.calls) - 1 + 1
    BY <2>1, FS_Interval, Zenon
  <2> QED
    BY <1>2, <2>2
<1>4. IsFiniteSet(Served) /\ Cardinality(Served) <= Len(tool.calls)
  BY <1>1, <1>3, FS_Subset
<1>5. \A names : IsFiniteSet(ServedOf(names))
  BY <1>4, FS_Subset DEF ServedOf
<1> QED
  BY <1>1, <1>2, <1>4, <1>5, FS_CardinalityType

LEMMA AskForOwes ==
  ASSUME tool \in ToolStates, NEW batch \in Batches
  PROVE  AskFor(batch).owed >= Len(AskFor(batch).calls)
BY BatchIsSeq DEF AskFor, ToolStates

LEMMA ToolCallerType ==
  ASSUME TypeInv, ToolCaller
  PROVE  tool' \in ToolStates /\ tool'.owed >= Len(tool'.calls)
<1>1. PICK lifted \in SUBSET {<<turn, 0>>}, audited \in BOOLEAN :
         tool' = [tool EXCEPT
            !.calls = <<>>,
            !.owed = @ - Cardinality(Served),
            !.answered = @ \/ Served # {},
            !.count = @ + Cardinality(ServedOf(Charged)),
            !.unknown = @ + Cardinality(ServedOf(Unregistered)),
            !.audited = audited,
            !.chunks = @ \cup lifted]
  BY DEF ToolCaller
<1>2. tool \in ToolStates /\ tool.owed >= Len(tool.calls) /\ Len(tool.calls) \in Nat
  BY DEF TypeInv, TypeOK, ToolStates
<1>3. /\ tool.owed - Cardinality(Served) \in Nat
      /\ tool.count + Cardinality(ServedOf(Charged)) \in Nat
      /\ tool.unknown + Cardinality(ServedOf(Unregistered)) \in Nat
  <2>1. /\ Cardinality(Served) \in 0..Len(tool.calls)
        /\ Cardinality(ServedOf(Charged)) \in Nat
        /\ Cardinality(ServedOf(Unregistered)) \in Nat
    BY <1>2, ServedCounts
  <2>2. tool.owed \in Nat /\ tool.count \in Nat /\ tool.unknown \in Nat
    BY <1>2 DEF ToolStates
  <2> QED
    BY <1>2, <2>1, <2>2
<1>4. <<turn, 0>> \in Marks
  <2>1. turn \in 1..MaxTurns
    BY DEF TypeInv, TypeOK, ToolCaller, Enter, Resting
  <2> QED
    BY <2>1 DEF Marks
<1>5. (tool.answered \/ Served # {}) \in BOOLEAN
  BY <1>2 DEF ToolStates
<1>6. tool.chunks \cup lifted \in SUBSET Marks
  BY <1>2, <1>4 DEF ToolStates
<1>7. PICK o \in Nat, n \in Nat, u \in Nat, answered \in BOOLEAN,
            chunks \in SUBSET Marks :
         tool' = [tool EXCEPT !.calls = <<>>, !.owed = o, !.answered = answered,
                              !.count = n, !.unknown = u, !.audited = audited,
                              !.chunks = chunks]
  BY <1>1, <1>3, <1>5, <1>6
<1>8. <<>> \in Seq(Names) /\ Len(<<>>) = 0
  OBVIOUS
<1>9. tool' \in ToolStates
  BY <1>2, <1>7, <1>8 DEF ToolStates
<1>10. tool'.calls = <<>> /\ tool'.owed = o
  BY <1>2, <1>7 DEF ToolStates
<1> QED
  BY <1>8, <1>9, <1>10

----------------------------------------------------------------------------
(* One step, action by action. *)

LEMMA TypeStep == TypeInv /\ [Next]_vars => TypeInv'
<1> SUFFICES ASSUME TypeInv, [Next]_vars PROVE TypeInv'
  OBVIOUS
<1>1. CASE Ask
  <2>1. tool' \in ToolStates /\ tool'.owed >= Len(tool'.calls)
    BY <1>1 DEF TypeInv, TypeOK, ToolStates, Ask, ResetTool, FreshTool
  <2>2. doc' \in DocStates
    BY <1>1 DEF TypeInv, TypeOK, DocStates, Ask, FreshDoc
  <2>3. out' \in OutStates
    BY <1>1 DEF TypeInv, TypeOK, OutStates, Ask, FreshOut
  <2>4. /\ at' \in {"friendly_generator", "triage", "load_memory", "hyde_expansion"}
        /\ steps' = 0 /\ turn < MaxTurns /\ turn' = turn + 1 /\ UNCHANGED graph
        /\ verdict' = "none" /\ written' = 0 /\ barred' = FALSE
    BY <1>1 DEF Ask, Entry
  <2>5. turn \in 0..MaxTurns /\ graph \in Graphs
    BY DEF TypeInv, TypeOK
  <2>6. turn' \in 0..MaxTurns /\ turn' # 0 /\ steps' \in 0..Limit
    BY <2>4, <2>5
  <2>7. at' \in SharedNodes \cup ToolNodes \cup CragNodes /\ at' # "rewrite_query"
    BY <2>4 DEF SharedNodes, ToolNodes, CragNodes
  <2>8. TypeOK'
    <3>1. graph' \in Graphs /\ steps' \in 0..Limit /\ turn' \in 0..MaxTurns
      BY <2>4, <2>5, <2>6
    <3>2. verdict' \in {"none", "pass", "fail"} /\ written' \in Nat /\ barred' \in BOOLEAN
      BY <2>4
    <3>3. at' \in Resting \cup {"end"} \cup SharedNodes \cup ToolNodes \cup CragNodes
      BY <2>7
    <3> QED
      BY <2>1, <2>2, <2>3, <3>1, <3>2, <3>3 DEF TypeOK
  <2>9. turn' # 0
    BY <2>6
  <2> QED
    BY <2>1, <2>7, <2>8, <2>9 DEF TypeInv
<1>2. CASE Finish
  BY <1>2 DEF TypeInv, TypeOK, Resting, SharedNodes, ToolNodes, CragNodes, Finish,
     Enter, Leave, history
<1>3. CASE Raise
  BY <1>3 DEF TypeInv, TypeOK, Resting, SharedNodes, ToolNodes, CragNodes, Raise, Enter,
     Leave, history
<1>4. CASE Cut
  BY <1>4 DEF TypeInv, TypeOK, Resting, SharedNodes, ToolNodes, CragNodes, Cut, Enter,
     Leave, history
<1>5. CASE HydeExpansion
  BY <1>5 DEF TypeInv, TypeOK, Resting, SharedNodes, ToolNodes, CragNodes,
     HydeExpansion, Enter, Leave, history
<1>6. CASE VectorRetrieve
  <2>1. doc' \in DocStates
    <3>1. <<turn, doc.retries + 1>> \in Marks
      <4>1. turn \in 1..MaxTurns
        BY <1>6 DEF TypeInv, TypeOK, VectorRetrieve, Enter, Resting
      <4>2. doc.retries + 1 \in 0..(MaxRetries + 1)
        BY DEF TypeInv, TypeOK, DocStates
      <4> QED
        BY <4>1, <4>2 DEF Marks
    <3>2. PICK found \in SUBSET Marks :
            doc' = [doc EXCEPT !.retrieved = found, !.merged = {}]
      BY <1>6, <3>1 DEF VectorRetrieve
    <3> QED
      BY <3>2 DEF TypeInv, TypeOK, DocStates
  <2>2. /\ at = "vector_retrieve" /\ steps < Limit /\ at' = "entity_expand" /\ steps' = steps + 1
        /\ UNCHANGED <<graph, turn, tool, out, verdict, written, barred>>
    BY <1>6 DEF VectorRetrieve, Enter, Leave, history
  <2> QED
    BY <2>1, <2>2 DEF TypeInv, TypeOK, Resting, SharedNodes, ToolNodes, CragNodes, history
<1>7. CASE EntityExpand
  <2>1. doc' \in DocStates
    BY <1>7 DEF TypeInv, TypeOK, DocStates, EntityExpand, Pool
  <2>2. /\ at = "entity_expand" /\ steps < Limit /\ at' = "rerank" /\ steps' = steps + 1
        /\ UNCHANGED <<graph, turn, tool, out, verdict, written, barred>>
    BY <1>7 DEF EntityExpand, Enter, Leave, history
  <2> QED
    BY <2>1, <2>2 DEF TypeInv, TypeOK, Resting, SharedNodes, ToolNodes, CragNodes, history
<1>8. CASE Rerank
  <2>1. doc' \in DocStates
    BY <1>8 DEF TypeInv, TypeOK, DocStates, Rerank, Pool
  <2>2. /\ at = "rerank" /\ steps < Limit /\ at' \in {"generate", "insufficient_info", "grade_documents"} /\ steps' = steps + 1
        /\ UNCHANGED <<graph, turn, tool, out, verdict, written, barred>>
    BY <1>8 DEF Rerank, Enter, Leave, history
  <2> QED
    BY <2>1, <2>2 DEF TypeInv, TypeOK, Resting, SharedNodes, ToolNodes, CragNodes, history
<1>9. CASE InsufficientInfo
  <2>1. out' \in OutStates
    BY <1>9 DEF TypeInv, TypeOK, OutStates, InsufficientInfo
  <2>2. /\ at = "insufficient_info" /\ steps < Limit /\ at' \in {"save_memory", "end"} /\ steps' = steps + 1
        /\ UNCHANGED <<graph, turn, tool, doc, verdict, written, barred>>
    BY <1>9 DEF InsufficientInfo, Enter, Leave, history, AfterApology
  <2> QED
    BY <2>1, <2>2 DEF TypeInv, TypeOK, Resting, SharedNodes, ToolNodes, CragNodes, history
<1>10. CASE Generate
  <2>1. out' \in OutStates
    <3>1. PICK answer \in {"", "answer"}, grounded \in BOOLEAN, checks \in BOOLEAN :
            out' = [out EXCEPT !.answer = answer, !.grounded = grounded,
                               !.checked = checks, !.final = Evidence]
      BY <1>10 DEF Generate
    <3>2. Evidence \in SUBSET Marks
      BY DEF TypeInv, TypeOK, DocStates, Evidence, Pool
    <3> QED
      BY <3>1, <3>2 DEF TypeInv, TypeOK, OutStates
  <2>2. /\ at = "generate" /\ steps < Limit /\ at' = "verify_answer" /\ steps' = steps + 1
        /\ UNCHANGED <<graph, turn, tool, doc, barred>>
        /\ written' = written + 1 /\ verdict' \in {"pass", "fail", verdict}
    BY <1>10 DEF Generate, Enter, Leave, history
  <2> QED
    BY <2>1, <2>2 DEF TypeInv, TypeOK, Resting, SharedNodes, ToolNodes, CragNodes, history
<1>11. CASE VerifyAnswer
  BY <1>11 DEF TypeInv, TypeOK, Resting, SharedNodes, ToolNodes, CragNodes,
     VerifyAnswer, Enter, Leave, history, AfterVerify
<1>12. CASE FriendlyGenerator
  <2>1. out' \in OutStates
    BY <1>12 DEF TypeInv, TypeOK, OutStates, FriendlyGenerator
  <2>2. /\ at = "friendly_generator" /\ steps < Limit /\ at' = "end" /\ steps' = steps + 1
        /\ UNCHANGED <<graph, turn, tool, doc, verdict, written, barred>>
    BY <1>12 DEF FriendlyGenerator, Enter, Leave, history
  <2> QED
    BY <2>1, <2>2 DEF TypeInv, TypeOK, Resting, SharedNodes, ToolNodes, CragNodes, history
<1>13. CASE graph = "multi" /\ TriageToRetrieval
  BY <1>13 DEF TypeInv, TypeOK, Resting, SharedNodes, ToolNodes, CragNodes,
     TriageToRetrieval, Enter, Leave, history
<1>14. CASE graph = "multi" /\ TriageToTools
  <2>1. tool' \in ToolStates /\ tool'.owed >= Len(tool'.calls)
    BY <1>14, AskForType, AskForOwes DEF TypeInv, TypeOK, TriageToTools
  <2>2. out' \in OutStates
    BY <1>14 DEF TypeInv, TypeOK, OutStates, TriageToTools
  <2>3. /\ at = "triage" /\ steps < Limit /\ at' = "tool_caller" /\ steps' = steps + 1
        /\ UNCHANGED <<graph, turn, doc, verdict, written, barred>>
    BY <1>14 DEF TriageToTools, Enter, Leave, history
  <2> QED
    BY <2>1, <2>2, <2>3 DEF TypeInv, TypeOK, Resting, SharedNodes, ToolNodes, CragNodes,
       history
<1>15. CASE graph = "multi" /\ ToolCaller
  <2>1. tool' \in ToolStates /\ tool'.owed >= Len(tool'.calls)
    BY <1>15, ToolCallerType
  <2>2. /\ at = "tool_caller" /\ steps < Limit /\ at' = "reasoner" /\ steps' = steps + 1
        /\ UNCHANGED <<graph, turn, doc, out, verdict, written>>
        /\ barred' \in BOOLEAN
    BY <1>15 DEF ToolCaller, Enter, Leave, history
  <2> QED
    BY <2>1, <2>2 DEF TypeInv, TypeOK, Resting, SharedNodes, ToolNodes, CragNodes, history
<1>16. CASE graph = "multi" /\ ReasonerHandsOver
  BY <1>16 DEF TypeInv, TypeOK, Resting, SharedNodes, ToolNodes, CragNodes,
     ReasonerHandsOver, Enter, Leave, history
<1>17. CASE graph = "multi" /\ ReasonerAsksMore
  <2>1. tool' \in ToolStates /\ tool'.owed >= Len(tool'.calls)
    BY <1>17, AskForType, AskForOwes DEF TypeInv, TypeOK, ReasonerAsksMore
  <2>2. /\ at = "reasoner" /\ steps < Limit /\ at' = "tool_caller" /\ steps' = steps + 1
        /\ UNCHANGED <<graph, turn, doc, out, verdict, written, barred>>
    BY <1>17 DEF ReasonerAsksMore, Enter, Leave, history
  <2> QED
    BY <2>1, <2>2 DEF TypeInv, TypeOK, Resting, SharedNodes, ToolNodes, CragNodes, history
<1>18. CASE graph = "multi" /\ GeneratorFails
  <2>1. out' \in OutStates
    BY <1>18 DEF TypeInv, TypeOK, OutStates, GeneratorFails
  <2>2. /\ at = "generator" /\ steps < Limit /\ at' = "verify_answer" /\ steps' = steps + 1
        /\ UNCHANGED <<graph, turn, tool, doc, verdict, written, barred>>
    BY <1>18 DEF GeneratorFails, Enter, Leave, history
  <2> QED
    BY <2>1, <2>2 DEF TypeInv, TypeOK, Resting, SharedNodes, ToolNodes, CragNodes, history
<1>19. CASE graph = "multi" /\ GeneratorRefuses
  <2>1. out' \in OutStates
    BY <1>19 DEF TypeInv, TypeOK, OutStates, GeneratorRefuses
  <2>2. /\ at = "generator" /\ steps < Limit /\ at' = "verify_answer" /\ steps' = steps + 1
        /\ UNCHANGED <<graph, turn, tool, doc, verdict, written, barred>>
    BY <1>19 DEF GeneratorRefuses, Enter, Leave, history
  <2> QED
    BY <2>1, <2>2 DEF TypeInv, TypeOK, Resting, SharedNodes, ToolNodes, CragNodes, history
<1>20. CASE graph = "multi" /\ GeneratorAnswers
  <2>1. out' \in OutStates
    <3>1. PICK answer \in {"", "answer"}, grounded \in BOOLEAN, checks \in BOOLEAN :
            out' = [out EXCEPT !.answer = answer, !.grounded = grounded,
                               !.checked = checks, !.final = tool.chunks]
      BY <1>20 DEF GeneratorAnswers
    <3>2. tool.chunks \in SUBSET Marks
      BY DEF TypeInv, TypeOK, ToolStates
    <3> QED
      BY <3>1, <3>2 DEF TypeInv, TypeOK, OutStates
  <2>2. /\ at = "generator" /\ steps < Limit /\ at' = "verify_answer" /\ steps' = steps + 1
        /\ UNCHANGED <<graph, turn, tool, doc, barred>>
        /\ written' = written + 1 /\ verdict' \in {"pass", "fail", verdict}
    BY <1>20 DEF GeneratorAnswers, Enter, Leave, history
  <2> QED
    BY <2>1, <2>2 DEF TypeInv, TypeOK, Resting, SharedNodes, ToolNodes, CragNodes, history
<1>21. CASE graph = "full" /\ LoadMemory
  BY <1>21 DEF TypeInv, TypeOK, Resting, SharedNodes, ToolNodes, CragNodes, LoadMemory,
     Enter, Leave, history
<1>22. CASE graph = "full" /\ RouteQuery
  BY <1>22 DEF TypeInv, TypeOK, Resting, SharedNodes, ToolNodes, CragNodes, RouteQuery,
     Enter, Leave, history
<1>23. CASE graph = "full" /\ GradeDocuments
  <2>1. doc' \in DocStates /\ doc'.retries = doc.retries
    <3>1. Pool \in SUBSET Marks
      BY DEF TypeInv, TypeOK, DocStates, Pool
    <3>2. PICK graded \in SUBSET Marks : doc' = [doc EXCEPT !.graded = graded]
      BY <1>23, <3>1 DEF GradeDocuments
    <3> QED
      BY <3>2 DEF TypeInv, TypeOK, DocStates
  <2>2. /\ at = "grade_documents" /\ steps < Limit /\ at' \in {"generate", "insufficient_info", "rewrite_query"} /\ steps' = steps + 1
        /\ UNCHANGED <<graph, turn, tool, out, verdict, written, barred>>
        /\ at' = "rewrite_query" => doc.retries < MaxRetries
    BY <1>23 DEF GradeDocuments, Enter, Leave, history, MayRewrite
  <2> QED
    BY <2>1, <2>2 DEF TypeInv, TypeOK, Resting, SharedNodes, ToolNodes, CragNodes, history
<1>24. CASE graph = "full" /\ RewriteQuery
  <2>1. doc' \in DocStates
    <3>1. doc.retries + 1 \in 0..MaxRetries
      <4>1. doc.retries < MaxRetries
        BY <1>24 DEF TypeInv, RewriteQuery, Enter
      <4>2. doc.retries \in Nat
        BY DEF TypeInv, TypeOK, DocStates
      <4> QED
        BY <4>1, <4>2
    <3>2. doc' = [doc EXCEPT !.retries = doc.retries + 1]
      BY <1>24 DEF RewriteQuery
    <3> QED
      BY <3>1, <3>2 DEF TypeInv, TypeOK, DocStates
  <2>2. /\ at = "rewrite_query" /\ steps < Limit /\ at' = "vector_retrieve" /\ steps' = steps + 1
        /\ UNCHANGED <<graph, turn, tool, out, verdict, written, barred>>
    BY <1>24 DEF RewriteQuery, Enter, Leave, history
  <2> QED
    BY <2>1, <2>2 DEF TypeInv, TypeOK, Resting, SharedNodes, ToolNodes, CragNodes, history
<1>25. CASE graph = "full" /\ CheckHallucination
  <2>1. doc' \in DocStates
    <3>1. doc.regens \in Nat
      BY DEF TypeInv, TypeOK, DocStates
    <3>2. PICK regens \in Nat : doc' = [doc EXCEPT !.regens = regens]
      <4>1. PICK grounded \in BOOLEAN :
              doc' = [doc EXCEPT !.regens = IF grounded THEN doc.regens ELSE doc.regens + 1]
        BY <1>25 DEF CheckHallucination
      <4>2. (IF grounded THEN doc.regens ELSE doc.regens + 1) \in Nat
        BY <3>1
      <4> QED
        BY <4>1, <4>2
    <3> QED
      BY <3>2 DEF TypeInv, TypeOK, DocStates
  <2>2. out' \in OutStates
    BY <1>25 DEF TypeInv, TypeOK, OutStates, CheckHallucination
  <2>3. /\ at = "check_hallucination" /\ steps < Limit /\ at' \in {"save_memory", "generate"} /\ steps' = steps + 1
        /\ UNCHANGED <<graph, turn, tool, written, barred>>
        /\ verdict' \in {"pass", "fail"}
    BY <1>25 DEF CheckHallucination, Enter, Leave, history
  <2> QED
    BY <2>1, <2>2, <2>3 DEF TypeInv, TypeOK, Resting, SharedNodes, ToolNodes, CragNodes,
       history
<1>26. CASE graph = "full" /\ SaveMemory
  BY <1>26 DEF TypeInv, TypeOK, Resting, SharedNodes, ToolNodes, CragNodes, SaveMemory,
     Enter, Leave, history
<1>27. CASE UNCHANGED vars
  BY <1>27 DEF TypeInv, TypeOK, vars
<1> QED
  BY <1>1, <1>2, <1>3, <1>4, <1>5, <1>6, <1>7, <1>8, <1>9, <1>10, <1>11, <1>12, <1>13,
     <1>14, <1>15, <1>16, <1>17, <1>18, <1>19, <1>20, <1>21, <1>22, <1>23, <1>24, <1>25,
     <1>26, <1>27 DEF Next, SharedNext, ToolNext, CragNext

(* What a grounding check of the full graph leaves behind. *)
LEMMA CheckEffect ==
  ASSUME TypeInv, CheckHallucination
  PROVE  \E grounded \in BOOLEAN, regens \in Nat :
           /\ regens = IF grounded THEN doc.regens ELSE doc.regens + 1
           /\ at = "check_hallucination" /\ steps < Limit /\ steps' = steps + 1
           /\ at' = IF grounded \/ ~MayRegenerate(regens) THEN "save_memory" ELSE "generate"
           /\ verdict' = IF grounded THEN "pass" ELSE "fail"
           /\ out'.grounded = grounded /\ out'.checked /\ out'.answer = out.answer
           /\ out'.final = out.final /\ out'.toolPath = out.toolPath
           /\ doc'.regens = regens /\ doc'.retries = doc.retries
           /\ doc'.retrieved = doc.retrieved /\ doc'.merged = doc.merged
           /\ doc'.graded = doc.graded
           /\ UNCHANGED <<graph, turn, tool, written, barred, kept>>
<1>1. doc \in DocStates /\ out \in OutStates /\ doc.regens \in Nat
  BY DEF TypeInv, TypeOK, DocStates
<1>2. PICK grounded \in BOOLEAN :
         LET regens == IF grounded THEN doc.regens ELSE doc.regens + 1 IN
         /\ out' = [out EXCEPT !.grounded = grounded, !.checked = TRUE]
         /\ doc' = [doc EXCEPT !.regens = regens]
         /\ verdict' = IF grounded THEN "pass" ELSE "fail"
         /\ Leave(IF grounded \/ ~MayRegenerate(regens) THEN "save_memory" ELSE "generate")
  BY DEF CheckHallucination
<1> DEFINE regens == IF grounded THEN doc.regens ELSE doc.regens + 1
<1>3. regens \in Nat
  BY <1>1
<1>4. /\ out' = [out EXCEPT !.grounded = grounded, !.checked = TRUE]
      /\ doc' = [doc EXCEPT !.regens = regens]
      /\ verdict' = IF grounded THEN "pass" ELSE "fail"
      /\ at' = IF grounded \/ ~MayRegenerate(regens) THEN "save_memory" ELSE "generate"
      /\ steps' = steps + 1 /\ UNCHANGED <<graph, turn>>
  BY <1>2 DEF Leave
<1>5. regens = IF grounded THEN doc.regens ELSE doc.regens + 1
  OBVIOUS
<1> HIDE DEF regens
<1>6. out'.grounded = grounded /\ out'.checked /\ out'.answer = out.answer
      /\ out'.final = out.final /\ out'.toolPath = out.toolPath
  BY <1>1, <1>4 DEF OutStates
<1>7. doc'.regens = regens /\ doc'.retries = doc.retries
      /\ doc'.retrieved = doc.retrieved /\ doc'.merged = doc.merged
      /\ doc'.graded = doc.graded
  BY <1>1, <1>4 DEF DocStates
<1>8. /\ at = "check_hallucination" /\ steps < Limit
      /\ UNCHANGED <<tool, written, barred, kept>>
  BY DEF CheckHallucination, Enter
<1> QED
  BY <1>3, <1>4, <1>5, <1>6, <1>7, <1>8

(* What the reranker leaves behind, channel by channel. *)
LEMMA RerankEffect ==
  ASSUME TypeInv, Rerank
  PROVE  /\ at = "rerank" /\ steps' = steps + 1
         /\ at' \in {"generate", "insufficient_info", "grade_documents"}
         /\ at' = "generate" => graph = "minimal" \/ (graph = "multi" /\ Pool # {})
         /\ at' = "grade_documents" => graph \notin {"minimal", "multi"}
         /\ doc'.retrieved = doc.retrieved /\ doc'.merged = Pool
         /\ doc'.graded = doc.graded /\ doc'.retries = doc.retries
         /\ doc'.regens = doc.regens
         /\ UNCHANGED <<graph, turn, tool, out, verdict, written, barred, kept>>
<1>1. doc \in DocStates
  BY DEF TypeInv, TypeOK
<1>2. PICK rank \in IF Pool = {} THEN {"weak"} ELSE {"weak", "fair", "strong"} :
         /\ doc' = [doc EXCEPT !.merged = Pool, !.rank = rank]
         /\ Leave(CASE graph = "minimal" -> "generate"
                    [] graph # "minimal" /\ rank = "weak" -> "insufficient_info"
                    [] graph = "multi" /\ rank # "weak" -> "generate"
                    [] OTHER -> "grade_documents")
  BY DEF Rerank
<1>3. /\ doc'.retrieved = doc.retrieved /\ doc'.merged = Pool
      /\ doc'.graded = doc.graded /\ doc'.retries = doc.retries
      /\ doc'.regens = doc.regens
  BY <1>1, <1>2 DEF DocStates
<1>4. /\ at = "rerank" /\ UNCHANGED <<tool, out, verdict, written, barred, kept>>
  BY DEF Rerank, Enter, history
<1>5. /\ at' = CASE graph = "minimal" -> "generate"
                 [] graph # "minimal" /\ rank = "weak" -> "insufficient_info"
                 [] graph = "multi" /\ rank # "weak" -> "generate"
                 [] OTHER -> "grade_documents"
      /\ steps' = steps + 1 /\ UNCHANGED <<graph, turn>>
  BY <1>2 DEF Leave
<1>6. /\ at' \in {"generate", "insufficient_info", "grade_documents"}
      /\ at' = "generate" => graph = "minimal" \/ (graph = "multi" /\ rank # "weak")
      /\ at' = "grade_documents" => graph \notin {"minimal", "multi"}
  <2>1. graph = "minimal" => at' = "generate"
    BY <1>5
  <2>2. graph # "minimal" /\ rank = "weak" => at' = "insufficient_info"
    BY <1>5
  <2>3. graph = "multi" /\ rank # "weak" => at' = "generate"
    BY <1>5
  <2>4. graph \notin {"minimal", "multi"} /\ rank # "weak" => at' = "grade_documents"
    BY <1>5
  <2> QED
    BY <2>1, <2>2, <2>3, <2>4
<1>7. rank # "weak" => Pool # {}
  BY <1>2
<1> QED
  BY <1>3, <1>4, <1>5, <1>6, <1>7

(* What the grader leaves behind. *)
LEMMA GradeEffect ==
  ASSUME TypeInv, GradeDocuments
  PROVE  /\ at = "grade_documents" /\ steps' = steps + 1
         /\ at' \in {"generate", "insufficient_info", "rewrite_query"}
         /\ IF at' = "generate" THEN doc'.graded = Pool /\ Pool # {} ELSE doc'.graded = {}
         /\ at' = "rewrite_query" => MayRewrite
         /\ doc'.retrieved = doc.retrieved /\ doc'.merged = doc.merged
         /\ doc'.retries = doc.retries /\ doc'.regens = doc.regens
         /\ UNCHANGED <<graph, turn, tool, out, verdict, written, barred, kept>>
<1>1. doc \in DocStates
  BY DEF TypeInv, TypeOK
<1>2. PICK graded \in {{}, Pool} :
         /\ doc' = [doc EXCEPT !.graded = graded]
         /\ Leave(CASE graded # {} -> "generate"
                    [] graded = {} /\ ~MayRewrite -> "insufficient_info"
                    [] OTHER -> "rewrite_query")
  BY DEF GradeDocuments
<1>3. /\ doc'.graded = graded
      /\ doc'.retrieved = doc.retrieved /\ doc'.merged = doc.merged
      /\ doc'.retries = doc.retries /\ doc'.regens = doc.regens
  BY <1>1, <1>2 DEF DocStates
<1>4. /\ at = "grade_documents" /\ UNCHANGED <<tool, out, verdict, written, barred, kept>>
  BY DEF GradeDocuments, Enter, history
<1>5. /\ at' = CASE graded # {} -> "generate"
                 [] graded = {} /\ ~MayRewrite -> "insufficient_info"
                 [] OTHER -> "rewrite_query"
      /\ steps' = steps + 1 /\ UNCHANGED <<graph, turn>>
  BY <1>2 DEF Leave
<1>6. CASE graded # {}
  BY <1>2, <1>3, <1>4, <1>5, <1>6
<1>7. CASE graded = {}
  <2>1. at' = IF MayRewrite THEN "rewrite_query" ELSE "insufficient_info"
    BY <1>5, <1>7
  <2> QED
    BY <1>3, <1>4, <1>5, <1>7, <2>1
<1> QED
  BY <1>6, <1>7

(* What generate leaves behind. *)
LEMMA GenerateEffect ==
  ASSUME TypeInv, Generate
  PROVE  \E answer \in {"", "answer"}, grounded \in BOOLEAN, checks \in BOOLEAN :
           /\ checks <=> graph # "full" /\ answer # "" /\ Evidence # {}
           /\ grounded => checks
           /\ at = "generate" /\ at' = "verify_answer" /\ steps' = steps + 1
           /\ out'.answer = answer /\ out'.grounded = grounded
           /\ out'.checked = checks /\ out'.final = Evidence
           /\ out'.toolPath = out.toolPath
           /\ verdict' = IF checks THEN IF grounded THEN "pass" ELSE "fail" ELSE verdict
           /\ written' = written + 1
           /\ UNCHANGED <<graph, turn, tool, doc, barred, kept>>
<1>1. out \in OutStates
  BY DEF TypeInv, TypeOK
<1>2. PICK answer \in {"", "answer"}, grounded \in BOOLEAN :
         LET checks == graph # "full" /\ answer # "" /\ Evidence # {} IN
         /\ grounded => checks
         /\ out' = [out EXCEPT !.answer = answer, !.grounded = grounded,
                               !.checked = checks, !.final = Evidence]
         /\ verdict' = CASE checks /\ grounded  -> "pass"
                         [] checks /\ ~grounded -> "fail"
                         [] OTHER               -> verdict
  BY DEF Generate
<1> DEFINE checks == graph # "full" /\ answer # "" /\ Evidence # {}
<1>3. /\ checks \in BOOLEAN
      /\ checks <=> graph # "full" /\ answer # "" /\ Evidence # {}
  OBVIOUS
<1>4. /\ grounded => checks
      /\ out' = [out EXCEPT !.answer = answer, !.grounded = grounded,
                            !.checked = checks, !.final = Evidence]
      /\ verdict' = CASE checks /\ grounded  -> "pass"
                      [] checks /\ ~grounded -> "fail"
                      [] OTHER               -> verdict
  BY <1>2
<1> HIDE DEF checks
<1>5. /\ out'.answer = answer /\ out'.grounded = grounded
      /\ out'.checked = checks /\ out'.final = Evidence
      /\ out'.toolPath = out.toolPath
  BY <1>1, <1>4 DEF OutStates
<1>6. verdict' = IF checks THEN IF grounded THEN "pass" ELSE "fail" ELSE verdict
  BY <1>3, <1>4
<1>7. /\ at = "generate" /\ at' = "verify_answer" /\ steps' = steps + 1
      /\ written' = written + 1
      /\ UNCHANGED <<graph, turn, tool, doc, barred, kept>>
  BY DEF Generate, Enter, Leave
<1> QED
  BY <1>3, <1>4, <1>5, <1>6, <1>7

(* What the generator of the tool lane leaves behind when it answers. *)
LEMMA GeneratorEffect ==
  ASSUME TypeInv, GeneratorAnswers
  PROVE  /\ at = "generator" /\ at' = "verify_answer" /\ steps' = steps + 1
         /\ out'.answer \in {"", "answer"} /\ out'.final = tool.chunks
         /\ out'.toolPath = out.toolPath
         /\ UNCHANGED <<graph, turn, tool, doc, barred, kept>>
<1>1. out \in OutStates
  BY DEF TypeInv, TypeOK
<1>2. PICK answer \in {"", "answer"}, grounded \in BOOLEAN, checked \in BOOLEAN :
         out' = [out EXCEPT !.answer = answer, !.grounded = grounded,
                            !.checked = checked, !.final = tool.chunks]
  BY DEF GeneratorAnswers
<1>3. out'.answer = answer /\ out'.final = tool.chunks /\ out'.toolPath = out.toolPath
  BY <1>1, <1>2 DEF OutStates
<1>4. /\ at = "generator" /\ at' = "verify_answer" /\ steps' = steps + 1
      /\ UNCHANGED <<graph, turn, tool, doc, barred, kept>>
  BY DEF GeneratorAnswers, Enter, Leave
<1> QED
  BY <1>2, <1>3, <1>4

(* What the friendly lane leaves behind. *)
LEMMA FriendlyEffect ==
  ASSUME TypeInv, FriendlyGenerator
  PROVE  /\ at = "friendly_generator" /\ at' = "end" /\ steps' = steps + 1
         /\ out'.answer \in {"chat", "apology"}
         /\ out'.final = out.final /\ out'.toolPath = out.toolPath
         /\ UNCHANGED <<graph, turn, tool, doc, verdict, written, barred, kept>>
<1>1. out \in OutStates
  BY DEF TypeInv, TypeOK
<1>2. \/ out' = [out EXCEPT !.answer = "chat", !.grounded = TRUE]
      \/ out' = [out EXCEPT !.answer = "apology"]
  BY DEF FriendlyGenerator
<1>3. /\ out'.answer \in {"chat", "apology"}
      /\ out'.final = out.final /\ out'.toolPath = out.toolPath
  BY <1>1, <1>2 DEF OutStates
<1> QED
  BY <1>3 DEF FriendlyGenerator, Enter, Leave, history

LEMMA ServedSome ==
  ASSUME tool \in ToolStates, NEW names, 1 \in ServedOf(names)
  PROVE  Cardinality(ServedOf(names)) >= 1
<1>1. IsFiniteSet(ServedOf(names))
  BY ServedCounts, FS_Subset DEF ServedOf
<1>2. Cardinality(ServedOf(names)) \in Nat
  BY ServedCounts
<1>3. Cardinality(ServedOf(names)) # 0
  BY <1>1, FS_EmptySet
<1> QED
  BY <1>2, <1>3

(* What a batch of the tool lane leaves behind. *)
LEMMA AskForEffect ==
  ASSUME tool \in ToolStates, NEW batch \in Batches, tool' = AskFor(batch)
  PROVE  /\ Len(tool'.calls) > 0 /\ tool'.count = tool.count
         /\ tool'.unknown = tool.unknown /\ tool'.answered = tool.answered
BY BatchIsSeq DEF AskFor, ToolStates

LEMMA ToolCallerEffect ==
  ASSUME TypeInv, ToolCaller, Len(tool.calls) > 0, tool.count < MaxCalls
  PROVE  /\ tool'.answered
         /\ \/ barred'
            \/ tool'.count + tool'.unknown >= tool.count + tool.unknown + 1
         /\ tool'.count + tool'.unknown >= tool.count + tool.unknown
         /\ barred => barred'
<1>1. tool \in ToolStates /\ tool.count \in Nat /\ tool.unknown \in Nat
  BY DEF TypeInv, TypeOK, ToolStates
<1>2. 1 \in Served
  <2>1. Positions(tool.calls, Charged) \cap 1..(1-1) = {}
    OBVIOUS
  <2>2. Cardinality({}) = 0
    BY FS_EmptySet
  <2>3. 1 \in DOMAIN tool.calls
    BY <1>1 DEF ToolStates
  <2> QED
    BY <1>1, <2>1, <2>2, <2>3 DEF Served
<1>3. 1 \in ServedOf(Charged) \/ 1 \in ServedOf(Unregistered) \/ 1 \in ServedOf(Denied)
  <2>1. 1 \in DOMAIN tool.calls /\ tool.calls[1] \in Names
    BY <1>1 DEF ToolStates
  <2> QED
    BY <1>2, <2>1 DEF ServedOf, Positions, Names
<1>4. /\ 1 \in ServedOf(Charged) => Cardinality(ServedOf(Charged)) >= 1
      /\ 1 \in ServedOf(Unregistered) => Cardinality(ServedOf(Unregistered)) >= 1
      /\ Cardinality(ServedOf(Charged)) \in Nat /\ Cardinality(ServedOf(Unregistered)) \in Nat
  <2>1. ASSUME 1 \in ServedOf(Charged) PROVE Cardinality(ServedOf(Charged)) >= 1
    BY <1>1, <2>1, ServedSome, Zenon
  <2>2. ASSUME 1 \in ServedOf(Unregistered) PROVE Cardinality(ServedOf(Unregistered)) >= 1
    BY <1>1, <2>2, ServedSome, Zenon
  <2>3. Cardinality(ServedOf(Charged)) \in Nat
    BY <1>1, ServedCounts, Zenon
  <2>4. Cardinality(ServedOf(Unregistered)) \in Nat
    BY <1>1, ServedCounts, Zenon
  <2> QED
    BY <2>1, <2>2, <2>3, <2>4
<1>5. PICK lifted \in SUBSET {<<turn, 0>>}, audited \in BOOLEAN :
         tool' = [tool EXCEPT
            !.calls = <<>>,
            !.owed = @ - Cardinality(Served),
            !.answered = @ \/ Served # {},
            !.count = @ + Cardinality(ServedOf(Charged)),
            !.unknown = @ + Cardinality(ServedOf(Unregistered)),
            !.audited = audited,
            !.chunks = @ \cup lifted]
  BY DEF ToolCaller
<1>6. /\ tool'.answered = (tool.answered \/ Served # {})
      /\ tool'.count = tool.count + Cardinality(ServedOf(Charged))
      /\ tool'.unknown = tool.unknown + Cardinality(ServedOf(Unregistered))
  BY <1>1, <1>5 DEF ToolStates
<1>7. (barred => barred') /\ (ServedOf(Denied) # {} => barred')
  BY DEF ToolCaller
<1>8. Cardinality(ServedOf(Charged)) \in Nat /\ Cardinality(ServedOf(Unregistered)) \in Nat
  BY <1>4
<1>9. tool'.answered
  BY <1>2, <1>6
<1>10. tool'.count + tool'.unknown >= tool.count + tool.unknown
  BY <1>1, <1>6, <1>8
<1>11. CASE 1 \in ServedOf(Charged)
  <2>1. Cardinality(ServedOf(Charged)) >= 1
    BY <1>4, <1>11
  <2>2. tool'.count + tool'.unknown >= tool.count + tool.unknown + 1
    BY <1>1, <1>6, <1>8, <2>1
  <2> QED
    BY <1>1, <1>7, <1>9, <1>10, <2>2
<1>12. CASE 1 \in ServedOf(Unregistered)
  <2>1. Cardinality(ServedOf(Unregistered)) >= 1
    BY <1>4, <1>12
  <2>2. tool'.count + tool'.unknown >= tool.count + tool.unknown + 1
    BY <1>1, <1>6, <1>8, <2>1
  <2> QED
    BY <1>1, <1>7, <1>9, <1>10, <2>2
<1>13. CASE 1 \in ServedOf(Denied)
  BY <1>7, <1>9, <1>10, <1>13
<1> QED
  BY <1>3, <1>11, <1>12, <1>13

LEMMA ServedStep == TypeInv /\ ServedInv /\ [Next]_vars => ServedInv'
<1> SUFFICES ASSUME TypeInv, ServedInv, [Next]_vars PROVE ServedInv'
  OBVIOUS
<1>1. CASE Ask
  BY <1>1 DEF TypeInv, TypeOK, Resting, ToolStates, ServedInv, FirstCallServed, Ask,
     Entry, ResetTool, FreshTool, FreshDoc, FreshOut, Enter, Leave, history
<1>2. CASE Finish
  BY <1>2 DEF TypeInv, TypeOK, Resting, ToolStates, ServedInv, FirstCallServed, Finish,
     Enter, Leave, history
<1>3. CASE Raise
  BY <1>3 DEF TypeInv, TypeOK, Resting, ToolStates, ServedInv, FirstCallServed, Raise,
     Enter, Leave, history
<1>4. CASE Cut
  BY <1>4 DEF TypeInv, TypeOK, Resting, ToolStates, ServedInv, FirstCallServed, Cut,
     Enter, Leave, history
<1>5. CASE HydeExpansion
  BY <1>5 DEF TypeInv, TypeOK, Resting, ToolStates, ServedInv, FirstCallServed,
     HydeExpansion, Enter, Leave, history
<1>6. CASE VectorRetrieve
  BY <1>6 DEF TypeInv, TypeOK, Resting, ToolStates, ServedInv, FirstCallServed,
     VectorRetrieve, Enter, Leave, history
<1>7. CASE EntityExpand
  BY <1>7 DEF TypeInv, TypeOK, Resting, ToolStates, ServedInv, FirstCallServed,
     EntityExpand, Enter, Leave, history
<1>8. CASE Rerank
  BY <1>8 DEF TypeInv, TypeOK, Resting, ToolStates, ServedInv, FirstCallServed, Rerank,
     Enter, Leave, history
<1>9. CASE InsufficientInfo
  BY <1>9 DEF TypeInv, TypeOK, Resting, ToolStates, ServedInv, FirstCallServed,
     InsufficientInfo, AfterApology, Enter, Leave, history
<1>10. CASE Generate
  BY <1>10 DEF TypeInv, TypeOK, Resting, ToolStates, ServedInv, FirstCallServed,
     Generate, Enter, Leave, history
<1>11. CASE VerifyAnswer
  BY <1>11 DEF TypeInv, TypeOK, Resting, ToolStates, ServedInv, FirstCallServed,
     VerifyAnswer, AfterVerify, Enter, Leave, history
<1>12. CASE FriendlyGenerator
  BY <1>12 DEF TypeInv, TypeOK, Resting, ToolStates, ServedInv, FirstCallServed,
     FriendlyGenerator, Enter, Leave, history
<1>13. CASE graph = "multi" /\ TriageToRetrieval
  BY <1>13 DEF TypeInv, TypeOK, Resting, ToolStates, ServedInv, FirstCallServed,
     TriageToRetrieval, Enter, Leave, history
<1>14. CASE graph = "multi" /\ TriageToTools
  <2>1. PICK batch \in Batches : tool' = AskFor(batch)
    BY <1>14 DEF TriageToTools
  <2>2. Len(tool'.calls) > 0 /\ tool'.count = tool.count /\ tool'.unknown = tool.unknown
    BY <2>1, AskForEffect DEF TypeInv, TypeOK
  <2>3. tool.count \in Nat /\ tool.unknown \in Nat
    BY DEF TypeInv, TypeOK, ToolStates
  <2>4. at' = "tool_caller" /\ at = "triage"
    BY <1>14, <2>3 DEF Enter, Leave, BudgetSpent, TriageToTools
  <2> QED
    BY <2>2, <2>3, <2>4 DEF ServedInv, FirstCallServed
<1>15. CASE graph = "multi" /\ ToolCaller
  <2>1. at = "tool_caller" /\ at' = "reasoner"
    BY <1>15 DEF ToolCaller, Enter, Leave
  <2>2. tool'.answered
    BY <1>15, <2>1, ToolCallerEffect DEF ServedInv
  <2> QED
    BY <2>1, <2>2 DEF ServedInv, FirstCallServed
<1>16. CASE graph = "multi" /\ ReasonerHandsOver
  BY <1>16 DEF TypeInv, TypeOK, Resting, ToolStates, ServedInv, FirstCallServed,
     ReasonerHandsOver, Enter, Leave, history
<1>17. CASE graph = "multi" /\ ReasonerAsksMore
  <2>1. PICK batch \in Batches : tool' = AskFor(batch)
    BY <1>17 DEF ReasonerAsksMore
  <2>2. Len(tool'.calls) > 0 /\ tool'.count = tool.count /\ tool'.unknown = tool.unknown
    BY <2>1, AskForEffect DEF TypeInv, TypeOK
  <2>3. tool.count \in Nat /\ tool.unknown \in Nat
    BY DEF TypeInv, TypeOK, ToolStates
  <2>4. at' = "tool_caller" /\ at = "reasoner" /\ tool.count < MaxCalls /\ tool.unknown < MaxUnknown
    BY <1>17, <2>3 DEF Enter, Leave, BudgetSpent, ReasonerAsksMore
  <2> QED
    BY <2>2, <2>3, <2>4 DEF ServedInv, FirstCallServed
<1>18. CASE graph = "multi" /\ GeneratorFails
  BY <1>18 DEF TypeInv, TypeOK, Resting, ToolStates, ServedInv, FirstCallServed,
     GeneratorFails, Enter, Leave, history
<1>19. CASE graph = "multi" /\ GeneratorRefuses
  BY <1>19 DEF TypeInv, TypeOK, Resting, ToolStates, ServedInv, FirstCallServed,
     GeneratorRefuses, Enter, Leave, history
<1>20. CASE graph = "multi" /\ GeneratorAnswers
  BY <1>20 DEF TypeInv, TypeOK, Resting, ToolStates, ServedInv, FirstCallServed,
     GeneratorAnswers, Enter, Leave, history
<1>21. CASE graph = "full" /\ LoadMemory
  BY <1>21 DEF TypeInv, TypeOK, Resting, ToolStates, ServedInv, FirstCallServed,
     LoadMemory, Enter, Leave, history
<1>22. CASE graph = "full" /\ RouteQuery
  BY <1>22 DEF TypeInv, TypeOK, Resting, ToolStates, ServedInv, FirstCallServed,
     RouteQuery, Enter, Leave, history
<1>23. CASE graph = "full" /\ GradeDocuments
  BY <1>23 DEF TypeInv, TypeOK, Resting, ToolStates, ServedInv, FirstCallServed,
     GradeDocuments, Enter, Leave, history
<1>24. CASE graph = "full" /\ RewriteQuery
  BY <1>24 DEF TypeInv, TypeOK, Resting, ToolStates, ServedInv, FirstCallServed,
     RewriteQuery, Enter, Leave, history
<1>25. CASE graph = "full" /\ CheckHallucination
  BY <1>25 DEF TypeInv, TypeOK, Resting, ToolStates, ServedInv, FirstCallServed,
     CheckHallucination, Enter, Leave, history
<1>26. CASE graph = "full" /\ SaveMemory
  BY <1>26 DEF TypeInv, TypeOK, Resting, ToolStates, ServedInv, FirstCallServed,
     SaveMemory, Enter, Leave, history
<1>27. CASE UNCHANGED vars
  BY <1>27 DEF TypeInv, TypeOK, Resting, ToolStates, ServedInv, FirstCallServed, vars
<1> QED
  BY <1>1, <1>2, <1>3, <1>4, <1>5, <1>6, <1>7, <1>8, <1>9, <1>10, <1>11, <1>12, <1>13,
     <1>14, <1>15, <1>16, <1>17, <1>18, <1>19, <1>20, <1>21, <1>22, <1>23, <1>24, <1>25,
     <1>26, <1>27 DEF Next, SharedNext, ToolNext, CragNext

LEMMA FreshStep == TypeInv /\ FreshInv /\ [Next]_vars => FreshInv'
<1> SUFFICES ASSUME TypeInv, FreshInv, [Next]_vars PROVE FreshInv'
  OBVIOUS
<1>1. CASE Ask
  BY <1>1 DEF TypeInv, TypeOK, Resting, Before, DocStates, ToolStates, OutStates,
     FreshInv, FreshEvidence, Pass, Ask, Entry, ResetTool, FreshTool, FreshDoc,
     FreshOut, Enter, Leave, history
<1>2. CASE Finish
  BY <1>2 DEF TypeInv, TypeOK, Resting, Before, DocStates, ToolStates, OutStates,
     FreshInv, FreshEvidence, Pass, Finish, Enter, Leave, history
<1>3. CASE Raise
  BY <1>3 DEF TypeInv, TypeOK, Resting, Before, DocStates, ToolStates, OutStates,
     FreshInv, FreshEvidence, Pass, Raise, Enter, Leave, history
<1>4. CASE Cut
  BY <1>4 DEF TypeInv, TypeOK, Resting, Before, DocStates, ToolStates, OutStates,
     FreshInv, FreshEvidence, Pass, Cut, Enter, Leave, history
<1>5. CASE HydeExpansion
  BY <1>5 DEF TypeInv, TypeOK, Resting, Before, DocStates, ToolStates, OutStates,
     FreshInv, FreshEvidence, Pass, HydeExpansion, Enter, Leave, history
<1>6. CASE VectorRetrieve
  BY <1>6 DEF TypeInv, TypeOK, Resting, Before, DocStates, ToolStates, OutStates,
     FreshInv, FreshEvidence, Pass, VectorRetrieve, Enter, Leave, history
<1>7. CASE EntityExpand
  BY <1>7 DEF TypeInv, TypeOK, Resting, Before, DocStates, ToolStates, OutStates,
     FreshInv, FreshEvidence, Pass, EntityExpand, Pool, Enter, Leave, history
<1>8. CASE Rerank
  BY <1>8, RerankEffect DEF FreshInv, FreshEvidence, Pass, Pool, Before, Resting
<1>9. CASE InsufficientInfo
  BY <1>9 DEF TypeInv, TypeOK, Resting, Before, DocStates, ToolStates, OutStates,
     FreshInv, FreshEvidence, Pass, InsufficientInfo, AfterApology, Enter, Leave,
     history
<1>10. CASE Generate
  BY <1>10, GenerateEffect
     DEF FreshInv, FreshEvidence, Pass, Evidence, Pool, Before, Resting
<1>11. CASE VerifyAnswer
  BY <1>11 DEF TypeInv, TypeOK, Resting, Before, DocStates, ToolStates, OutStates,
     FreshInv, FreshEvidence, Pass, VerifyAnswer, AfterVerify, Enter, Leave, history
<1>12. CASE FriendlyGenerator
  BY <1>12, FriendlyEffect DEF FreshInv, FreshEvidence, Pass, Before, Resting
<1>13. CASE graph = "multi" /\ TriageToRetrieval
  BY <1>13 DEF TypeInv, TypeOK, Resting, Before, DocStates, ToolStates, OutStates,
     FreshInv, FreshEvidence, Pass, TriageToRetrieval, Enter, Leave, history
<1>14. CASE graph = "multi" /\ TriageToTools
  BY <1>14 DEF TypeInv, TypeOK, Resting, Before, DocStates, ToolStates, OutStates,
     FreshInv, FreshEvidence, Pass, TriageToTools, Enter, Leave, history
<1>15. CASE graph = "multi" /\ ToolCaller
  BY <1>15 DEF TypeInv, TypeOK, Resting, Before, DocStates, ToolStates, OutStates,
     FreshInv, FreshEvidence, Pass, ToolCaller, Enter, Leave, history
<1>16. CASE graph = "multi" /\ ReasonerHandsOver
  BY <1>16 DEF TypeInv, TypeOK, Resting, Before, DocStates, ToolStates, OutStates,
     FreshInv, FreshEvidence, Pass, ReasonerHandsOver, Enter, Leave, history
<1>17. CASE graph = "multi" /\ ReasonerAsksMore
  BY <1>17 DEF TypeInv, TypeOK, Resting, Before, DocStates, ToolStates, OutStates,
     FreshInv, FreshEvidence, Pass, ReasonerAsksMore, Enter, Leave, history
<1>18. CASE graph = "multi" /\ GeneratorFails
  BY <1>18 DEF TypeInv, TypeOK, Resting, Before, DocStates, ToolStates, OutStates,
     FreshInv, FreshEvidence, Pass, GeneratorFails, Enter, Leave, history
<1>19. CASE graph = "multi" /\ GeneratorRefuses
  BY <1>19 DEF TypeInv, TypeOK, Resting, Before, DocStates, ToolStates, OutStates,
     FreshInv, FreshEvidence, Pass, GeneratorRefuses, Enter, Leave, history
<1>20. CASE graph = "multi" /\ GeneratorAnswers
  BY <1>20, GeneratorEffect DEF FreshInv, FreshEvidence, Pass, Before, Resting
<1>21. CASE graph = "full" /\ LoadMemory
  BY <1>21 DEF TypeInv, TypeOK, Resting, Before, DocStates, ToolStates, OutStates,
     FreshInv, FreshEvidence, Pass, LoadMemory, Enter, Leave, history
<1>22. CASE graph = "full" /\ RouteQuery
  BY <1>22 DEF TypeInv, TypeOK, Resting, Before, DocStates, ToolStates, OutStates,
     FreshInv, FreshEvidence, Pass, RouteQuery, Enter, Leave, history
<1>23. CASE graph = "full" /\ GradeDocuments
  BY <1>23, GradeEffect DEF FreshInv, FreshEvidence, Pass, Pool, Before, Resting
<1>24. CASE graph = "full" /\ RewriteQuery
  BY <1>24 DEF TypeInv, TypeOK, Resting, Before, DocStates, ToolStates, OutStates,
     FreshInv, FreshEvidence, Pass, RewriteQuery, Enter, Leave, history
<1>25. CASE graph = "full" /\ CheckHallucination
  <2>1. PICK grounded \in BOOLEAN, regens \in Nat :
           /\ regens = IF grounded THEN doc.regens ELSE doc.regens + 1
           /\ at = "check_hallucination" /\ steps < Limit /\ steps' = steps + 1
           /\ at' = IF grounded \/ ~MayRegenerate(regens) THEN "save_memory" ELSE "generate"
           /\ verdict' = IF grounded THEN "pass" ELSE "fail"
           /\ out'.grounded = grounded /\ out'.checked /\ out'.answer = out.answer
           /\ out'.final = out.final /\ out'.toolPath = out.toolPath
           /\ doc'.regens = regens /\ doc'.retries = doc.retries
           /\ doc'.retrieved = doc.retrieved /\ doc'.merged = doc.merged
           /\ doc'.graded = doc.graded
           /\ UNCHANGED <<graph, turn, tool, written, barred, kept>>
    BY <1>25, CheckEffect
  <2> QED
    BY <2>1 DEF Resting, Before, FreshInv, FreshEvidence, Pass
<1>26. CASE graph = "full" /\ SaveMemory
  BY <1>26 DEF TypeInv, TypeOK, Resting, Before, DocStates, ToolStates, OutStates,
     FreshInv, FreshEvidence, Pass, SaveMemory, Enter, Leave, history
<1>27. CASE UNCHANGED vars
  BY <1>27 DEF TypeInv, TypeOK, Resting, Before, DocStates, ToolStates, OutStates,
     FreshInv, FreshEvidence, Pass, vars
<1> QED
  BY <1>1, <1>2, <1>3, <1>4, <1>5, <1>6, <1>7, <1>8, <1>9, <1>10, <1>11, <1>12, <1>13,
     <1>14, <1>15, <1>16, <1>17, <1>18, <1>19, <1>20, <1>21, <1>22, <1>23, <1>24, <1>25,
     <1>26, <1>27 DEF Next, SharedNext, ToolNext, CragNext

LEMMA GroundStep == TypeInv /\ FreshInv /\ GroundInv /\ [Next]_vars => GroundInv'
<1> SUFFICES ASSUME TypeInv /\ FreshInv, GroundInv, [Next]_vars PROVE GroundInv'
  OBVIOUS
<1>1. CASE Ask
  BY <1>1 DEF TypeInv, TypeOK, Resting, Before, DocStates, ToolStates, OutStates,
     GroundInv, KeptIsGrounded, Backed, ExplicitlyFailed, Evidence, Pool, Ask, Entry,
     ResetTool, FreshTool, FreshDoc, FreshOut, Enter, Leave, history
<1>2. CASE Finish
  <2>1. at = "end" /\ at' = "idle" /\ UNCHANGED <<graph, tool, doc, out, verdict>>
    BY <1>2 DEF Finish
  <2>2. CASE kept' = kept
    BY <2>1, <2>2 DEF GroundInv, KeptIsGrounded, Before
  <2>3. CASE out.answer # "" /\ ~ExplicitlyFailed /\ kept' = kept \cup {Kept}
    <3>1. /\ Kept.answer = out.answer /\ Kept.verdict = verdict /\ Kept.final = out.final
          /\ out.toolPath => Kept.cache = "investigation"
      BY DEF Kept
    <3>2. Kept.answer = "answer" =>
            /\ Kept.verdict # "fail"
            /\ Kept.final # {} => Kept.verdict = "pass"
            /\ Kept.final = {} => Kept.cache = "investigation" \/ graph = "minimal"
      BY <2>1, <2>3, <3>1 DEF GroundInv, Backed
    <3>3. KeptIsGrounded'
      BY <2>1, <2>3, <3>2 DEF GroundInv, KeptIsGrounded
    <3> QED
      BY <2>1, <3>3 DEF GroundInv, Before
  <2> QED
    BY <1>2, <2>2, <2>3 DEF Finish
<1>3. CASE Raise
  BY <1>3 DEF TypeInv, TypeOK, Resting, Before, DocStates, ToolStates, OutStates,
     GroundInv, KeptIsGrounded, Backed, ExplicitlyFailed, Evidence, Pool, Raise, Enter,
     Leave, history
<1>4. CASE Cut
  BY <1>4 DEF TypeInv, TypeOK, Resting, Before, DocStates, ToolStates, OutStates,
     GroundInv, KeptIsGrounded, Backed, ExplicitlyFailed, Evidence, Pool, Cut, Enter,
     Leave, history
<1>5. CASE HydeExpansion
  BY <1>5 DEF TypeInv, TypeOK, Resting, Before, DocStates, ToolStates, OutStates,
     GroundInv, KeptIsGrounded, Backed, ExplicitlyFailed, Evidence, Pool, HydeExpansion,
     Enter, Leave, history
<1>6. CASE VectorRetrieve
  BY <1>6 DEF TypeInv, TypeOK, Resting, Before, DocStates, ToolStates, OutStates,
     GroundInv, KeptIsGrounded, Backed, ExplicitlyFailed, Evidence, Pool,
     VectorRetrieve, Enter, Leave, history
<1>7. CASE EntityExpand
  BY <1>7 DEF TypeInv, TypeOK, Resting, Before, DocStates, ToolStates, OutStates,
     GroundInv, KeptIsGrounded, Backed, ExplicitlyFailed, Evidence, Pool, EntityExpand,
     Enter, Leave, history
<1>8. CASE Rerank
  <2>1. at' = "generate" => Evidence' # {} \/ graph = "minimal"
    BY <1>8, RerankEffect DEF Evidence, Pool
  <2> QED
    BY <1>8, <2>1, RerankEffect DEF GroundInv, KeptIsGrounded, Before
<1>9. CASE InsufficientInfo
  BY <1>9 DEF TypeInv, TypeOK, Resting, Before, DocStates, ToolStates, OutStates,
     GroundInv, KeptIsGrounded, Backed, ExplicitlyFailed, Evidence, Pool,
     InsufficientInfo, AfterApology, Enter, Leave, history
<1>10. CASE Generate
  <2>1. PICK answer \in {"", "answer"}, grounded \in BOOLEAN, checks \in BOOLEAN :
           /\ checks <=> graph # "full" /\ answer # "" /\ Evidence # {}
           /\ grounded => checks
           /\ at = "generate" /\ at' = "verify_answer"
           /\ out'.answer = answer /\ out'.grounded = grounded
           /\ out'.checked = checks /\ out'.final = Evidence
           /\ verdict' = IF checks THEN IF grounded THEN "pass" ELSE "fail" ELSE verdict
           /\ UNCHANGED <<graph, doc, kept>>
    BY <1>10, GenerateEffect
  <2>2. Evidence' = Evidence
    BY <2>1 DEF Evidence, Pool
  <2>3. graph # "full" => Backed'
    BY <2>1 DEF GroundInv, Backed, ExplicitlyFailed
  <2>4. Evidence = {} => graph = "minimal"
    BY <2>1, GraphsKnown DEF GroundInv, TypeInv, TypeOK
  <2>5. KeptIsGrounded'
    BY <2>1 DEF GroundInv, KeptIsGrounded
  <2> QED
    BY <2>1, <2>2, <2>3, <2>4, <2>5 DEF GroundInv, Before
<1>11. CASE VerifyAnswer
  BY <1>11 DEF TypeInv, TypeOK, Resting, Before, DocStates, ToolStates, OutStates,
     GroundInv, KeptIsGrounded, Backed, ExplicitlyFailed, Evidence, Pool, VerifyAnswer,
     AfterVerify, Enter, Leave, history
<1>12. CASE FriendlyGenerator
  BY <1>12, FriendlyEffect DEF GroundInv, KeptIsGrounded, Backed, Before
<1>13. CASE graph = "multi" /\ TriageToRetrieval
  BY <1>13 DEF TypeInv, TypeOK, Resting, Before, DocStates, ToolStates, OutStates,
     GroundInv, KeptIsGrounded, Backed, ExplicitlyFailed, Evidence, Pool,
     TriageToRetrieval, Enter, Leave, history
<1>14. CASE graph = "multi" /\ TriageToTools
  BY <1>14 DEF TypeInv, TypeOK, Resting, Before, DocStates, ToolStates, OutStates,
     GroundInv, KeptIsGrounded, Backed, ExplicitlyFailed, Evidence, Pool, TriageToTools,
     Enter, Leave, history
<1>15. CASE graph = "multi" /\ ToolCaller
  BY <1>15 DEF TypeInv, TypeOK, Resting, Before, DocStates, ToolStates, OutStates,
     GroundInv, KeptIsGrounded, Backed, ExplicitlyFailed, Evidence, Pool, ToolCaller,
     Enter, Leave, history
<1>16. CASE graph = "multi" /\ ReasonerHandsOver
  BY <1>16 DEF TypeInv, TypeOK, Resting, Before, DocStates, ToolStates, OutStates,
     GroundInv, KeptIsGrounded, Backed, ExplicitlyFailed, Evidence, Pool,
     ReasonerHandsOver, Enter, Leave, history
<1>17. CASE graph = "multi" /\ ReasonerAsksMore
  BY <1>17 DEF TypeInv, TypeOK, Resting, Before, DocStates, ToolStates, OutStates,
     GroundInv, KeptIsGrounded, Backed, ExplicitlyFailed, Evidence, Pool,
     ReasonerAsksMore, Enter, Leave, history
<1>18. CASE graph = "multi" /\ GeneratorFails
  BY <1>18 DEF TypeInv, TypeOK, Resting, Before, DocStates, ToolStates, OutStates,
     GroundInv, KeptIsGrounded, Backed, ExplicitlyFailed, Evidence, Pool,
     GeneratorFails, Enter, Leave, history
<1>19. CASE graph = "multi" /\ GeneratorRefuses
  BY <1>19 DEF TypeInv, TypeOK, Resting, Before, DocStates, ToolStates, OutStates,
     GroundInv, KeptIsGrounded, Backed, ExplicitlyFailed, Evidence, Pool,
     GeneratorRefuses, Enter, Leave, history
<1>20. CASE graph = "multi" /\ GeneratorAnswers
  <2>1. /\ at = "generator" /\ at' = "verify_answer" /\ graph = "multi"
        /\ UNCHANGED <<graph, doc, kept>>
    BY <1>20 DEF GeneratorAnswers, Enter, Leave
  <2>2. verdict = "none"
    BY <2>1 DEF GroundInv, Before
  <2>3. Backed'
    BY <1>20, <2>2 DEF GeneratorAnswers, Backed, ExplicitlyFailed, TypeInv, TypeOK,
       OutStates
  <2>4. out'.answer = "answer" /\ out'.final = {} => out'.toolPath
    BY <1>20, <2>1 DEF GeneratorAnswers, TypeInv, TypeOK, OutStates, FreshInv
  <2> QED
    BY <2>1, <2>3, <2>4 DEF GroundInv, KeptIsGrounded, Before
<1>21. CASE graph = "full" /\ LoadMemory
  BY <1>21 DEF TypeInv, TypeOK, Resting, Before, DocStates, ToolStates, OutStates,
     GroundInv, KeptIsGrounded, Backed, ExplicitlyFailed, Evidence, Pool, LoadMemory,
     Enter, Leave, history
<1>22. CASE graph = "full" /\ RouteQuery
  BY <1>22 DEF TypeInv, TypeOK, Resting, Before, DocStates, ToolStates, OutStates,
     GroundInv, KeptIsGrounded, Backed, ExplicitlyFailed, Evidence, Pool, RouteQuery,
     Enter, Leave, history
<1>23. CASE graph = "full" /\ GradeDocuments
  <2>1. at' = "generate" => Evidence' # {}
    BY <1>23, GradeEffect DEF Evidence
  <2> QED
    BY <1>23, <2>1, GradeEffect DEF GroundInv, KeptIsGrounded, Before
<1>24. CASE graph = "full" /\ RewriteQuery
  BY <1>24 DEF TypeInv, TypeOK, Resting, Before, DocStates, ToolStates, OutStates,
     GroundInv, KeptIsGrounded, Backed, ExplicitlyFailed, Evidence, Pool, RewriteQuery,
     Enter, Leave, history
<1>25. CASE graph = "full" /\ CheckHallucination
  <2>1. PICK grounded \in BOOLEAN, regens \in Nat :
           /\ regens = IF grounded THEN doc.regens ELSE doc.regens + 1
           /\ at = "check_hallucination" /\ steps < Limit /\ steps' = steps + 1
           /\ at' = IF grounded \/ ~MayRegenerate(regens) THEN "save_memory" ELSE "generate"
           /\ verdict' = IF grounded THEN "pass" ELSE "fail"
           /\ out'.grounded = grounded /\ out'.checked /\ out'.answer = out.answer
           /\ out'.final = out.final /\ out'.toolPath = out.toolPath
           /\ doc'.regens = regens /\ doc'.retries = doc.retries
           /\ doc'.retrieved = doc.retrieved /\ doc'.merged = doc.merged
           /\ doc'.graded = doc.graded
           /\ UNCHANGED <<graph, turn, tool, written, barred, kept>>
    BY <1>25, CheckEffect
  <2>2. Evidence' = Evidence /\ KeptIsGrounded'
    BY <2>1 DEF Evidence, Pool, GroundInv, KeptIsGrounded
  <2>3. at' \notin Before \cup {"verify_answer", "end"} /\ Evidence # {}
    BY <2>1, <1>25 DEF Before, GroundInv
  <2>4. at' = "save_memory" => Backed'
    BY <2>1 DEF Backed, ExplicitlyFailed
  <2> QED
    BY <1>25, <2>1, <2>2, <2>3, <2>4 DEF GroundInv
<1>26. CASE graph = "full" /\ SaveMemory
  BY <1>26 DEF TypeInv, TypeOK, Resting, Before, DocStates, ToolStates, OutStates,
     GroundInv, KeptIsGrounded, Backed, ExplicitlyFailed, Evidence, Pool, SaveMemory,
     Enter, Leave, history
<1>27. CASE UNCHANGED vars
  BY <1>27 DEF TypeInv, TypeOK, Resting, Before, DocStates, ToolStates, OutStates,
     GroundInv, KeptIsGrounded, Backed, ExplicitlyFailed, Evidence, Pool, vars
<1> QED
  BY <1>1, <1>2, <1>3, <1>4, <1>5, <1>6, <1>7, <1>8, <1>9, <1>10, <1>11, <1>12, <1>13,
     <1>14, <1>15, <1>16, <1>17, <1>18, <1>19, <1>20, <1>21, <1>22, <1>23, <1>24, <1>25,
     <1>26, <1>27 DEF Next, SharedNext, ToolNext, CragNext

LEMMA RegenStep == TypeInv /\ RegenInv /\ [Next]_vars => RegenInv'
<1> SUFFICES ASSUME TypeInv, RegenInv, [Next]_vars PROVE RegenInv'
  OBVIOUS
<1>1. CASE Ask
  BY <1>1 DEF TypeInv, TypeOK, Resting, Before, DocStates, ToolStates, OutStates,
     RegenInv, RegensSpent, Ask, Entry, ResetTool, FreshTool, FreshDoc, FreshOut, Enter,
     Leave, history
<1>2. CASE Finish
  BY <1>2 DEF TypeInv, TypeOK, Resting, Before, DocStates, ToolStates, OutStates,
     RegenInv, RegensSpent, Finish, Enter, Leave, history
<1>3. CASE Raise
  BY <1>3 DEF TypeInv, TypeOK, Resting, Before, DocStates, ToolStates, OutStates,
     RegenInv, RegensSpent, Raise, Enter, Leave, history
<1>4. CASE Cut
  BY <1>4 DEF TypeInv, TypeOK, Resting, Before, DocStates, ToolStates, OutStates,
     RegenInv, RegensSpent, Cut, Enter, Leave, history
<1>5. CASE HydeExpansion
  BY <1>5 DEF TypeInv, TypeOK, Resting, Before, DocStates, ToolStates, OutStates,
     RegenInv, RegensSpent, HydeExpansion, Enter, Leave, history
<1>6. CASE VectorRetrieve
  BY <1>6 DEF TypeInv, TypeOK, Resting, Before, DocStates, ToolStates, OutStates,
     RegenInv, RegensSpent, VectorRetrieve, Enter, Leave, history
<1>7. CASE EntityExpand
  BY <1>7 DEF TypeInv, TypeOK, Resting, Before, DocStates, ToolStates, OutStates,
     RegenInv, RegensSpent, EntityExpand, Enter, Leave, history
<1>8. CASE Rerank
  BY <1>8, RerankEffect DEF RegenInv, RegensSpent, Before
<1>9. CASE InsufficientInfo
  BY <1>9 DEF TypeInv, TypeOK, Resting, Before, DocStates, ToolStates, OutStates,
     RegenInv, RegensSpent, InsufficientInfo, AfterApology, Enter, Leave, history
<1>10. CASE Generate
  BY <1>10, GenerateEffect DEF RegenInv, RegensSpent, Before
<1>11. CASE VerifyAnswer
  BY <1>11 DEF TypeInv, TypeOK, Resting, Before, DocStates, ToolStates, OutStates,
     RegenInv, RegensSpent, VerifyAnswer, AfterVerify, Enter, Leave, history
<1>12. CASE FriendlyGenerator
  BY <1>12, FriendlyEffect DEF RegenInv, RegensSpent, Before
<1>13. CASE graph = "multi" /\ TriageToRetrieval
  BY <1>13 DEF TypeInv, TypeOK, Resting, Before, DocStates, ToolStates, OutStates,
     RegenInv, RegensSpent, TriageToRetrieval, Enter, Leave, history
<1>14. CASE graph = "multi" /\ TriageToTools
  BY <1>14 DEF TypeInv, TypeOK, Resting, Before, DocStates, ToolStates, OutStates,
     RegenInv, RegensSpent, TriageToTools, Enter, Leave, history
<1>15. CASE graph = "multi" /\ ToolCaller
  BY <1>15 DEF TypeInv, TypeOK, Resting, Before, DocStates, ToolStates, OutStates,
     RegenInv, RegensSpent, ToolCaller, Enter, Leave, history
<1>16. CASE graph = "multi" /\ ReasonerHandsOver
  BY <1>16 DEF TypeInv, TypeOK, Resting, Before, DocStates, ToolStates, OutStates,
     RegenInv, RegensSpent, ReasonerHandsOver, Enter, Leave, history
<1>17. CASE graph = "multi" /\ ReasonerAsksMore
  BY <1>17 DEF TypeInv, TypeOK, Resting, Before, DocStates, ToolStates, OutStates,
     RegenInv, RegensSpent, ReasonerAsksMore, Enter, Leave, history
<1>18. CASE graph = "multi" /\ GeneratorFails
  BY <1>18 DEF TypeInv, TypeOK, Resting, Before, DocStates, ToolStates, OutStates,
     RegenInv, RegensSpent, GeneratorFails, Enter, Leave, history
<1>19. CASE graph = "multi" /\ GeneratorRefuses
  BY <1>19 DEF TypeInv, TypeOK, Resting, Before, DocStates, ToolStates, OutStates,
     RegenInv, RegensSpent, GeneratorRefuses, Enter, Leave, history
<1>20. CASE graph = "multi" /\ GeneratorAnswers
  BY <1>20, GeneratorEffect DEF RegenInv, RegensSpent, Before
<1>21. CASE graph = "full" /\ LoadMemory
  BY <1>21 DEF TypeInv, TypeOK, Resting, Before, DocStates, ToolStates, OutStates,
     RegenInv, RegensSpent, LoadMemory, Enter, Leave, history
<1>22. CASE graph = "full" /\ RouteQuery
  BY <1>22 DEF TypeInv, TypeOK, Resting, Before, DocStates, ToolStates, OutStates,
     RegenInv, RegensSpent, RouteQuery, Enter, Leave, history
<1>23. CASE graph = "full" /\ GradeDocuments
  BY <1>23, GradeEffect DEF RegenInv, RegensSpent, Before
<1>24. CASE graph = "full" /\ RewriteQuery
  BY <1>24 DEF TypeInv, TypeOK, Resting, Before, DocStates, ToolStates, OutStates,
     RegenInv, RegensSpent, RewriteQuery, Enter, Leave, history
<1>25. CASE graph = "full" /\ CheckHallucination
  <2>1. PICK grounded \in BOOLEAN, regens \in Nat :
           /\ regens = IF grounded THEN doc.regens ELSE doc.regens + 1
           /\ at = "check_hallucination" /\ steps < Limit /\ steps' = steps + 1
           /\ at' = IF grounded \/ ~MayRegenerate(regens) THEN "save_memory" ELSE "generate"
           /\ verdict' = IF grounded THEN "pass" ELSE "fail"
           /\ out'.grounded = grounded /\ out'.checked /\ out'.answer = out.answer
           /\ out'.final = out.final /\ out'.toolPath = out.toolPath
           /\ doc'.regens = regens /\ doc'.retries = doc.retries
           /\ doc'.retrieved = doc.retrieved /\ doc'.merged = doc.merged
           /\ doc'.graded = doc.graded
           /\ UNCHANGED <<graph, turn, tool, written, barred, kept>>
    BY <1>25, CheckEffect
  <2>2. doc.regens \in Nat /\ written \in Nat
    BY DEF TypeInv, TypeOK, DocStates
  <2>3. CASE grounded \/ ~MayRegenerate(regens)
    <3>1. at' = "save_memory" /\ graph' = "full" /\ written' = doc.regens + 1
      BY <1>25, <2>1, <2>3 DEF RegenInv
    <3>2. doc.regens = 0 \/ doc.regens < MaxRegens
      BY <2>1 DEF RegenInv
    <3>3. verdict' = "fail" => ~grounded /\ regens = doc.regens + 1 /\ regens >= MaxRegens
      BY <2>1, <2>2, <2>3 DEF MayRegenerate
    <3>4. verdict' = "fail" => written' = IF MaxRegens = 0 THEN 1 ELSE MaxRegens
      BY <2>2, <3>1, <3>2, <3>3
    <3> QED
      BY <3>1, <3>4 DEF Before, RegenInv, RegensSpent
  <2>4. CASE ~grounded /\ MayRegenerate(regens)
    BY <1>25, <2>1, <2>2, <2>4 DEF Before, RegenInv, RegensSpent, MayRegenerate
  <2> QED
    BY <2>3, <2>4
<1>26. CASE graph = "full" /\ SaveMemory
  BY <1>26 DEF TypeInv, TypeOK, Resting, Before, DocStates, ToolStates, OutStates,
     RegenInv, RegensSpent, SaveMemory, Enter, Leave, history
<1>27. CASE UNCHANGED vars
  BY <1>27 DEF TypeInv, TypeOK, Resting, Before, DocStates, ToolStates, OutStates,
     RegenInv, RegensSpent, vars
<1> QED
  BY <1>1, <1>2, <1>3, <1>4, <1>5, <1>6, <1>7, <1>8, <1>9, <1>10, <1>11, <1>12, <1>13,
     <1>14, <1>15, <1>16, <1>17, <1>18, <1>19, <1>20, <1>21, <1>22, <1>23, <1>24, <1>25,
     <1>26, <1>27 DEF Next, SharedNext, ToolNext, CragNext

LEMMA ToolStepsStep == TypeInv /\ ServedInv /\ ToolSteps /\ [Next]_vars => ToolSteps'
<1> SUFFICES ASSUME TypeInv /\ ServedInv, ToolSteps, [Next]_vars PROVE ToolSteps'
  OBVIOUS
<1>1. CASE Ask
  BY <1>1 DEF Resting, ToolSteps, Spent, Budget, Ask, Entry, ResetTool, FreshTool,
     FreshDoc, FreshOut, Enter, Leave, history
<1>2. CASE Finish
  BY <1>2 DEF Resting, ToolSteps, Spent, Budget, Finish, Enter, Leave, history
<1>3. CASE Raise
  BY <1>3 DEF Resting, ToolSteps, Spent, Budget, Raise, Enter, Leave, history
<1>4. CASE Cut
  BY <1>4 DEF Resting, ToolSteps, Spent, Budget, Cut, Enter, Leave, history
<1>5. CASE HydeExpansion
  BY <1>5 DEF Resting, ToolSteps, Spent, Budget, HydeExpansion, Enter, Leave, history
<1>6. CASE VectorRetrieve
  BY <1>6 DEF Resting, ToolSteps, Spent, Budget, VectorRetrieve, Enter, Leave, history
<1>7. CASE EntityExpand
  BY <1>7 DEF Resting, ToolSteps, Spent, Budget, EntityExpand, Enter, Leave, history
<1>8. CASE Rerank
  BY <1>8 DEF Resting, ToolSteps, Spent, Budget, Rerank, Enter, Leave, history
<1>9. CASE InsufficientInfo
  BY <1>9 DEF Resting, ToolSteps, Spent, Budget, InsufficientInfo, AfterApology, Enter,
     Leave, history
<1>10. CASE Generate
  BY <1>10 DEF Resting, ToolSteps, Spent, Budget, Generate, Enter, Leave, history
<1>11. CASE VerifyAnswer
  BY <1>11 DEF Resting, ToolSteps, Spent, Budget, VerifyAnswer, AfterVerify, Enter,
     Leave, history
<1>12. CASE FriendlyGenerator
  BY <1>12 DEF Resting, ToolSteps, Spent, Budget, FriendlyGenerator, Enter, Leave, history
<1>13. CASE graph = "multi" /\ TriageToRetrieval
  BY <1>13 DEF Resting, ToolSteps, Spent, Budget, TriageToRetrieval, Enter, Leave, history
<1>14. CASE graph = "multi" /\ TriageToTools
  <2>1. PICK batch \in Batches : tool' = AskFor(batch)
    BY <1>14 DEF TriageToTools
  <2>2. tool'.count = tool.count /\ tool'.unknown = tool.unknown
    BY <2>1, AskForEffect DEF TypeInv, TypeOK
  <2>3. /\ at = "triage" /\ at' = "tool_caller" /\ steps' = steps + 1 /\ barred' = barred
    BY <1>14 DEF Enter, Leave, TriageToTools, history
  <2>4. tool.count \in Nat /\ tool.unknown \in Nat
    BY DEF TypeInv, TypeOK, ToolStates
  <2> QED
    BY <2>2, <2>3, <2>4 DEF ToolSteps, Spent
<1>15. CASE graph = "multi" /\ ToolCaller
  <2>1. /\ at = "tool_caller" /\ at' = "reasoner" /\ steps' = steps + 1
    BY <1>15 DEF ToolCaller, Enter, Leave
  <2>2. /\ tool.count \in Nat /\ tool.unknown \in Nat /\ steps \in Nat
        /\ tool'.count \in Nat /\ tool'.unknown \in Nat
    <3>1. tool \in ToolStates /\ tool' \in ToolStates
      BY <1>15, ToolCallerType DEF TypeInv, TypeOK
    <3>2. steps \in Nat
      BY DEF TypeInv, TypeOK
    <3> QED
      BY <3>1, <3>2 DEF ToolStates
  <2>3. /\ \/ barred'
           \/ tool'.count + tool'.unknown >= tool.count + tool.unknown + 1
        /\ barred => barred'
    BY <1>15, <2>1, ToolCallerEffect DEF ServedInv
  <2>4. CASE barred'
    BY <2>4 DEF ToolSteps
  <2>5. CASE ~barred'
    <3>1. steps <= 2 * (tool.count + tool.unknown) + 1
      BY <2>1, <2>3, <2>5 DEF ToolSteps, Spent
    <3>2. tool.count + tool.unknown <= MaxCalls + MaxUnknown - 2
      BY <2>1, <2>2 DEF ServedInv
    <3>3. tool'.count + tool'.unknown >= tool.count + tool.unknown + 1
      BY <2>3, <2>5
    <3>4. /\ steps' <= 2 * (tool'.count + tool'.unknown)
          /\ steps' <= 2 * (MaxCalls + MaxUnknown) - 2
      BY <2>1, <2>2, <3>1, <3>2, <3>3
    <3> QED
      BY <2>1, <3>4 DEF ToolSteps, Spent, Budget
  <2> QED
    BY <2>4, <2>5
<1>16. CASE graph = "multi" /\ ReasonerHandsOver
  <2>1. /\ at = "reasoner" /\ at' = "generator" /\ steps' = steps + 1 /\ barred' = barred
    BY <1>16 DEF Enter, Leave, ReasonerHandsOver, history
  <2>2. steps \in Nat
    BY DEF TypeInv, TypeOK
  <2> QED
    BY <2>1, <2>2 DEF ToolSteps, Budget
<1>17. CASE graph = "multi" /\ ReasonerAsksMore
  <2>1. PICK batch \in Batches : tool' = AskFor(batch)
    BY <1>17 DEF ReasonerAsksMore
  <2>2. tool'.count = tool.count /\ tool'.unknown = tool.unknown
    BY <2>1, AskForEffect DEF TypeInv, TypeOK
  <2>3. /\ at = "reasoner" /\ at' = "tool_caller" /\ steps' = steps + 1 /\ barred' = barred
    BY <1>17 DEF Enter, Leave, ReasonerAsksMore, history
  <2>4. tool.count \in Nat /\ tool.unknown \in Nat /\ steps \in Nat
    BY DEF TypeInv, TypeOK, ToolStates
  <2> QED
    BY <2>2, <2>3, <2>4 DEF ToolSteps, Spent
<1>18. CASE graph = "multi" /\ GeneratorFails
  BY <1>18 DEF Resting, ToolSteps, Spent, Budget, GeneratorFails, Enter, Leave, history
<1>19. CASE graph = "multi" /\ GeneratorRefuses
  BY <1>19 DEF Resting, ToolSteps, Spent, Budget, GeneratorRefuses, Enter, Leave, history
<1>20. CASE graph = "multi" /\ GeneratorAnswers
  BY <1>20 DEF Resting, ToolSteps, Spent, Budget, GeneratorAnswers, Enter, Leave, history
<1>21. CASE graph = "full" /\ LoadMemory
  BY <1>21 DEF Resting, ToolSteps, Spent, Budget, LoadMemory, Enter, Leave, history
<1>22. CASE graph = "full" /\ RouteQuery
  BY <1>22 DEF Resting, ToolSteps, Spent, Budget, RouteQuery, Enter, Leave, history
<1>23. CASE graph = "full" /\ GradeDocuments
  BY <1>23 DEF Resting, ToolSteps, Spent, Budget, GradeDocuments, Enter, Leave, history
<1>24. CASE graph = "full" /\ RewriteQuery
  BY <1>24 DEF Resting, ToolSteps, Spent, Budget, RewriteQuery, Enter, Leave, history
<1>25. CASE graph = "full" /\ CheckHallucination
  BY <1>25 DEF Resting, ToolSteps, Spent, Budget, CheckHallucination, Enter, Leave,
     history
<1>26. CASE graph = "full" /\ SaveMemory
  BY <1>26 DEF Resting, ToolSteps, Spent, Budget, SaveMemory, Enter, Leave, history
<1>27. CASE UNCHANGED vars
  BY <1>27 DEF Resting, ToolSteps, Spent, Budget, vars
<1> QED
  BY <1>1, <1>2, <1>3, <1>4, <1>5, <1>6, <1>7, <1>8, <1>9, <1>10, <1>11, <1>12, <1>13,
     <1>14, <1>15, <1>16, <1>17, <1>18, <1>19, <1>20, <1>21, <1>22, <1>23, <1>24, <1>25,
     <1>26, <1>27 DEF Next, SharedNext, ToolNext, CragNext

LEMMA LaneStepsStep == TypeInv /\ RegenInv /\ ToolSteps /\ LaneSteps /\ [Next]_vars => LaneSteps'
<1> SUFFICES ASSUME TypeInv /\ RegenInv /\ ToolSteps, LaneSteps, [Next]_vars PROVE LaneSteps'
  OBVIOUS
<1>1. CASE Ask
  <2>1. at' \in {"friendly_generator", "triage", "load_memory", "hyde_expansion"} /\ steps' = 0
    BY <1>1 DEF Ask, Entry
  <2> QED
    BY <2>1 DEF LaneSteps
<1>2. CASE Finish
  BY <1>2 DEF TypeInv, TypeOK, Resting, DocStates, LaneSteps, Done, Finish, Enter,
     Leave, history
<1>3. CASE Raise
  BY <1>3 DEF TypeInv, TypeOK, Resting, DocStates, LaneSteps, Done, Raise, Enter, Leave,
     history
<1>4. CASE Cut
  BY <1>4 DEF TypeInv, TypeOK, Resting, DocStates, LaneSteps, Done, Cut, Enter, Leave,
     history
<1>5. CASE HydeExpansion
  BY <1>5 DEF TypeInv, TypeOK, Resting, DocStates, LaneSteps, Done, HydeExpansion,
     Enter, Leave, history
<1>6. CASE VectorRetrieve
  <2>1. /\ at = "vector_retrieve" /\ at' = "entity_expand" /\ steps' = steps + 1
        /\ doc'.retries = doc.retries /\ doc'.regens = doc.regens
    BY <1>6 DEF TypeInv, TypeOK, DocStates, VectorRetrieve, Enter, Leave, history
  <2>2. /\ steps \in Nat /\ doc.retries \in 0..MaxRetries /\ doc.regens \in Nat
    BY DEF TypeInv, TypeOK, DocStates
  <2> QED
    BY <2>1, <2>2 DEF LaneSteps, Done
<1>7. CASE EntityExpand
  <2>1. /\ at = "entity_expand" /\ at' = "rerank" /\ steps' = steps + 1
        /\ doc'.retries = doc.retries /\ doc'.regens = doc.regens
    BY <1>7 DEF TypeInv, TypeOK, DocStates, EntityExpand, Enter, Leave, history
  <2>2. /\ steps \in Nat /\ doc.retries \in 0..MaxRetries /\ doc.regens \in Nat
    BY DEF TypeInv, TypeOK, DocStates
  <2> QED
    BY <2>1, <2>2 DEF LaneSteps, Done
<1>8. CASE Rerank
  <2>1. /\ at = "rerank" /\ at' \in {"generate", "insufficient_info", "grade_documents"} /\ steps' = steps + 1
        /\ doc'.retries = doc.retries /\ doc'.regens = doc.regens
    BY <1>8 DEF TypeInv, TypeOK, DocStates, Rerank, Enter, Leave, history
  <2>2. /\ steps \in Nat /\ doc.retries \in 0..MaxRetries /\ doc.regens \in Nat
    BY DEF TypeInv, TypeOK, DocStates
  <2> QED
    BY <2>1, <2>2 DEF LaneSteps, Done
<1>9. CASE InsufficientInfo
  <2>1. /\ at = "insufficient_info" /\ at' \in {"save_memory", "end"} /\ steps' = steps + 1
        /\ doc'.retries = doc.retries /\ doc'.regens = doc.regens
    BY <1>9 DEF TypeInv, TypeOK, DocStates, InsufficientInfo, Enter, Leave, history,
       AfterApology
  <2>2. /\ steps \in Nat /\ doc.retries \in 0..MaxRetries /\ doc.regens \in Nat
    BY DEF TypeInv, TypeOK, DocStates
  <2> QED
    BY <2>1, <2>2 DEF LaneSteps, Done
<1>10. CASE Generate
  <2>1. /\ at = "generate" /\ at' = "verify_answer" /\ steps' = steps + 1
        /\ doc'.retries = doc.retries /\ doc'.regens = doc.regens
    BY <1>10 DEF TypeInv, TypeOK, DocStates, Generate, Enter, Leave, history
  <2>2. /\ steps \in Nat /\ doc.retries \in 0..MaxRetries /\ doc.regens \in Nat
    BY DEF TypeInv, TypeOK, DocStates
  <2> QED
    BY <2>1, <2>2 DEF LaneSteps, Done
<1>11. CASE VerifyAnswer
  <2>1. /\ at = "verify_answer" /\ at' \in {"check_hallucination", "end"} /\ steps' = steps + 1
        /\ doc'.retries = doc.retries /\ doc'.regens = doc.regens
        /\ UNCHANGED <<graph, barred>>
        /\ at' = "check_hallucination" => graph = "full"
    BY <1>11 DEF TypeInv, TypeOK, DocStates, VerifyAnswer, Enter, Leave, history,
       AfterVerify
  <2>2. /\ steps \in Nat /\ doc.retries \in 0..MaxRetries /\ doc.regens \in Nat
    BY DEF TypeInv, TypeOK, DocStates
  <2> QED
    BY <2>1, <2>2 DEF LaneSteps, Done
<1>12. CASE FriendlyGenerator
  BY <1>12 DEF TypeInv, TypeOK, Resting, DocStates, LaneSteps, Done, FriendlyGenerator,
     Enter, Leave, history
<1>13. CASE graph = "multi" /\ TriageToRetrieval
  BY <1>13 DEF TypeInv, TypeOK, Resting, DocStates, LaneSteps, Done, TriageToRetrieval,
     Enter, Leave, history
<1>14. CASE graph = "multi" /\ TriageToTools
  BY <1>14 DEF TypeInv, TypeOK, Resting, DocStates, LaneSteps, Done, TriageToTools,
     Enter, Leave, history
<1>15. CASE graph = "multi" /\ ToolCaller
  BY <1>15 DEF TypeInv, TypeOK, Resting, DocStates, LaneSteps, Done, ToolCaller, Enter,
     Leave, history
<1>16. CASE graph = "multi" /\ ReasonerHandsOver
  BY <1>16 DEF TypeInv, TypeOK, Resting, DocStates, LaneSteps, Done, ReasonerHandsOver,
     Enter, Leave, history
<1>17. CASE graph = "multi" /\ ReasonerAsksMore
  BY <1>17 DEF TypeInv, TypeOK, Resting, DocStates, LaneSteps, Done, ReasonerAsksMore,
     Enter, Leave, history
<1>18. CASE graph = "multi" /\ GeneratorFails
  <2>1. /\ at = "generator" /\ at' = "verify_answer" /\ steps' = steps + 1
        /\ graph = "multi" /\ UNCHANGED <<graph, barred>>
    BY <1>18 DEF GeneratorFails, Enter, Leave, history
  <2>2. steps \in Nat
    BY DEF TypeInv, TypeOK
  <2> QED
    BY <2>1, <2>2 DEF LaneSteps, ToolSteps, Budget
<1>19. CASE graph = "multi" /\ GeneratorRefuses
  <2>1. /\ at = "generator" /\ at' = "verify_answer" /\ steps' = steps + 1
        /\ graph = "multi" /\ UNCHANGED <<graph, barred>>
    BY <1>19 DEF GeneratorRefuses, Enter, Leave, history
  <2>2. steps \in Nat
    BY DEF TypeInv, TypeOK
  <2> QED
    BY <2>1, <2>2 DEF LaneSteps, ToolSteps, Budget
<1>20. CASE graph = "multi" /\ GeneratorAnswers
  <2>1. /\ at = "generator" /\ at' = "verify_answer" /\ steps' = steps + 1
        /\ graph = "multi" /\ UNCHANGED <<graph, barred>>
    BY <1>20 DEF GeneratorAnswers, Enter, Leave, history
  <2>2. steps \in Nat
    BY DEF TypeInv, TypeOK
  <2> QED
    BY <2>1, <2>2 DEF LaneSteps, ToolSteps, Budget
<1>21. CASE graph = "full" /\ LoadMemory
  BY <1>21 DEF TypeInv, TypeOK, Resting, DocStates, LaneSteps, Done, LoadMemory, Enter,
     Leave, history
<1>22. CASE graph = "full" /\ RouteQuery
  BY <1>22 DEF TypeInv, TypeOK, Resting, DocStates, LaneSteps, Done, RouteQuery, Enter,
     Leave, history
<1>23. CASE graph = "full" /\ GradeDocuments
  <2>1. /\ at = "grade_documents" /\ at' \in {"generate", "insufficient_info", "rewrite_query"} /\ steps' = steps + 1
        /\ doc'.retries = doc.retries /\ doc'.regens = doc.regens
    BY <1>23 DEF TypeInv, TypeOK, DocStates, GradeDocuments, Enter, Leave, history,
       MayRewrite
  <2>2. /\ steps \in Nat /\ doc.retries \in 0..MaxRetries /\ doc.regens \in Nat
    BY DEF TypeInv, TypeOK, DocStates
  <2> QED
    BY <2>1, <2>2 DEF LaneSteps, Done
<1>24. CASE graph = "full" /\ RewriteQuery
  <2>1. /\ at = "rewrite_query" /\ at' = "vector_retrieve" /\ steps' = steps + 1
        /\ doc'.retries = doc.retries + 1 /\ doc'.regens = doc.regens
    BY <1>24 DEF TypeInv, TypeOK, DocStates, RewriteQuery, Enter, Leave
  <2>2. steps \in Nat /\ doc.retries \in Nat
    BY DEF TypeInv, TypeOK, DocStates
  <2> QED
    BY <2>1, <2>2 DEF LaneSteps, Done
<1>25. CASE graph = "full" /\ CheckHallucination
  <2>1. PICK grounded \in BOOLEAN, regens \in Nat :
           /\ regens = IF grounded THEN doc.regens ELSE doc.regens + 1
           /\ at = "check_hallucination" /\ steps < Limit /\ steps' = steps + 1
           /\ at' = IF grounded \/ ~MayRegenerate(regens) THEN "save_memory" ELSE "generate"
           /\ verdict' = IF grounded THEN "pass" ELSE "fail"
           /\ out'.grounded = grounded /\ out'.checked /\ out'.answer = out.answer
           /\ out'.final = out.final /\ out'.toolPath = out.toolPath
           /\ doc'.regens = regens /\ doc'.retries = doc.retries
           /\ doc'.retrieved = doc.retrieved /\ doc'.merged = doc.merged
           /\ doc'.graded = doc.graded
           /\ UNCHANGED <<graph, turn, tool, written, barred, kept>>
    BY <1>25, CheckEffect
  <2>2. /\ steps \in Nat /\ doc.retries \in 0..MaxRetries /\ doc.regens \in Nat
    BY DEF TypeInv, TypeOK, DocStates
  <2>3. steps <= 5 * doc.retries + 3 * doc.regens + 9
    BY <2>1 DEF LaneSteps, Done
  <2>4. doc.regens = 0 \/ doc.regens < MaxRegens
    BY <2>1 DEF RegenInv
  <2>5. CASE grounded \/ ~MayRegenerate(regens)
    <3>1. at' = "save_memory" /\ steps' = steps + 1
      BY <2>1, <2>5
    <3>2. steps + 1 < Limit
      BY <2>2, <2>3, <2>4
    <3> QED
      BY <3>1, <3>2 DEF LaneSteps
  <2>6. CASE ~grounded /\ MayRegenerate(regens)
    <3>1. /\ at' = "generate" /\ steps' = steps + 1
          /\ doc'.retries = doc.retries /\ doc'.regens = doc.regens + 1
      BY <2>1, <2>6
    <3>2. steps + 1 <= 5 * doc.retries + 3 * (doc.regens + 1) + 7
      BY <2>2, <2>3
    <3> QED
      BY <2>2, <3>1, <3>2 DEF LaneSteps, Done
  <2> QED
    BY <2>5, <2>6
<1>26. CASE graph = "full" /\ SaveMemory
  BY <1>26 DEF TypeInv, TypeOK, Resting, DocStates, LaneSteps, Done, SaveMemory, Enter,
     Leave, history
<1>27. CASE UNCHANGED vars
  BY <1>27 DEF TypeInv, TypeOK, Resting, DocStates, LaneSteps, Done, vars
<1> QED
  BY <1>1, <1>2, <1>3, <1>4, <1>5, <1>6, <1>7, <1>8, <1>9, <1>10, <1>11, <1>12, <1>13,
     <1>14, <1>15, <1>16, <1>17, <1>18, <1>19, <1>20, <1>21, <1>22, <1>23, <1>24, <1>25,
     <1>26, <1>27 DEF Next, SharedNext, ToolNext, CragNext

LEMMA LimitStep == TypeInv /\ ServedInv /\ RegenInv /\ ToolSteps /\ LaneSteps /\ LimitIsBackstop /\ [Next]_vars => LimitIsBackstop'
<1> SUFFICES ASSUME TypeInv /\ ServedInv /\ RegenInv /\ ToolSteps /\ LaneSteps, LimitIsBackstop, [Next]_vars PROVE LimitIsBackstop'
  OBVIOUS
<1>1. CASE Ask
  BY <1>1 DEF TypeInv, TypeOK, Resting, LimitIsBackstop, Ask, Entry, ResetTool,
     FreshTool, FreshDoc, FreshOut, Enter, Leave, history
<1>2. CASE Finish
  BY <1>2 DEF TypeInv, TypeOK, Resting, LimitIsBackstop, Finish, Enter, Leave, history
<1>3. CASE Raise
  BY <1>3 DEF TypeInv, TypeOK, Resting, LimitIsBackstop, Raise, Enter, Leave, history
<1>4. CASE Cut
  <2>1. /\ steps = Limit /\ at \notin Resting \cup {"end"} /\ barred' = barred
    BY <1>4 DEF Cut
  <2>2. at \in SharedNodes \cup ToolNodes \cup CragNodes
    BY <2>1 DEF TypeInv, TypeOK
  <2>3. /\ doc.retries \in 0..MaxRetries /\ doc.regens \in Nat
        /\ MaxCalls + MaxUnknown \in Nat
    BY DEF TypeInv, TypeOK, DocStates
  <2>4. ASSUME at \in ToolNodes \ {"tool_caller"} PROVE barred
    BY <2>1, <2>3, <2>4 DEF ToolNodes, ToolSteps, LaneSteps, Budget
  <2>5. ASSUME at = "tool_caller" PROVE barred
    <3>1. tool.count < MaxCalls /\ tool.unknown < MaxUnknown
      BY <2>5 DEF ServedInv
    <3>2. tool.count \in Nat /\ tool.unknown \in Nat
      BY DEF TypeInv, TypeOK, ToolStates
    <3> QED
      BY <2>1, <2>3, <2>5, <3>1, <3>2 DEF ToolSteps, Spent
  <2>6. ASSUME at \in SharedNodes \cup CragNodes PROVE barred
    BY <2>1, <2>3, <2>6 DEF SharedNodes, CragNodes, LaneSteps, RegenInv, Done, Budget
  <2> QED
    BY <2>1, <2>2, <2>4, <2>5, <2>6 DEF LimitIsBackstop, TypeInv, TypeOK
<1>5. CASE HydeExpansion
  BY <1>5 DEF TypeInv, TypeOK, Resting, LimitIsBackstop, HydeExpansion, Enter, Leave,
     history
<1>6. CASE VectorRetrieve
  BY <1>6 DEF TypeInv, TypeOK, Resting, LimitIsBackstop, VectorRetrieve, Enter, Leave,
     history
<1>7. CASE EntityExpand
  BY <1>7 DEF TypeInv, TypeOK, Resting, LimitIsBackstop, EntityExpand, Enter, Leave,
     history
<1>8. CASE Rerank
  BY <1>8 DEF TypeInv, TypeOK, Resting, LimitIsBackstop, Rerank, Enter, Leave, history
<1>9. CASE InsufficientInfo
  BY <1>9 DEF TypeInv, TypeOK, Resting, LimitIsBackstop, InsufficientInfo, AfterApology,
     Enter, Leave, history
<1>10. CASE Generate
  BY <1>10 DEF TypeInv, TypeOK, Resting, LimitIsBackstop, Generate, Enter, Leave, history
<1>11. CASE VerifyAnswer
  BY <1>11 DEF TypeInv, TypeOK, Resting, LimitIsBackstop, VerifyAnswer, AfterVerify,
     Enter, Leave, history
<1>12. CASE FriendlyGenerator
  BY <1>12 DEF TypeInv, TypeOK, Resting, LimitIsBackstop, FriendlyGenerator, Enter,
     Leave, history
<1>13. CASE graph = "multi" /\ TriageToRetrieval
  BY <1>13 DEF TypeInv, TypeOK, Resting, LimitIsBackstop, TriageToRetrieval, Enter,
     Leave, history
<1>14. CASE graph = "multi" /\ TriageToTools
  BY <1>14 DEF TypeInv, TypeOK, Resting, LimitIsBackstop, TriageToTools, Enter, Leave,
     history
<1>15. CASE graph = "multi" /\ ToolCaller
  BY <1>15 DEF TypeInv, TypeOK, Resting, LimitIsBackstop, ToolCaller, Enter, Leave,
     history
<1>16. CASE graph = "multi" /\ ReasonerHandsOver
  BY <1>16 DEF TypeInv, TypeOK, Resting, LimitIsBackstop, ReasonerHandsOver, Enter,
     Leave, history
<1>17. CASE graph = "multi" /\ ReasonerAsksMore
  BY <1>17 DEF TypeInv, TypeOK, Resting, LimitIsBackstop, ReasonerAsksMore, Enter,
     Leave, history
<1>18. CASE graph = "multi" /\ GeneratorFails
  BY <1>18 DEF TypeInv, TypeOK, Resting, LimitIsBackstop, GeneratorFails, Enter, Leave,
     history
<1>19. CASE graph = "multi" /\ GeneratorRefuses
  BY <1>19 DEF TypeInv, TypeOK, Resting, LimitIsBackstop, GeneratorRefuses, Enter,
     Leave, history
<1>20. CASE graph = "multi" /\ GeneratorAnswers
  BY <1>20 DEF TypeInv, TypeOK, Resting, LimitIsBackstop, GeneratorAnswers, Enter,
     Leave, history
<1>21. CASE graph = "full" /\ LoadMemory
  BY <1>21 DEF TypeInv, TypeOK, Resting, LimitIsBackstop, LoadMemory, Enter, Leave,
     history
<1>22. CASE graph = "full" /\ RouteQuery
  BY <1>22 DEF TypeInv, TypeOK, Resting, LimitIsBackstop, RouteQuery, Enter, Leave,
     history
<1>23. CASE graph = "full" /\ GradeDocuments
  BY <1>23 DEF TypeInv, TypeOK, Resting, LimitIsBackstop, GradeDocuments, Enter, Leave,
     history
<1>24. CASE graph = "full" /\ RewriteQuery
  BY <1>24 DEF TypeInv, TypeOK, Resting, LimitIsBackstop, RewriteQuery, Enter, Leave,
     history
<1>25. CASE graph = "full" /\ CheckHallucination
  BY <1>25 DEF TypeInv, TypeOK, Resting, LimitIsBackstop, CheckHallucination, Enter,
     Leave, history
<1>26. CASE graph = "full" /\ SaveMemory
  BY <1>26 DEF TypeInv, TypeOK, Resting, LimitIsBackstop, SaveMemory, Enter, Leave,
     history
<1>27. CASE UNCHANGED vars
  BY <1>27 DEF TypeInv, TypeOK, Resting, LimitIsBackstop, vars
<1> QED
  BY <1>1, <1>2, <1>3, <1>4, <1>5, <1>6, <1>7, <1>8, <1>9, <1>10, <1>11, <1>12, <1>13,
     <1>14, <1>15, <1>16, <1>17, <1>18, <1>19, <1>20, <1>21, <1>22, <1>23, <1>24, <1>25,
     <1>26, <1>27 DEF Next, SharedNext, ToolNext, CragNext

----------------------------------------------------------------------------
(* What tool_caller leaves unanswered. *)

LEMMA FirstOf ==
  ASSUME NEW U \in SUBSET Nat, U # {}
  PROVE  \E x \in U : \A y \in U : x <= y
<1> DEFINE R == OpToRel(<, Nat)
<1>1. IsWellFoundedOn(R, Nat)
  BY NatLessThanWellFounded
<1>2. \A a, b \in Nat : a < b => <<a, b>> \in R
  BY DEF OpToRel
<1> HIDE DEF R
<1>3. PICK x \in U : \A y \in U : <<y, x>> \notin R
  BY <1>1, WFMin
<1>4. \A y \in U : ~(y < x)
  BY <1>2, <1>3, Zenon
<1>5. \A y \in U : x <= y
  BY <1>4
<1> QED
  BY <1>5, Zenon

(* A batch of which a call is not served has spent the budget of calls: the *)
(* charged calls before the first such one are served, and are enough.      *)
LEMMA DroppedIsSpent ==
  ASSUME tool \in ToolStates, Served # DOMAIN tool.calls
  PROVE  tool.count + Cardinality(ServedOf(Charged)) >= MaxCalls
<1> DEFINE Ahead(i) == Positions(tool.calls, Charged) \cap 1..(i-1)
           U == (DOMAIN tool.calls) \ Served
<1>1. /\ tool.count \in Nat /\ Len(tool.calls) \in Nat
      /\ DOMAIN tool.calls = 1..Len(tool.calls)
  BY DEF ToolStates
<1>2. U \in SUBSET Nat /\ U # {}
  <2>1. Served \subseteq DOMAIN tool.calls
    BY <1>1, ServedCounts
  <2>2. U # {}
    BY <2>1, Zenon
  <2>3. U \subseteq 1..Len(tool.calls)
    BY <1>1, Zenon
  <2>4. 1..Len(tool.calls) \subseteq Nat
    BY <1>1
  <2> QED BY <2>2, <2>3, <2>4, Zenon
<1>3. PICK i \in U : \A j \in U : i <= j
  BY <1>2, FirstOf
<1>4. IsFiniteSet(ServedOf(Charged)) /\ Cardinality(ServedOf(Charged)) \in Nat
  BY ServedCounts, FS_Subset DEF ServedOf
<1>5. Ahead(i) \in SUBSET ServedOf(Charged)
  <2> SUFFICES ASSUME NEW j \in Ahead(i) PROVE j \in Served
    BY DEF ServedOf
  <2>1. j \in DOMAIN tool.calls /\ i \in Nat /\ j \in Nat /\ j < i
    BY <1>1 DEF Positions
  <2> QED BY <1>3, <2>1
<1>6. Cardinality(Ahead(i)) \in Nat /\ Cardinality(Ahead(i)) <= Cardinality(ServedOf(Charged))
  BY <1>4, <1>5, FS_Subset, FS_CardinalityType
<1>7. ~(tool.count + Cardinality(Ahead(i)) < MaxCalls)
  BY DEF Served
<1> HIDE DEF Ahead
<1> QED
  BY <1>1, <1>4, <1>6, <1>7

LEMMA ServedAll ==
  ASSUME tool \in ToolStates, Served = DOMAIN tool.calls
  PROVE  Cardinality(Served) = Len(tool.calls)
<1>1. Len(tool.calls) \in Nat /\ Served = 1..Len(tool.calls)
  BY DEF ToolStates
<1>2. 1 \in Int /\ Len(tool.calls) \in Int
  BY <1>1
<1>3. Cardinality(1..Len(tool.calls)) =
        IF 1 > Len(tool.calls) THEN 0 ELSE Len(tool.calls) - 1 + 1
  BY <1>2, FS_Interval, Zenon
<1> QED
  BY <1>1, <1>3

(* The tool lane comes to a batch with no other call unanswered. *)
OweInv ==
  /\ at = "triage" => tool.owed = 0
  /\ at = "tool_caller" => tool.owed = Len(tool.calls)
  /\ AnsweredOrDropped

LEMMA OweStep == TypeInv /\ OweInv /\ [Next]_vars => OweInv'
<1> SUFFICES ASSUME TypeInv, OweInv, [Next]_vars PROVE OweInv'
  OBVIOUS
<1>t. tool \in ToolStates /\ tool.owed \in Nat /\ tool.count \in Nat
  BY DEF TypeInv, TypeOK, ToolStates
<1>a. ASSUME NEW batch \in Batches, tool' = AskFor(batch), tool.owed = 0, at' = "tool_caller"
      PROVE  OweInv'
  <2>1. tool'.owed = Len(tool'.calls)
    BY <1>a, <1>t, BatchIsSeq DEF AskFor, ToolStates
  <2> QED BY <1>a, <2>1 DEF OweInv, AnsweredOrDropped
<1>b. ASSUME at' \notin {"triage", "tool_caller", "reasoner", "generator"} PROVE OweInv'
  BY <1>b DEF OweInv, AnsweredOrDropped
<1>1. CASE Ask
  BY <1>1 DEF Ask, Entry, ResetTool, FreshTool, OweInv, AnsweredOrDropped
<1>2. CASE Finish \/ Raise \/ Cut
  BY <1>2, <1>b DEF Finish, Raise, Cut
<1>3. CASE HydeExpansion \/ VectorRetrieve \/ EntityExpand \/ Rerank
  BY <1>3, <1>b DEF HydeExpansion, VectorRetrieve, EntityExpand, Rerank, Leave
<1>4. CASE InsufficientInfo \/ Generate \/ VerifyAnswer \/ FriendlyGenerator
  BY <1>4, <1>b DEF InsufficientInfo, AfterApology, Generate, VerifyAnswer, AfterVerify,
     FriendlyGenerator, Leave
<1>5. CASE TriageToRetrieval \/ GeneratorFails \/ GeneratorRefuses \/ GeneratorAnswers
  BY <1>5, <1>b DEF TriageToRetrieval, GeneratorFails, GeneratorRefuses,
     GeneratorAnswers, Leave
<1>6. CASE TriageToTools
  <2>1. PICK batch \in Batches : tool' = AskFor(batch)
    BY <1>6 DEF TriageToTools
  <2>2. at = "triage" /\ at' = "tool_caller"
    BY <1>6 DEF TriageToTools, Enter, Leave
  <2> QED BY <1>a, <2>1, <2>2 DEF OweInv
<1>7. CASE ToolCaller
  <2>1. at = "tool_caller" /\ at' = "reasoner"
    BY <1>7 DEF ToolCaller, Enter, Leave
  <2>2. /\ tool'.owed = tool.owed - Cardinality(Served)
        /\ tool'.count = tool.count + Cardinality(ServedOf(Charged))
    BY <1>7, <1>t DEF ToolCaller, ToolStates
  <2>3. CASE Served = DOMAIN tool.calls
    <3>1. tool'.owed = 0
      BY <1>t, <2>1, <2>2, <2>3, ServedAll DEF OweInv
    <3> QED BY <2>1, <3>1 DEF OweInv, AnsweredOrDropped
  <2>4. CASE Served # DOMAIN tool.calls
    <3>1. tool'.count >= MaxCalls
      BY <1>t, <2>2, <2>4, DroppedIsSpent
    <3> QED BY <2>1, <3>1 DEF OweInv, AnsweredOrDropped
  <2> QED BY <2>3, <2>4
<1>8. CASE ReasonerHandsOver
  BY <1>8 DEF ReasonerHandsOver, Enter, Leave, OweInv, AnsweredOrDropped
<1>9. CASE ReasonerAsksMore
  <2>1. PICK batch \in Batches : tool' = AskFor(batch)
    BY <1>9 DEF ReasonerAsksMore
  <2>2. at = "reasoner" /\ at' = "tool_caller" /\ ~(tool.count >= MaxCalls)
    BY <1>9 DEF ReasonerAsksMore, Enter, Leave, BudgetSpent
  <2> QED BY <1>a, <2>1, <2>2 DEF OweInv, AnsweredOrDropped
<1>10. CASE CragNext
  BY <1>10, <1>b DEF CragNext, LoadMemory, RouteQuery, GradeDocuments, RewriteQuery,
     CheckHallucination, SaveMemory, Leave
<1>11. CASE UNCHANGED vars
  BY <1>11 DEF vars, OweInv, AnsweredOrDropped
<1> QED
  BY <1>1, <1>2, <1>3, <1>4, <1>5, <1>6, <1>7, <1>8, <1>9, <1>10, <1>11
     DEF Next, SharedNext, ToolNext

----------------------------------------------------------------------------
LEMMA InitInv == Init => Inv
<1> SUFFICES ASSUME Init PROVE Inv
  OBVIOUS
<1>1. tool \in ToolStates /\ tool.owed >= Len(tool.calls)
  BY DEF Init, FreshTool, ToolStates
<1>2. doc \in DocStates
  BY DEF Init, FreshDoc, DocStates
<1>3. out \in OutStates /\ out.answer = ""
  BY DEF Init, FreshOut, OutStates
<1>4. TypeInv
  <2>1. /\ graph \in Graphs /\ at = "idle" /\ steps \in 0..Limit /\ turn \in 0..MaxTurns
        /\ verdict = "none" /\ written \in Nat
    BY DEF Init
  <2>2. barred \in BOOLEAN
    BY DEF Init
  <2>3. TypeOK
    BY <1>1, <1>2, <1>3, <2>1, <2>2 DEF TypeOK, Resting
  <2> QED
    BY <1>1, <2>1, <2>3 DEF TypeInv, Resting
<1>5. at = "idle" /\ kept = {}
  BY DEF Init
<1>6. ServedInv /\ FreshInv /\ GroundInv /\ RegenInv
  BY <1>3, <1>5 DEF ServedInv, FirstCallServed, FreshInv, FreshEvidence, Before, Resting,
                    GroundInv, KeptIsGrounded, RegenInv, RegensSpent
<1>7. ToolSteps /\ LaneSteps /\ LimitIsBackstop
  BY <1>5 DEF ToolSteps, LaneSteps, LimitIsBackstop
<1> QED
  BY <1>4, <1>6, <1>7 DEF Inv

THEOREM Invariance == Spec => []Inv
<1>1. Inv /\ [Next]_vars => Inv'
  BY TypeStep, ServedStep, FreshStep, GroundStep, RegenStep, ToolStepsStep,
     LaneStepsStep, LimitStep DEF Inv
<1> QED
  BY InitInv, <1>1, PTL DEF Spec

(* The channels keep their types through any number of turns, and no turn  *)
(* rewrites the query more than max_retries times.                         *)
THEOREM ChatTypeCorrect == Spec => []TypeOK
<1>1. Inv => TypeOK
  BY DEF Inv, TypeInv
<1> QED
  BY Invariance, <1>1, PTL

(* The reasoner never meets a batch of which tool_caller served nothing:   *)
(* the budgets start afresh with the turn (initial of query_with_session)  *)
(* and are looked at before more calls are asked for.                      *)
THEOREM FirstCallIsServed == Spec => []FirstCallServed
<1>1. Inv => FirstCallServed
  BY DEF Inv, ServedInv
<1> QED
  BY Invariance, <1>1, PTL

(* Chunks of an earlier rewrite or turn, checkpointed in merged_results or *)
(* graded_documents, never reach an answer of the retrieval lane.          *)
THEOREM EvidenceIsFresh == Spec => []FreshEvidence
<1>1. Inv => FreshEvidence
  BY DEF Inv, FreshInv
<1> QED
  BY Invariance, <1>1, PTL

(* Neither answer cache keeps an answer that failed its grounding check,   *)
(* and one made of chunks is kept only when it passed.                     *)
THEOREM KeptAreGrounded == Spec => []KeptIsGrounded
<1>1. Inv => KeptIsGrounded
  BY DEF Inv, GroundInv
<1> QED
  BY Invariance, <1>1, PTL

(* A flagged answer of the full graph was generated max_regens times,      *)
(* however often its query was rewritten.                                  *)
THEOREM RegensAreSpent == Spec => []RegensSpent
<1>1. Inv => RegensSpent
  BY DEF Inv, RegenInv
<1> QED
  BY Invariance, <1>1, PTL

(* With a recursion limit of 2 * (calls + unknown names) + 1 and of        *)
(* 5 * rewrites + 3 * regenerations + 11 supersteps, GraphRecursionError   *)
(* cuts no turn but one in which a call was refused.                       *)
THEOREM BudgetsEndTurns == Spec => []LimitIsBackstop
<1>1. Inv => LimitIsBackstop
  BY DEF Inv
<1> QED
  BY Invariance, <1>1, PTL

(* Every tool_call row of the history gets its tool_result row, unless the *)
(* turn's budget of calls is spent: tool_caller drops no other call.       *)
THEOREM CallsAreAnswered == Spec => []AnsweredOrDropped
<1>1. Init => OweInv
  BY DEF Init, OweInv, AnsweredOrDropped
<1>2. TypeInv /\ OweInv /\ [Next]_vars => OweInv'
  BY OweStep
<1>3. Inv => TypeInv
  BY DEF Inv
<1>4. OweInv => AnsweredOrDropped
  BY DEF OweInv
<1> QED
  BY Invariance, <1>1, <1>2, <1>3, <1>4, PTL DEF Spec
====
