---- MODULE ToolTurn ----
(***************************************************************************)
(* The live-tool lane of the multi-agent graph                             *)
(* (opsrag/agent/nodes/multi_agent.py): triage, then tool_caller and       *)
(* reasoner in turn, then the generator.                                   *)
(*                                                                         *)
(* A call is the name of its tool. What the model asks for is any batch of *)
(* at most MaxBatch calls. Of tool_message_history the model keeps how     *)
(* many tool_call rows are owed a tool_result row, whether there is any    *)
(* such row, and the names of the last three tool_call rows (recent).      *)
(***************************************************************************)
EXTENDS Turn

CONSTANTS
  Real,          \* registered tools the user may call
  Searches,      \* those of them whose results carry chunks
  Engine,        \* update_plan and render_chart, run by tool_caller itself
  Unregistered,  \* names no tool has
  Denied,        \* tools of connectors the user may not use
  MaxBatch,      \* bound: calls of one answer of the model
  MaxCalls,      \* MAX_TOOL_CALLS
  MaxUnknown     \* MAX_UNKNOWN_TOOL_ROUNDS

Charged == Real \cup Engine
Names == Charged \cup Unregistered \cup Denied
Batches == UNION {[1..n -> Names] : n \in 1..MaxBatch}

ASSUME CapsArePositive == MaxCalls \in Nat \ {0} /\ MaxUnknown \in Nat \ {0}
ASSUME BatchIsNat == MaxBatch \in Nat
ASSUME SearchesAreReal == Searches \subseteq Real
ASSUME NamesApart ==
  /\ Charged \cap (Unregistered \cup Denied) = {}
  /\ Unregistered \cap Denied = {}

ToolNodes == {"triage", "tool_caller", "reasoner", "generator"}

LastThree(s) == SubSeq(s, IF Len(s) > 3 THEN Len(s) - 2 ELSE 1, Len(s))

(* The model's calls join the history as tool_call rows. *)
AskFor(batch) ==
  [tool EXCEPT !.calls = batch, !.owed = @ + Len(batch),
               !.recent = LastThree(@ \o batch)]

----------------------------------------------------------------------------
(* No call, or a model that failed: the corpus answers. *)
TriageToRetrieval ==
  /\ Enter("triage") /\ Leave("vector_retrieve")
  /\ UNCHANGED <<tool, doc, out, history>>

(* Calls of the model, or those the code-intent and keyword guards add. *)
TriageToTools ==
  /\ Enter("triage") /\ Leave("tool_caller")
  /\ \E batch \in Batches : tool' = AskFor(batch)
  /\ out' = [out EXCEPT !.toolPath = TRUE]
  /\ UNCHANGED <<doc, history>>

Positions(calls, names) == {i \in DOMAIN calls : calls[i] \in names}

(* Mutant of Served: a call of no known tool leaves no row. *)
ServedButUnknown ==
  {i \in DOMAIN tool.calls :
     /\ tool.calls[i] \notin Unregistered
     /\ tool.count + Cardinality(Positions(tool.calls, Charged) \cap 1..(i-1)) < MaxCalls}

(* The calls that come before the budget is spent; the rest is dropped. *)
Served ==
  {i \in DOMAIN tool.calls :
     tool.count + Cardinality(Positions(tool.calls, Charged) \cap 1..(i-1)) < MaxCalls}

ServedOf(names) == Served \cap Positions(tool.calls, names)

(* Every served call leaves one tool_result row. All but an engine call     *)
(* that fails leave an audit row, and so count as evidence.                 *)
ToolCaller ==
  /\ Enter("tool_caller") /\ Leave("reasoner")
  /\ \E lifted \in SUBSET {<<turn, 0>>}, audited \in BOOLEAN :
       /\ lifted # {} => ServedOf(Searches) # {}
       /\ audited => tool.audited \/ Served # {}
       /\ ~audited => ~tool.audited /\ Served \subseteq ServedOf(Engine)
       /\ tool' = [tool EXCEPT
            !.calls = <<>>,
            !.owed = @ - Cardinality(Served),
            !.answered = @ \/ Served # {},
            !.count = @ + Cardinality(ServedOf(Charged)),
            !.unknown = @ + Cardinality(ServedOf(Unregistered)),
            !.audited = audited,
            !.chunks = @ \cup lifted]
  /\ barred' = (barred \/ ServedOf(Denied) # {})
  /\ UNCHANGED <<doc, out, verdict, written, kept>>

----------------------------------------------------------------------------
(* Mutant of BudgetSpent: the cap on calls is not looked at. *)
BudgetSpentByUnknown == tool.unknown >= MaxUnknown

BudgetSpent == tool.count >= MaxCalls \/ tool.unknown >= MaxUnknown

(* The last three calls are of one tool. *)
Stuck ==
  /\ Len(tool.recent) = 3
  /\ \A i \in 1..3 : tool.recent[i] = tool.recent[1]

(* The budget, the wall clock or the stuck detector ends the loop, the      *)
(* model fails, or it has what it needs.                                    *)
ReasonerHandsOver ==
  /\ Enter("reasoner") /\ Leave("generator")
  /\ UNCHANGED <<tool, doc, out, history>>

ReasonerAsksMore ==
  /\ Enter("reasoner") /\ Leave("tool_caller")
  /\ ~BudgetSpent /\ ~Stuck
  /\ \E batch \in Batches : tool' = AskFor(batch)
  /\ UNCHANGED <<doc, out, history>>

----------------------------------------------------------------------------
(* The model times out or fails: no answer, and no flag is touched. *)
GeneratorFails ==
  /\ Enter("generator") /\ Leave("verify_answer")
  /\ out' = [out EXCEPT !.answer = ""]
  /\ UNCHANGED <<tool, doc, history>>

(* Twice a draft that echoes tool markers, or that cites tools that were    *)
(* never called: a refusal, which is not a grounding check.                 *)
GeneratorRefuses ==
  /\ Enter("generator") /\ Leave("verify_answer")
  /\ out' = [out EXCEPT !.answer = "refusal", !.grounded = FALSE, !.final = {}]
  /\ UNCHANGED <<tool, doc, history>>

(* An answer is checked against the chunks the tools lifted; without chunks *)
(* it passes unchecked if a tool was called, and is flagged if none was.    *)
GeneratorAnswers ==
  /\ Enter("generator") /\ Leave("verify_answer")
  /\ \E answer \in {"", "answer"}, grounded \in BOOLEAN :
       LET verified == answer # "" /\ tool.chunks # {}
           baseless == answer # "" /\ tool.chunks = {} /\ ~tool.audited
       IN /\ grounded => verified
          /\ out' = [out EXCEPT !.answer = answer, !.grounded = grounded,
                                !.checked = verified \/ baseless,
                                !.final = tool.chunks]
          /\ verdict' = CASE grounded -> "pass"
                          [] ~grounded /\ (verified \/ baseless) -> "fail"
                          [] OTHER -> verdict
  /\ written' = written + 1
  /\ UNCHANGED <<tool, doc, barred, kept>>

ToolNext ==
  /\ graph = "multi"
  /\ \/ TriageToRetrieval \/ TriageToTools \/ ToolCaller
     \/ ReasonerHandsOver \/ ReasonerAsksMore
     \/ GeneratorFails \/ GeneratorRefuses \/ GeneratorAnswers
====
