---- MODULE Chat ----
(***************************************************************************)
(* A chat thread over any of the compiled graphs, turn after turn.         *)
(***************************************************************************)
EXTENDS ToolTurn, CragTurn

Next == SharedNext \/ ToolNext \/ CragNext
Spec == Init /\ [][Next]_vars

Marks == (1..MaxTurns) \X (0..(MaxRetries + 1))
ToolStates ==
  [calls : Seq(Names), recent : Seq(Names), owed : Nat, answered : BOOLEAN,
   count : Nat, unknown : Nat, audited : BOOLEAN, chunks : SUBSET Marks]
DocStates ==
  [retrieved : SUBSET Marks, merged : SUBSET Marks, graded : SUBSET Marks,
   rank : {"weak", "fair", "strong"}, retries : 0..MaxRetries, regens : Nat]
OutStates ==
  [answer : {"", "answer", "refusal", "nothing found", "chat", "apology"},
   grounded : BOOLEAN, checked : BOOLEAN, final : SUBSET Marks, toolPath : BOOLEAN]

TypeOK ==
  /\ graph \in Graphs
  /\ at \in Resting \cup {"end"} \cup SharedNodes \cup ToolNodes \cup CragNodes
  /\ steps \in 0..Limit /\ turn \in 0..MaxTurns
  /\ tool \in ToolStates /\ doc \in DocStates /\ out \in OutStates
  /\ verdict \in {"none", "pass", "fail"} /\ written \in Nat /\ barred \in BOOLEAN

----------------------------------------------------------------------------
(* The recursion limit leaves room for every budget: 48 in the program,    *)
(* against 10 calls, 3 unknown names, 3 rewrites and 3 failed checks.      *)
ASSUME LimitSuffices ==
  /\ Limit >= 2 * (MaxCalls + MaxUnknown) + 1
  /\ Limit >= 5 * MaxRetries + 3 * MaxRegens + 11

(* A turn of the tool lane comes to the reasoner with a call answered: no   *)
(* budget spent in an earlier turn of the thread makes tool_caller drop all *)
(* of them.                                                                 *)
FirstCallServed == at = "reasoner" => tool.answered

(* Every call the model asked for has its one result row, unless the budget *)
(* of the turn was spent and tool_caller dropped the rest of the batch.     *)
AnsweredOrDropped ==
  at \in {"reasoner", "generator"} => tool.owed = 0 \/ tool.count >= MaxCalls

(* The budgets end every turn: the recursion limit cuts only a turn in      *)
(* which a tool was refused for lack of permission, the one call that is    *)
(* charged to no budget.                                                    *)
LimitIsBackstop == at = "cut" => barred

(* An answer of the retrieval lane rests on the chunks of the latest pass   *)
(* of its own turn, whatever earlier passes and turns left in the channels. *)
FreshEvidence ==
  out.answer = "answer" /\ ~out.toolPath => out.final \subseteq {<<turn, doc.retries + 1>>}

(* No cache keeps an answer that failed its grounding check, and an answer  *)
(* made of chunks is kept only when it passed; only live tools, and the     *)
(* minimal graph, have answers kept that rest on no chunks.                 *)
KeptIsGrounded ==
  \A k \in kept : k.answer = "answer" =>
    /\ k.verdict # "fail"
    /\ k.final # {} => k.verdict = "pass"
    /\ k.final = {} => k.cache = "investigation" \/ graph = "minimal"

(* The full graph ships an answer that failed the grounding check only      *)
(* after every regeneration: rewrites of the query do not spend them.       *)
RegensSpent ==
  graph = "full" /\ at = "end" /\ verdict = "fail" =>
    written = IF MaxRegens = 0 THEN 1 ELSE MaxRegens

(* The sources of an answer were retrieved in its own turn. *)
SourcesOfTurn == \A e \in out.final : e[1] = turn
====
