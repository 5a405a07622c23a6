------------------------------ MODULE Reasoner -----------------------------
(***************************************************************************)
(* The loop of an investigation, opsrag/investigations/runner.py: rounds   *)
(* of a reasoner that picks tools and an evaluator that judges the         *)
(* hypotheses on all results, under a wall clock and a budget of calls     *)
(* that are looked at at different places.                                 *)
(*                                                                         *)
(* Time is counted in ticks.  A tool call has a timeout; a call of a model *)
(* has none here, and its longest time is the bound ModelTime.             *)
(***************************************************************************)
EXTENDS Integers

CONSTANTS MaxRounds,    \* MAX_REASONER_ROUNDS
          RoundCap,     \* calls of one round that are served
          CallBudget,   \* MAX_INVESTIGATION_TOOL_CALLS
          WallClock,    \* MAX_INVESTIGATION_WALL_CLOCK_SEC
          ToolTimeout,  \* PER_TOOL_TIMEOUT_SEC
          ModelTime,    \* bound on one call of a model
          MaxAsked      \* bound on the calls a model asks for at once

ASSUME ReasonerAssumption ==
  /\ {MaxRounds, RoundCap, CallBudget, WallClock} \subseteq Nat \ {0}
  /\ {ToolTimeout, MaxAsked} \subseteq Nat \ {0}
  /\ ModelTime \in Nat

VARIABLES doing,    \* "top" of the loop, "think", "tools", "judge", "conclude",
                    \* or "concluded"
          round,    \* round_idx
          asked,    \* calls of this round still to be dispatched
          pending,  \* the one under way: 0 or 1
          calls,    \* budget.tool_calls
          results,  \* entries of accumulated_history and of this round's
          judged,   \* how many of them the latest verdicts rest on
          clock     \* since the budget was made

reasonerVars == <<doing, round, asked, pending, calls, results, judged, clock>>

Smaller(a, b) == IF a < b THEN a ELSE b
Takes(most) == \E t \in 0..most : clock' = clock + t

ReasonerInit ==
  /\ doing = "top"
  /\ round = 0
  /\ asked = 0 /\ pending = 0 /\ calls = 0
  /\ results = 0 /\ judged = 0
  /\ clock = 0

-----------------------------------------------------------------------------
(* Mutant of BudgetLeft: each call has its timeout, the loop has no clock. *)
BudgetLeftUntimed == calls < CallBudget

BudgetLeft == clock < WallClock /\ calls < CallBudget

(* The next round begins, if one is left and the budget is. *)
BeginRound ==
  /\ doing = "top" /\ round < MaxRounds /\ BudgetLeft
  /\ doing' = "think"
  /\ UNCHANGED <<round, asked, pending, calls, results, judged, clock>>

(* The budget, or the rounds, are spent: an answer from what is there. *)
StopLoop ==
  /\ doing = "top" /\ (round = MaxRounds \/ ~BudgetLeft)
  /\ doing' = "conclude"
  /\ UNCHANGED <<round, asked, pending, calls, results, judged, clock>>

(* The reasoner asks for n calls, of which the first RoundCap are served. *)
Think ==
  /\ doing = "think"
  /\ \E n \in 1..MaxAsked : asked' = Smaller(n, RoundCap)
  /\ Takes(ModelTime)
  /\ doing' = "tools"
  /\ UNCHANGED <<round, pending, calls, results, judged>>

(* It declines, fails, or has no tools: the loop is over. *)
Declines ==
  /\ doing = "think"
  /\ Takes(ModelTime)
  /\ doing' = "conclude"
  /\ UNCHANGED <<round, asked, pending, calls, results, judged>>

(* TOOL_CALLED, charged before the tool is known to exist. *)
Dispatch ==
  /\ doing = "tools" /\ pending = 0
  /\ asked > 0 /\ calls < CallBudget
  /\ asked' = asked - 1
  /\ calls' = calls + 1
  /\ pending' = 1
  /\ UNCHANGED <<doing, round, results, judged, clock>>

(* TOOL_RESULT: an answer, an error, an unknown tool or a timeout; each is *)
(* an entry of the history.                                                *)
Returned ==
  /\ doing = "tools" /\ pending = 1
  /\ Takes(ToolTimeout)
  /\ pending' = 0
  /\ results' = results + 1
  /\ UNCHANGED <<doing, round, asked, calls, judged>>

(* Mutant of RoundOver: a spent budget ends the loop at once. *)
RoundOverSpent ==
  /\ doing = "tools" /\ pending = 0
  /\ asked = 0 \/ calls = CallBudget
  /\ asked' = 0
  /\ doing' = IF calls < CallBudget THEN "judge" ELSE "conclude"
  /\ UNCHANGED <<round, pending, calls, results, judged, clock>>

(* No call is left, or no budget: without a result the loop is over. *)
RoundOver ==
  /\ doing = "tools" /\ pending = 0
  /\ asked = 0 \/ calls = CallBudget
  /\ asked' = 0
  /\ doing' = IF results > judged THEN "judge" ELSE "conclude"
  /\ UNCHANGED <<round, pending, calls, results, judged, clock>>

(* The evaluator sees all results, and never raises.  All decided, or not. *)
Judge ==
  /\ doing = "judge"
  /\ Takes(ModelTime)
  /\ judged' = results
  /\ round' = round + 1
  /\ doing' \in {"top", "conclude"}
  /\ UNCHANGED <<asked, pending, calls, results>>

(* The generator writes the answer, or the fallback. *)
WriteAnswer ==
  /\ doing = "conclude"
  /\ Takes(ModelTime)
  /\ doing' = "concluded"
  /\ UNCHANGED <<round, asked, pending, calls, results, judged>>

ReasonerNext ==
  \/ BeginRound \/ StopLoop
  \/ Think \/ Declines
  \/ Dispatch \/ Returned \/ RoundOver
  \/ Judge
  \/ WriteAnswer

ReasonerSpec == ReasonerInit /\ [][ReasonerNext]_reasonerVars

-----------------------------------------------------------------------------
ReasonerTypeOK ==
  /\ doing \in {"top", "think", "tools", "judge", "conclude", "concluded"}
  /\ round \in 0..MaxRounds
  /\ asked \in 0..RoundCap /\ pending \in {0, 1}
  /\ {calls, results, judged, clock} \subseteq Nat

(* The longest a round takes that has begun in time. *)
RoundTime == ModelTime + RoundCap * ToolTimeout + ModelTime

(* The wall clock is exceeded by one round and the answer at most, though  *)
(* nothing looks at it in a round, where each tool may hang until its      *)
(* timeout; and the budget of calls is never exceeded, though a round may  *)
(* begin with one call left.                                               *)
OverrunBounded ==
  /\ clock < WallClock + RoundTime + ModelTime
  /\ calls <= CallBudget

(* The answer is written when every call that was made has its result and  *)
(* the latest verdicts rest on all of them, however the loop has ended.    *)
EvidenceJudged ==
  doing \in {"conclude", "concluded"} => judged = calls
=============================================================================
