------------------------------ MODULE Channel ------------------------------
(***************************************************************************)
(* The core of the chat channels: ChannelDispatcher.on_message of          *)
(* opsrag/channels/dispatcher.py with the quota of channels/permission.py  *)
(* and the placeholder of channels/streaming.py.  Messages are handled     *)
(* concurrently; a heartbeat task of each rewrites its placeholder while   *)
(* the agent runs.                                                         *)
(*                                                                         *)
(* Cancelling the heartbeat ends the task of this process only: an edit    *)
(* whose request has left may still be applied by the platform, at any     *)
(* later time, and so may one whose call has failed.                       *)
(***************************************************************************)
EXTENDS Integers, FiniteSets

CONSTANTS Users, Msgs,
          Quota,        \* per_user_daily_quota
          Rungs         \* phrases of the heartbeat

ASSUME ChannelAssumption ==
  /\ IsFiniteSet(Msgs)
  /\ Quota \in Nat \ {0}
  /\ Rungs \in Nat \ {0}

VARIABLES sender,  \* sender[m]: who has sent m
          stage,   \* where on_message is with m
          bucket,  \* bucket[u]: _usage, without what is older than a day
          peak,    \* peak[u]: the most messages of u handled at once so far
          beat,    \* beat[m], the heartbeat: "off", "sleep", "edit" before the
                   \* request leaves, "reply" after it, "over"
          rung,    \* rung[m]: phrases it has gone through
          sent,    \* sent[m]: its edits that the platform may yet apply
          shown    \* shown[m]: what the channel shows in answer

channelVars == <<sender, stage, bucket, peak, beat, rung, sent, shown>>

Final == {"answer", "apology"}
InHand == {"placing", "running"} \cup Final
HandledOf(u) == {m \in Msgs : sender[m] = u /\ stage[m] \in InHand}

ChannelInit ==
  /\ sender \in [Msgs -> Users]
  /\ stage = [m \in Msgs |-> "new"]
  /\ bucket = [u \in Users |-> 0]
  /\ peak = [u \in Users |-> 0]
  /\ beat = [m \in Msgs |-> "off"]
  /\ rung = [m \in Msgs |-> 0]
  /\ sent = [m \in Msgs |-> 0]
  /\ shown = [m \in Msgs |-> "nothing"]

-----------------------------------------------------------------------------
(* allow() says no, for the quota or the lists, or the query is empty. *)
Refuse(m) ==
  /\ stage[m] = "new"
  /\ stage' = [stage EXCEPT ![m] = "over"]
  /\ UNCHANGED <<sender, bucket, peak, beat, rung, sent, shown>>

(* Mutant of Accept: a full bucket passes. *)
AcceptFull(m) ==
  LET u == sender[m]
      now == Cardinality(HandledOf(u)) + 1
  IN  /\ stage[m] = "new"
      /\ bucket[u] <= Quota
      /\ stage' = [stage EXCEPT ![m] = "placing"]
      /\ peak' = [peak EXCEPT ![u] = IF @ < now THEN now ELSE @]
      /\ UNCHANGED <<sender, bucket, beat, rung, sent, shown>>

(* allow() says yes: the bucket is read, and not written until the end. *)
Accept(m) ==
  LET u == sender[m]
      now == Cardinality(HandledOf(u)) + 1
  IN  /\ stage[m] = "new"
      /\ bucket[u] < Quota
      /\ stage' = [stage EXCEPT ![m] = "placing"]
      /\ peak' = [peak EXCEPT ![u] = IF @ < now THEN now ELSE @]
      /\ UNCHANGED <<sender, bucket, beat, rung, sent, shown>>

(* post_placeholder, then start_heartbeat. *)
Placed(m) ==
  /\ stage[m] = "placing"
  /\ stage' = [stage EXCEPT ![m] = "running"]
  /\ shown' = [shown EXCEPT ![m] = "phrase"]
  /\ beat' = [beat EXCEPT ![m] = "sleep"]
  /\ UNCHANGED <<sender, bucket, peak, rung, sent>>

(* It fails: nothing is run, nothing is counted. *)
PlaceFails(m) ==
  /\ stage[m] = "placing"
  /\ stage' = [stage EXCEPT ![m] = "over"]
  /\ UNCHANGED <<sender, bucket, peak, beat, rung, sent, shown>>

(* The heartbeat wakes, finds nothing finalized and calls the adapter. *)
Beat(m) ==
  /\ beat[m] = "sleep" /\ stage[m] = "running"
  /\ beat' = [beat EXCEPT ![m] = "edit"]
  /\ UNCHANGED <<sender, stage, bucket, peak, rung, sent, shown>>

(* The request leaves, after what the adapter's library waits for first: a *)
(* token, a connection, a rate limit.                                      *)
BeatSent(m) ==
  /\ beat[m] = "edit"
  /\ beat' = [beat EXCEPT ![m] = "reply"]
  /\ sent' = [sent EXCEPT ![m] = @ + 1]
  /\ UNCHANGED <<sender, stage, bucket, peak, rung, shown>>

(* The platform applies the edit, or drops it. *)
BeatLands(m) ==
  /\ sent[m] > 0
  /\ sent' = [sent EXCEPT ![m] = @ - 1]
  /\ shown' \in {shown, [shown EXCEPT ![m] = "phrase"]}
  /\ UNCHANGED <<sender, stage, bucket, peak, beat, rung>>

(* The call returns or raises, the same to the heartbeat. *)
Beaten(m) ==
  /\ beat[m] \in {"edit", "reply"}
  /\ rung' = [rung EXCEPT ![m] = @ + 1]
  /\ beat' = [beat EXCEPT ![m] = IF rung[m] + 1 = Rungs THEN "over" ELSE "sleep"]
  /\ UNCHANGED <<sender, stage, bucket, peak, sent, shown>>

(* Mutant of Finish: it sets the flag and cancels nothing, and an edit     *)
(* that was about to leave goes out.                                       *)
FinishUnawaited(m, s) ==
  /\ stage[m] = "running"
  /\ stage' = [stage EXCEPT ![m] = s]
  /\ beat' = [beat EXCEPT ![m] = IF @ = "edit" THEN "edit" ELSE "over"]
  /\ UNCHANGED <<sender, bucket, peak, rung, sent, shown>>

(* The agent has answered, or failed: finalize_* cancels the heartbeat and *)
(* awaits its end before it writes.                                        *)
Finish(m, s) ==
  /\ stage[m] = "running"
  /\ stage' = [stage EXCEPT ![m] = s]
  /\ beat' = [beat EXCEPT ![m] = "over"]
  /\ UNCHANGED <<sender, bucket, peak, rung, sent, shown>>

(* The last edit is applied, or fails; an answer is counted either way.    *)
Finalized(m) ==
  /\ stage[m] \in Final
  /\ shown' \in {shown, [shown EXCEPT ![m] = stage[m]]}
  /\ bucket' = IF stage[m] = "answer"
               THEN [bucket EXCEPT ![sender[m]] = @ + 1] ELSE bucket
  /\ stage' = [stage EXCEPT ![m] = "over"]
  /\ UNCHANGED <<sender, peak, beat, rung, sent>>

(* A day has passed since the oldest use. *)
Age(u) ==
  /\ bucket[u] > 0
  /\ bucket' = [bucket EXCEPT ![u] = @ - 1]
  /\ UNCHANGED <<sender, stage, peak, beat, rung, sent, shown>>

ChannelNext ==
  \/ \E m \in Msgs :
       \/ Refuse(m) \/ Accept(m)
       \/ Placed(m) \/ PlaceFails(m)
       \/ Beat(m) \/ BeatSent(m) \/ BeatLands(m) \/ Beaten(m)
       \/ \E s \in Final : Finish(m, s)
       \/ Finalized(m)
  \/ \E u \in Users : Age(u)

ChannelSpec == ChannelInit /\ [][ChannelNext]_channelVars

-----------------------------------------------------------------------------
ChannelTypeOK ==
  /\ sender \in [Msgs -> Users]
  /\ stage \in [Msgs -> {"new", "over"} \cup InHand]
  /\ bucket \in [Users -> Nat]
  /\ peak \in [Users -> Nat]
  /\ beat \in [Msgs -> {"off", "sleep", "edit", "reply", "over"}]
  /\ rung \in [Msgs -> 0..Rungs]
  /\ sent \in [Msgs -> 0..Rungs]
  /\ shown \in [Msgs -> {"nothing", "phrase"} \cup Final]

(* The quota is checked before the agent runs and used after it: messages  *)
(* of one user that overlap can all pass.  The bucket exceeds the quota by *)
(* less than the most that were ever in hand at once: with one message at  *)
(* a time the quota holds, and failed runs cost nothing.                   *)
QuotaOverrun ==
  \A u \in Users :
    bucket[u] + Cardinality(HandledOf(u)) <= Quota - 1 + peak[u]

(* From the start of finalize_* the heartbeat sends nothing more, and so   *)
(* the answer or the apology, once shown, can be overwritten only by edits *)
(* sent before; when none of those is left, it stays.                      *)
AnswerStays ==
  [][\A m \in Msgs :
       /\ stage[m] \in Final \cup {"over"} => sent'[m] <= sent[m]
       /\ shown[m] \in Final /\ sent[m] = 0 => shown'[m] = shown[m]]_channelVars
=============================================================================
