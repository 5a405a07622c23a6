-------------------------------- MODULE Pod --------------------------------
(***************************************************************************)
(* One serving process of opsrag and what it does beside answering: it     *)
(* runs investigations and streams their events, it keeps the write        *)
(* buffers, the tool cache and the moderation of corrections, and it       *)
(* serves the chat channels.                                               *)
(*                                                                         *)
(* The parts share no variable and no step, so what one of them may do     *)
(* does not depend on where the others are: in each behaviour one part     *)
(* moves.                                                                  *)
(***************************************************************************)
EXTENDS EventStream, WriteBuffer, ToolCache, Review, Reasoner, Channel

VARIABLE moving  \* the part that moves

podVars == <<moving, vars, bufferVars, cacheVars, reviewVars, reasonerVars, channelVars>>

(* Who has sent a message matters when the channel moves. *)
PodInit ==
  /\ Init /\ BufferInit /\ CacheInit /\ ReviewInit /\ ReasonerInit /\ ChannelInit
  /\ moving \in {"stream", "buffer", "cache", "review", "reasoner", "channel"}
  /\ moving # "channel" => sender = [m \in Msgs |-> CHOOSE u \in Users : TRUE]

StreamStep(A) ==
  /\ moving = "stream" /\ A
  /\ UNCHANGED <<moving, bufferVars, cacheVars, reviewVars, reasonerVars, channelVars>>
BufferStep(A) ==
  /\ moving = "buffer" /\ A
  /\ UNCHANGED <<moving, vars, cacheVars, reviewVars, reasonerVars, channelVars>>
CacheStep ==
  /\ moving = "cache" /\ CacheNext
  /\ UNCHANGED <<moving, vars, bufferVars, reviewVars, reasonerVars, channelVars>>
ReviewStep ==
  /\ moving = "review" /\ ReviewNext
  /\ UNCHANGED <<moving, vars, bufferVars, cacheVars, reasonerVars, channelVars>>
ReasonerStep ==
  /\ moving = "reasoner" /\ ReasonerNext
  /\ UNCHANGED <<moving, vars, bufferVars, cacheVars, reviewVars, channelVars>>
ChannelStep ==
  /\ moving = "channel" /\ ChannelNext
  /\ UNCHANGED <<moving, vars, bufferVars, cacheVars, reviewVars, reasonerVars>>

PodNext ==
  \/ StreamStep(Next)
  \/ BufferStep(BufferNext)
  \/ CacheStep
  \/ ReviewStep
  \/ ReasonerStep
  \/ ChannelStep

(* A page's stream is read as long as there is something to read, the      *)
(* flush task runs, and close() goes on.  Nothing is asked of the runners. *)
PodSpec ==
  /\ PodInit /\ [][PodNext]_podVars
  /\ \A p \in Pages : WF_podVars(StreamStep(Read(p)))
  /\ WF_podVars(BufferStep(Drain))
  /\ WF_podVars(BufferStep(TaskEnded \/ LastFlush))
=============================================================================
