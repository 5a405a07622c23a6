----------------------------- MODULE ToolCache -----------------------------
(***************************************************************************)
(* The cache of tool results, opsrag/mcp/tool_cache.py: an ordered map     *)
(* with expiry and a bound, and an index from a tool to its keys that the  *)
(* purge of a tool goes by.  Each section under the lock has no await in   *)
(* it and is one action; the tool itself runs between two of them.         *)
(*                                                                         *)
(* Values and errors differ in their time to live only, which is left to   *)
(* Expire.                                                                 *)
(***************************************************************************)
EXTENDS Integers, Sequences, FiniteSets

CONSTANTS Tools, Args,  \* what is called, and with what
          Callers,      \* calls that may be under way at once
          MaxEntries,   \* _MAX_ENTRIES
          MaxPurges     \* bound on the purges

ASSUME CacheAssumption ==
  /\ MaxEntries \in Nat \ {0}
  /\ MaxPurges \in Nat

Keys == Tools \X Args        \* _canonical_key
Tool(k) == k[1]

VARIABLES store,    \* _store: key -> [late, epoch]; epoch, the purges of its
                    \* tool when it was put, is not in the program
          order,    \* the order of _store, the least recently used first
          listed,   \* _tool_index
          busy,     \* busy[c]: the key call c computes, or none
          purged    \* purged[t]: how often t was purged

cacheVars == <<store, order, listed, busy, purged>>

Idle == <<>>
Without(S) == [k \in DOMAIN store \ S |-> store[k]]
OrderWithout(S) == SelectSeq(order, LAMBDA k : k \notin S)

CacheInit ==
  /\ store = [k \in {} |-> Idle]
  /\ order = <<>>
  /\ listed = [t \in Tools |-> {}]
  /\ busy = [c \in Callers |-> Idle]
  /\ purged = [t \in Tools |-> 0]

-----------------------------------------------------------------------------
(* get_or_compute finds an entry in time: it becomes the latest used, and  *)
(* its value is returned or its error raised.                              *)
Hit(c, k) ==
  /\ busy[c] = Idle
  /\ k \in DOMAIN store /\ ~store[k].late
  /\ order' = Append(OrderWithout({k}), k)
  /\ UNCHANGED <<store, listed, busy, purged>>

(* It finds none, or one that has expired: that one is taken out of the    *)
(* store, and stays in the index.                                          *)
Miss(c, k) ==
  /\ busy[c] = Idle
  /\ k \in DOMAIN store => store[k].late
  /\ busy' = [busy EXCEPT ![c] = k]
  /\ store' = Without({k})
  /\ order' = OrderWithout({k})
  /\ UNCHANGED <<listed, purged>>

(* Mutant of Put: the eviction takes the new key out of the index. *)
PutUnlists(k) ==
  LET line    == Append(OrderWithout({k}), k)
      evicted == IF Len(line) > MaxEntries THEN {Head(line)} ELSE {}
      fresh   == [late |-> FALSE, epoch |-> purged[Tool(k)]]
  IN  /\ store' = [j \in (DOMAIN store \cup {k}) \ evicted |->
                     IF j = k THEN fresh ELSE store[j]]
      /\ order' = IF evicted = {} THEN line ELSE Tail(line)
      /\ listed' = [t \in Tools |-> IF evicted = {}
                     THEN listed[t] \cup (IF t = Tool(k) THEN {k} ELSE {})
                     ELSE listed[t] \ {k}]

(* _put, the while loop included: the store was within its bound.          *)
Put(k) ==
  LET line    == Append(OrderWithout({k}), k)
      evicted == IF Len(line) > MaxEntries THEN {Head(line)} ELSE {}
      fresh   == [late |-> FALSE, epoch |-> purged[Tool(k)]]
  IN  /\ store' = [j \in (DOMAIN store \cup {k}) \ evicted |->
                     IF j = k THEN fresh ELSE store[j]]
      /\ order' = IF evicted = {} THEN line ELSE Tail(line)
      /\ listed' = [t \in Tools |->
                     (listed[t] \cup (IF t = Tool(k) THEN {k} ELSE {})) \ evicted]

(* The tool has answered, or raised: kept, whatever was purged meanwhile. *)
Answer(c) ==
  /\ busy[c] # Idle
  /\ Put(busy[c])
  /\ busy' = [busy EXCEPT ![c] = Idle]
  /\ UNCHANGED purged

(* The answer is too big to keep, or the call was cancelled. *)
NotKept(c) ==
  /\ busy[c] # Idle
  /\ busy' = [busy EXCEPT ![c] = Idle]
  /\ UNCHANGED <<store, order, listed, purged>>

Expire(k) ==
  /\ k \in DOMAIN store /\ ~store[k].late
  /\ store' = [store EXCEPT ![k].late = TRUE]
  /\ UNCHANGED <<order, listed, busy, purged>>

MayPurge(S) == \A t \in S : purged[t] < MaxPurges

(* purge of one tool, by the index. *)
PurgeTool(t) ==
  /\ MayPurge({t})
  /\ purged' = [purged EXCEPT ![t] = @ + 1]
  /\ store' = Without(listed[t])
  /\ order' = OrderWithout(listed[t])
  /\ listed' = [listed EXCEPT ![t] = {}]
  /\ UNCHANGED busy

(* purge of everything. *)
PurgeAll ==
  /\ MayPurge(Tools)
  /\ purged' = [t \in Tools |-> purged[t] + 1]
  /\ store' = [k \in {} |-> Idle]
  /\ order' = <<>>
  /\ listed' = [t \in Tools |-> {}]
  /\ UNCHANGED busy

CacheNext ==
  \/ \E c \in Callers :
       (\E k \in Keys : Hit(c, k) \/ Miss(c, k)) \/ Answer(c) \/ NotKept(c)
  \/ \E k \in Keys : Expire(k)
  \/ \E t \in Tools : PurgeTool(t)
  \/ PurgeAll

CacheSpec == CacheInit /\ [][CacheNext]_cacheVars

-----------------------------------------------------------------------------
CacheTypeOK ==
  /\ DOMAIN store \subseteq Keys
  /\ \A k \in DOMAIN store : store[k] \in [late : BOOLEAN, epoch : 0..MaxPurges]
  /\ order \in Seq(Keys)
  /\ listed \in [Tools -> SUBSET Keys]
  /\ busy \in [Callers -> Keys \cup {Idle}]
  /\ purged \in [Tools -> 0..MaxPurges]

(* A purge leaves nothing behind: what the store holds of a tool was put   *)
(* after the latest purge of it, although entries are replaced, expire, are*)
(* popped and evicted in any order between the two, and the purge sees     *)
(* the index only.                                                         *)
PurgeReaches ==
  \A k \in DOMAIN store : store[k].epoch = purged[Tool(k)]
=============================================================================
