------------------------- MODULE InvestigationPage --------------------------
(***************************************************************************)
(* The page of ui/src/components/InvestigationPage.tsx: it fetches the     *)
(* snapshot of an investigation and lets the hook open the event stream at *)
(* the same time, and shows what comes from both.                          *)
(***************************************************************************)
EXTENDS EventStream

VARIABLES fetch,   \* fetch[p]: the snapshot request
          shown    \* shown[p]: the events in the state of the page, in order

pageVars == <<vars, fetch, shown>>

NoFetch == [at |-> "none", events |-> <<>>]
Asked   == [at |-> "asked", events |-> <<>>]
Fetched == [at |-> "done", events |-> <<>>]

(* The latestSeq of the reducer. *)
LatestSeq(p) == Max({0} \cup ToSet(shown[p]))

PageInit ==
  /\ Init
  /\ fetch = [p \in Pages |-> NoFetch]
  /\ shown = [p \in Pages |-> <<>>]

(* Both effects on targetId run at once: the request, and the hook's. *)
Load(p, i) ==
  /\ Mount(p, i)
  /\ fetch' = [fetch EXCEPT ![p] = Asked]
  /\ shown' = [shown EXCEPT ![p] = <<>>]

(* The state of the page stays until the snapshot is there. *)
Pick(p, i) ==
  /\ target[p] \notin {None, i}
  /\ Subscribe(p, i, LatestSeq(p))
  /\ fetch' = [fetch EXCEPT ![p] = Asked]
  /\ UNCHANGED shown

(* GET /investigations/{id} reads the events. *)
SnapshotRead(p) ==
  /\ fetch[p].at = "asked"
  /\ fetch' = [fetch EXCEPT ![p] =
       [at |-> "sent", events |-> SetToSortSeq(After(target[p], 0), <)]]
  /\ UNCHANGED <<vars, shown>>

(* snapshot_loaded replaces the state of the page. *)
SnapshotLoaded(p) ==
  /\ fetch[p].at = "sent"
  /\ shown' = [shown EXCEPT ![p] = fetch[p].events]
  /\ fetch' = [fetch EXCEPT ![p] = Fetched]
  /\ UNCHANGED vars

(* The request fails: the page applies a failure event with the number 0. *)
SnapshotFails(p) ==
  /\ fetch[p].at \in {"asked", "sent"}
  /\ Fail("snapshot")
  /\ shown' = [shown EXCEPT ![p] = Append(@, 0)]
  /\ fetch' = [fetch EXCEPT ![p] = Fetched]
  /\ UNCHANGED <<rows, nextval, inflight, status, runner, emitted, streamVars>>

(* onEvent: the reducer appends what the hook received. *)
Show(p) ==
  /\ Receive(p)
  /\ shown' = [shown EXCEPT ![p] = Append(@, Head(wire[p]))]
  /\ UNCHANGED fetch

PageNext ==
  \/ \E p \in Pages, i \in Invs : Load(p, i) \/ Pick(p, i)
  \/ \E p \in Pages : SnapshotRead(p) \/ SnapshotLoaded(p) \/ SnapshotFails(p) \/ Show(p)
  \/ /\ \/ \E i \in Invs : (Launch(i) \/ Write(i)) /\ UNCHANGED streamVars
        \/ \E p \in Pages : Connect(p) \/ Poll(p) \/ Check(p) \/ StreamEnds(p) \/ Blip(p)
        \/ ServerCrash
     /\ UNCHANGED <<fetch, shown>>

PageSpec == PageInit /\ [][PageNext]_pageVars

-----------------------------------------------------------------------------
(* The comments of the hook: it opens the stream "so we don't replay       *)
(* events the snapshot already covered", and "events are never replayed or *)
(* dropped".  Once the snapshot is loaded, the page shows each event up to *)
(* the last one that was received, once.                                   *)
ShownExactly ==
  \A p \in Pages : fetch[p].at = "done" =>
    /\ IsInjective(shown[p])
    /\ \A r \in RowsOf(target[p]) : r.seq <= seen[p] => r.seq \in ToSet(shown[p])
=============================================================================
