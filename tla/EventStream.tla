---------------------------- MODULE EventStream -----------------------------
(***************************************************************************)
(* The readers of the event ledger: the tail-cursor stream of              *)
(* opsrag/api/routes_investigations.py, and the hook that follows it in    *)
(* the browser (ui/src/hooks/useInvestigationEvents.ts).                   *)
(*                                                                         *)
(* A stream is a generator in the server that polls the ledger and ends    *)
(* after a window; the hook then opens the next one from the last sequence *)
(* number it has seen.  "blip" is a fault of the connection.               *)
(***************************************************************************)
EXTENDS EventLedger, SequencesExt, FiniteSetsExt

CONSTANTS Pages,      \* browser tabs
          Limit,      \* rows a poll reads at most
          Polls,      \* polls of one stream
          MaxVisits,  \* bound on the investigations opened
          None

ASSUME PageAssumption ==
  /\ {Limit, Polls} \subseteq Nat \ {0}
  /\ MaxVisits \in Nat
  /\ None \notin Invs

VARIABLES target,    \* target[p]: the investigation the page is about, or None
          since,     \* since[p]: where its subscription began
          seen,      \* seen[p]: seqRef, the highest sequence number received
          link,      \* link[p]: "off", "retry" or "up", the EventSource
          over,      \* over[p]: terminalRef
          heard,     \* heard[p]: the events the hook passed on, in order
          feed,      \* feed[p]: the generator that serves the page
          wire,      \* wire[p]: the frames that are under way
          visits     \* investigations opened so far

hookVars == <<target, since, seen, link, over, heard>>
feedVars == <<feed, wire>>
streamVars == <<hookVars, feedVars, visits>>
vars == <<ledgerVars, streamVars>>

NoFeed == [at |-> "none", cursor |-> 0, left |-> 0, got |-> FALSE]

(* The events of i after a cursor. *)
After(i, cursor) == {r.seq : r \in {q \in RowsOf(i) : q.seq > cursor}}

Ascends(s) == \A m, n \in 1..Len(s) : m < n => s[m] < s[n]

(* list_events_since: ORDER BY seq LIMIT gives the first events, in order. *)
FirstOf(found) ==
  {s \in BoundedSeq(found, Limit) :
     /\ Ascends(s)
     /\ Len(s) = Min({Limit, Cardinality(found)})
     /\ \A n \in found \ ToSet(s), m \in ToSet(s) : m < n}
KindOf(n) == (CHOOSE r \in rows : r.seq = n).kind

Init ==
  /\ LedgerInit
  /\ target = [p \in Pages |-> None]
  /\ since = [p \in Pages |-> 0]
  /\ seen = [p \in Pages |-> 0]
  /\ link = [p \in Pages |-> "off"]
  /\ over = [p \in Pages |-> FALSE]
  /\ heard = [p \in Pages |-> <<>>]
  /\ feed = [p \in Pages |-> NoFeed]
  /\ wire = [p \in Pages |-> <<>>]
  /\ visits = 0

-----------------------------------------------------------------------------
(* The effect of the hook on its investigationId: the old stream is        *)
(* dropped, and seqRef is what the page passes in.                         *)
Subscribe(p, i, from) ==
  /\ status[i] # "absent"
  /\ visits < MaxVisits
  /\ visits' = visits + 1
  /\ target' = [target EXCEPT ![p] = i]
  /\ since' = [since EXCEPT ![p] = from]
  /\ seen' = [seen EXCEPT ![p] = from]
  /\ link' = [link EXCEPT ![p] = "retry"]
  /\ over' = [over EXCEPT ![p] = FALSE]
  /\ heard' = [heard EXCEPT ![p] = <<>>]
  /\ feed' = [feed EXCEPT ![p] = NoFeed]
  /\ wire' = [wire EXCEPT ![p] = <<>>]
  /\ UNCHANGED ledgerVars

(* The page is loaded at an investigation, or follows one it has posted. *)
Mount(p, i) == Subscribe(p, i, 0)

(* Another investigation is picked in the sidebar.  The page passes the    *)
(* latestSeq of what it shows until now: of the investigation it followed, *)
(* where the snapshot may be ahead of the stream, or of one before it, if  *)
(* that one's snapshot never came; 0 if it shows nothing yet.              *)
Switch(p, i) ==
  /\ target[p] \notin {None, i}
  /\ \E from \in {0} \cup {r.seq : r \in rows} : Subscribe(p, i, from)

-----------------------------------------------------------------------------
(* connect(): a new EventSource, from the last sequence number seen. *)
(* Mutant of Connect: the stream starts again where the page began. *)
ConnectAgain(p) ==
  /\ link[p] = "retry"
  /\ link' = [link EXCEPT ![p] = "up"]
  /\ feed' = [feed EXCEPT ![p] =
       [at |-> "poll", cursor |-> since[p], left |-> Polls, got |-> FALSE]]
  /\ UNCHANGED <<ledgerVars, target, since, seen, over, heard, wire, visits>>

Connect(p) ==
  /\ link[p] = "retry"
  /\ link' = [link EXCEPT ![p] = "up"]
  /\ feed' = [feed EXCEPT ![p] =
       [at |-> "poll", cursor |-> seen[p], left |-> Polls, got |-> FALSE]]
  /\ UNCHANGED <<ledgerVars, target, since, seen, over, heard, wire, visits>>

(* One poll of the generator: a frame for each row it reads. *)
Poll(p) ==
  /\ feed[p].at = "poll"
  /\ \E page \in FirstOf(After(target[p], feed[p].cursor)) :
       /\ wire' = [wire EXCEPT ![p] = @ \o page]
       /\ feed' = [feed EXCEPT ![p].at = "check",
                               ![p].got = page # <<>>,
                               ![p].cursor = IF page = <<>> THEN @ ELSE Last(page)]
  /\ UNCHANGED <<ledgerVars, hookVars, visits>>

(* Then it reads the lifecycle row.  It ends when the investigation is     *)
(* over and the poll found nothing, or when its window is over.            *)
(* Mutant of Check: the window never closes. *)
CheckForever(p) ==
  /\ feed[p].at = "check"
  /\ feed' = [feed EXCEPT ![p].at =
                IF status[target[p]] \in Terminal /\ ~feed[p].got THEN "end" ELSE "poll",
                          ![p].left = @ - 1, ![p].got = FALSE]
  /\ UNCHANGED <<ledgerVars, hookVars, wire, visits>>

Check(p) ==
  /\ feed[p].at = "check"
  /\ feed' = [feed EXCEPT ![p].at =
                IF \/ status[target[p]] \in Terminal /\ ~feed[p].got
                   \/ feed[p].left = 1
                THEN "end" ELSE "poll",
                          ![p].left = @ - 1, ![p].got = FALSE]
  /\ UNCHANGED <<ledgerVars, hookVars, wire, visits>>

(* onmessage: the event goes to the reducer; a terminal one ends the       *)
(* subscription.                                                           *)
Receive(p) ==
  /\ wire[p] # <<>>
  /\ LET n == Head(wire[p])
         last == KindOf(n) \in Terminal
     IN  /\ seen' = [seen EXCEPT ![p] = Max({@, n})]
         /\ heard' = [heard EXCEPT ![p] = Append(@, n)]
         /\ over' = [over EXCEPT ![p] = last]
         /\ link' = IF last THEN [link EXCEPT ![p] = "off"] ELSE link
         /\ feed' = IF last THEN [feed EXCEPT ![p] = NoFeed] ELSE feed
         /\ wire' = [wire EXCEPT ![p] = IF last THEN <<>> ELSE Tail(@)]
  /\ UNCHANGED <<ledgerVars, target, since, visits>>

(* onerror, when the response has ended. *)
(* Mutant of StreamEnds: the hook takes the close frame for the end. *)
StreamEndsClosed(p) ==
  /\ feed[p].at = "end" /\ wire[p] = <<>>
  /\ link' = [link EXCEPT ![p] = IF feed[p].left > 0 THEN "off" ELSE "retry"]
  /\ feed' = [feed EXCEPT ![p] = NoFeed]
  /\ UNCHANGED <<ledgerVars, target, since, seen, over, heard, wire, visits>>

StreamEnds(p) ==
  /\ feed[p].at = "end" /\ wire[p] = <<>>
  /\ link' = [link EXCEPT ![p] = "retry"]
  /\ feed' = [feed EXCEPT ![p] = NoFeed]
  /\ UNCHANGED <<ledgerVars, target, since, seen, over, heard, wire, visits>>

(* onerror, when the connection breaks or the generator raises: the frames *)
(* under way are lost.                                                     *)
Blip(p) ==
  /\ link[p] = "up"
  /\ Fail("blip")
  /\ link' = [link EXCEPT ![p] = "retry"]
  /\ feed' = [feed EXCEPT ![p] = NoFeed]
  /\ wire' = [wire EXCEPT ![p] = <<>>]
  /\ UNCHANGED <<rows, nextval, inflight, status, runner, emitted>>
  /\ UNCHANGED <<target, since, seen, over, heard, visits>>

(* The server dies with its runners and its streams. *)
ServerCrash ==
  /\ Crash
  /\ link' = [p \in Pages |-> IF link[p] = "up" THEN "retry" ELSE link[p]]
  /\ feed' = [p \in Pages |-> NoFeed]
  /\ wire' = [p \in Pages |-> <<>>]
  /\ UNCHANGED <<target, since, seen, over, heard, visits>>

-----------------------------------------------------------------------------
(* The server polls and the browser receives. *)
Read(p) ==
  \/ Connect(p)
  \/ Poll(p)
  \/ Check(p)
  \/ Receive(p)
  \/ StreamEnds(p)

Next ==
  \/ \E i \in Invs : (Launch(i) \/ Write(i)) /\ UNCHANGED streamVars
  \/ \E p \in Pages, i \in Invs : Mount(p, i) \/ Switch(p, i)
  \/ \E p \in Pages : Read(p) \/ Blip(p)
  \/ ServerCrash

Spec == Init /\ [][Next]_vars

-----------------------------------------------------------------------------
Numbers == 0..(nextval - 1)

TypeOK ==
  /\ LedgerTypeOK
  /\ target \in [Pages -> Invs \cup {None}]
  /\ since \in [Pages -> Numbers]
  /\ seen \in [Pages -> Numbers]
  /\ link \in [Pages -> {"off", "retry", "up"}]
  /\ over \in [Pages -> BOOLEAN]
  /\ heard \in [Pages -> Seq(Numbers)]
  /\ feed \in [Pages -> [at : {"none", "poll", "check", "end"}, cursor : Numbers,
                         left : 0..Polls, got : BOOLEAN]]
  /\ wire \in [Pages -> Seq(Numbers)]
  /\ visits \in 0..MaxVisits

(* What the hook has passed on since it subscribed is what the ledger      *)
(* holds of its investigation up to seqRef, in order, each event once: a   *)
(* stream that is recycled or breaks replays and drops nothing, and no     *)
(* event becomes visible below a cursor although the numbers are drawn     *)
(* before the commits, by runners of several investigations.               *)
HeardExactly ==
  \A p \in Pages : target[p] # None =>
    /\ Ascends(heard[p])
    /\ ToSet(heard[p]) = {n \in After(target[p], since[p]) : n <= seen[p]}

EndIsWritten(p) ==
  \E r \in rows : r.inv = target[p] /\ r.kind \in Terminal /\ r.seq > since[p]

(* A terminal event after the start of a subscription reaches its page,    *)
(* however often the stream ends before it, if the page stays on it.       *)
HearsTheEnd ==
  \A p \in Pages : []<>(EndIsWritten(p) => over[p])
=============================================================================
