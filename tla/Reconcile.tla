----------------------------- MODULE Reconcile -----------------------------
(***************************************************************************)
(* A worker whose history is complete: it polls past the live checkpoint   *)
(* and, between polls, walks one reconciliation pass a page at a time.  A  *)
(* pass covers the OBJECTIDs up to the live checkpoint it started from,    *)
(* either all of them (nightly) or those received since a moment (the      *)
(* 48-hour window); only a pass that reached its end infers removals.      *)
(*                                                                         *)
(* The source may publish, withdraw and change records between any two     *)
(* requests.  Times are milliseconds in a small range; Null is a record    *)
(* without Call_Received, which no bound on it matches.                    *)
(***************************************************************************)
EXTENDS Integers, FiniteSets

CONSTANTS MaxId,      \* bound: the highest OBJECTID
          MaxTime,    \* bound: the latest Call_Received
          Second,     \* milliseconds in a second (1000)
          PageSize,   \* records a page may hold
          MaxChanges, \* bound: changes of the source in one behaviour
          MaxUpsets   \* bound: failed requests and crashes in one behaviour

ASSUME ReconcileAssumption ==
  /\ MaxId \in Nat /\ MaxTime \in Nat /\ Second \in Nat \ {0} /\ PageSize \in Nat \ {0}
  /\ MaxChanges \in Nat /\ MaxUpsets \in Nat

Ids == 1 .. MaxId

Null == -1
Gone == -2    \* not published, or not stored
Received == {Null} \cup 0 .. MaxTime

VARIABLES
  \* the source
  published, \* OBJECTID -> its Call_Received, or Gone
  changes,   \* changes of the source so far
  \* the database
  received,  \* OBJECTID -> stored Call_Received, or Gone when no row
  present,   \* OBJECTIDs whose row has source_present
  live,      \* the live checkpoint
  \* the process
  pc,        \* "poll", "commit", "walk", "save", "finish"
  held,      \* the page it holds: [rows, last, more]
  pass,      \* the pass under way, or NoPass
  horizon,   \* now - 48 hours
  upsets,    \* failures and crashes so far
  \* history
  witness    \* what each OBJECTID has been since the pass began: the worst of
             \* "matching" its scope, "outside" it, or "gone" from the source

source   == <<published, changes>>
database == <<received, present, live>>
vars     == <<source, database, pc, held, pass, horizon, upsets, witness>>

NoRows == [id \in {} |-> Null]
NoPage == [rows |-> NoRows, last |-> 0, more |-> FALSE]

\* A pass's `since` is Null for a full one.
NoPass == [kind |-> "none", upper |-> 0, since |-> Null, cursor |-> 0, seen |-> {}]
PassType == [kind : {"none", "window", "full"}, upper : 0 .. MaxId, since : Received,
             cursor : 0 .. MaxId, seen : SUBSET Ids]

\* Mutant: the moment is rounded up instead of down.
CeilToSecond(t) == ((t + Second - 1) \div Second) * Second

\* The `where` clause of a request since a moment: it names a whole second.
FloorToSecond(t) == (t \div Second) * Second

Matches(time, since) == since = Null \/ time >= FloorToSecond(since)

\* Records the source publishes after a cursor, up to an upper bound, since a moment.
Matching(cursor, upper, since) ==
  {id \in Ids : /\ cursor < id /\ id <= upper
                /\ published[id] # Gone /\ Matches(published[id], since)}

\* The answers to page(cursor, upper, where) that the client accepts (see Source).
Pages(cursor, upper, since) ==
  LET found == Matching(cursor, upper, since)
      upTo(last) == {id \in found : id <= last}
  IN  {[rows |-> [id \in upTo(c[1]) |-> published[id]], last |-> c[1], more |-> c[2]] :
         c \in {d \in (found \cup {cursor}) \X BOOLEAN :
                  /\ Cardinality(upTo(d[1])) <= PageSize
                  /\ upTo(d[1]) # found => d[2]
                  /\ d[2] => upTo(d[1]) # {}}}

Init ==
  /\ published \in [Ids -> Received \cup {Gone}] /\ changes = 0
  /\ received = [id \in Ids |-> Gone] /\ present = {} /\ live = 0
  /\ pc = "poll" /\ held = NoPage /\ pass = NoPass
  /\ horizon = 0 /\ upsets = 0
  /\ witness = [id \in Ids |-> "matching"]

-----------------------------------------------------------------------------
(* The source and the clock.                                               *)

\* What an OBJECTID witnesses when the source publishes `time` for it.
Standing(time, since) ==
  IF time = Gone THEN "gone"
  ELSE IF since = Null \/ time >= since THEN "matching" ELSE "outside"

Worse(a, b) == IF a = "gone" \/ b = "gone" THEN "gone"
               ELSE IF a = "outside" \/ b = "outside" THEN "outside" ELSE "matching"

\* One record is published, withdrawn, or has its Call_Received changed.
Change(id, time) ==
  /\ changes < MaxChanges
  /\ published[id] # time
  /\ published' = [published EXCEPT ![id] = time]
  /\ changes' = changes + 1
  /\ witness' = IF pass.kind = "none" THEN witness
                ELSE [witness EXCEPT ![id] = Worse(@, Standing(time, pass.since))]
  /\ UNCHANGED <<database, pc, held, pass, horizon, upsets>>

Tick ==
  /\ horizon < MaxTime
  /\ horizon' = horizon + 1
  /\ UNCHANGED <<source, database, pc, held, pass, upsets, witness>>

-----------------------------------------------------------------------------
(* The worker.                                                             *)

\* Mutant: only records new to the database are made present.
UpsertWithoutRevival(rows) ==
  /\ received' = [id \in Ids |-> IF id \in DOMAIN rows THEN rows[id] ELSE received[id]]
  /\ present' = present \cup {id \in DOMAIN rows : received[id] = Gone}

\* Mutant: a page marks presence without storing the records.
UpsertPresenceOnly(rows) ==
  /\ UNCHANGED received
  /\ present' = present \cup DOMAIN rows

\* commit_page: every record of the page as published, and present.
Upsert(rows) ==
  /\ received' = [id \in Ids |-> IF id \in DOMAIN rows THEN rows[id] ELSE received[id]]
  /\ present' = present \cup DOMAIN rows

PollAnswer ==
  /\ pc = "poll"
  /\ held' \in Pages(live, MaxId, Null)
  /\ pc' = "commit"
  /\ UNCHANGED <<source, database, pass, horizon, upsets, witness>>

\* The live page with its checkpoint.  While the source reports more, the next poll
\* comes first; otherwise the pass under way continues, or a due one may start.
PollCommit ==
  /\ pc = "commit"
  /\ Upsert(held.rows)
  /\ live' = held.last
  /\ pc' = IF held.more THEN "poll" ELSE "walk"
  /\ held' = NoPage
  /\ UNCHANGED <<source, pass, horizon, upsets, witness>>

\* No pass is under way and none is due.
NothingDue ==
  /\ pc = "walk" /\ pass.kind = "none"
  /\ pc' = "poll"
  /\ UNCHANGED <<source, database, held, pass, horizon, upsets, witness>>

\* A pass is due: it begins at the current live checkpoint.
StartPass(kind) ==
  LET since == IF kind = "window" THEN horizon ELSE Null
  IN  /\ pc = "walk" /\ pass.kind = "none"
      /\ pass' = [kind |-> kind, upper |-> live, since |-> since, cursor |-> 0, seen |-> {}]
      /\ witness' = [id \in Ids |-> Standing(published[id], since)]
      /\ UNCHANGED <<source, database, pc, held, horizon, upsets>>

\* The pass's next page answers: what it holds counts as seen.
PassAnswer ==
  /\ pc = "walk" /\ pass.kind # "none"
  /\ held' \in Pages(pass.cursor, pass.upper, pass.since)
  /\ pass' = [pass EXCEPT !.seen = @ \cup DOMAIN held'.rows, !.cursor = held'.last]
  /\ pc' = "save"
  /\ UNCHANGED <<source, database, horizon, upsets, witness>>

\* The page is committed; a pass that is not at its end waits for the next poll.
PassCommit ==
  /\ pc = "save"
  /\ Upsert(held.rows)
  /\ pc' = IF held.more THEN "poll" ELSE "finish"
  /\ held' = NoPage
  /\ UNCHANGED <<source, live, pass, horizon, upsets, witness>>

\* The stored records a pass accounts for (present_ids).
InScope(id) ==
  /\ id \in present /\ id <= pass.upper
  /\ pass.since # Null => received[id] >= pass.since

\* A complete pass: what is stored in its scope and was not seen left the source.
Finish ==
  /\ pc = "finish"
  /\ present' = present \ {id \in Ids : InScope(id) /\ id \notin pass.seen}
  /\ pass' = NoPass
  /\ witness' = [id \in Ids |-> "matching"]
  /\ pc' = "poll"
  /\ UNCHANGED <<source, received, live, held, horizon, upsets>>

\* A request fails for good: the pass is dropped, whatever it has seen.
FailRequest ==
  /\ upsets < MaxUpsets
  /\ pc \in {"poll", "walk"}
  /\ pc = "walk" => pass.kind # "none"
  /\ pass' = NoPass
  /\ witness' = [id \in Ids |-> "matching"]
  /\ pc' = "poll"
  /\ upsets' = upsets + 1
  /\ UNCHANGED <<source, database, held, horizon>>

\* The process dies and restarts: only the database is left.
Crash ==
  /\ upsets < MaxUpsets
  /\ pass' = NoPass /\ held' = NoPage /\ pc' = "poll"
  /\ witness' = [id \in Ids |-> "matching"]
  /\ upsets' = upsets + 1
  /\ UNCHANGED <<source, database, horizon>>

SourceMoves == \E id \in Ids, time \in Received \cup {Gone} : Change(id, time)

StartWindow == StartPass("window")
StartFull   == StartPass("full")

WorkerStep == PollAnswer \/ PollCommit \/ NothingDue \/ StartWindow \/ StartFull
                \/ PassAnswer \/ PassCommit \/ Finish

Next == SourceMoves \/ Tick \/ WorkerStep \/ FailRequest \/ Crash

\* The loop never rests, and a nightly pass comes due again and again: a window pass is
\* not due for five minutes after one has finished, so it cannot hold the night's back.
Fairness == WF_vars(WorkerStep) /\ SF_vars(StartFull)

SafeSpec == Init /\ [][Next]_vars

Spec == SafeSpec /\ Fairness

-----------------------------------------------------------------------------
(* Properties.                                                             *)

TypeOK ==
  /\ published \in [Ids -> Received \cup {Gone}]
  /\ changes \in Nat
  /\ received \in [Ids -> Received \cup {Gone}]
  /\ present \subseteq {id \in Ids : received[id] # Gone}
  /\ live \in 0 .. MaxId
  /\ pc \in {"poll", "commit", "walk", "save", "finish"}
  /\ DOMAIN held.rows \subseteq Ids
  /\ held.rows \in [DOMAIN held.rows -> Received]
  /\ held.last \in 0 .. MaxId
  /\ held.more \in BOOLEAN
  /\ pass \in PassType
  /\ horizon \in 0 .. MaxTime
  /\ upsets \in Nat
  /\ witness \in [Ids -> {"matching", "outside", "gone"}]

\* A record is marked removed only when it was out of the pass's scope at some moment
\* of that pass: no order of polls, pages, changes, failures and restarts lets a
\* record that stayed in scope throughout be taken for a missing one (_reconcile,
\* _finish, received_since against present_ids).
RemovalJustified ==
  [][\A id \in Ids : id \in present /\ id \notin present' => witness[id] # "matching"]_vars

\* A full pass removes only what the source withdrew during it.
FullRemovalJustified ==
  [][\A id \in Ids : pass.kind = "full" /\ id \in present /\ id \notin present' =>
       witness[id] = "gone"]_vars

\* Once the source rests and requests succeed, the database comes to agree with it: what
\* is published is stored as published and present, what is not is not present.
Agrees(id) ==
  IF published[id] = Gone THEN id \notin present
  ELSE received[id] = published[id] /\ id \in present

Converges == <>[](\A id \in Ids : Agrees(id))

=============================================================================
