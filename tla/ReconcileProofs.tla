-------------------------- MODULE ReconcileProofs --------------------------
(***************************************************************************)
(* A reconciliation pass never takes a record that stayed in its scope for *)
(* a missing one, for every source, page size and sequence of changes,     *)
(* failures and restarts.  What makes the property inductive is that all   *)
(* the identifiers up to the pass's cursor that stayed in scope were seen. *)
(***************************************************************************)
EXTENDS Reconcile, TLAPS

\* A record that stayed in scope is published within it now, and a full pass has no
\* scope a published record could be outside of.
WitnessSound ==
  /\ pass.kind # "none" =>
       \A id \in Ids : witness[id] = "matching" =>
         published[id] # Gone /\ (pass.since = Null \/ published[id] >= pass.since)
  /\ pass.kind = "full" => pass.since = Null /\ \A id \in Ids : witness[id] # "outside"

\* What stayed in scope, up to a point the pass has passed, was seen.
SeenUpTo(c) == \A id \in Ids : id <= c /\ witness[id] = "matching" => id \in pass.seen

SeenSoFar ==
  /\ pass.kind # "none" => SeenUpTo(pass.cursor)
  /\ pc = "save" /\ ~held.more => SeenUpTo(pass.upper)
  /\ pc = "finish" => SeenUpTo(pass.upper)
  /\ pc \in {"save", "finish"} => pass.kind # "none"

IInv == TypeOK /\ WitnessSound /\ SeenSoFar

-----------------------------------------------------------------------------
(* Rounding a moment down never excludes what was received after it.       *)

LEMMA FloorBelow ==
  ASSUME ReconcileAssumption, NEW t \in Nat
  PROVE  FloorToSecond(t) \in Int /\ FloorToSecond(t) <= t
<1>1. Second \in Nat \ {0}
  BY DEF ReconcileAssumption
<1>2. t \div Second \in Int /\ t % Second \in 0 .. Second - 1 /\ t = Second * (t \div Second) + (t % Second)
  BY <1>1
<1>3. (t \div Second) * Second = Second * (t \div Second)
  BY <1>1, <1>2
<1> QED
  BY <1>1, <1>2, <1>3 DEF FloorToSecond

LEMMA FloorMatches ==
  ASSUME ReconcileAssumption, NEW since \in Received, NEW time \in Received,
         since = Null \/ time >= since
  PROVE  Matches(time, since)
BY FloorBelow DEF ReconcileAssumption, Matches, Received, Null

\* An accepted page holds what the source publishes in scope from the cursor to the
\* page's end, and to the upper bound when it claims no more.
LEMMA PageFacts ==
  ASSUME ReconcileAssumption, TypeOK,
         NEW cursor \in 0 .. MaxId, NEW upper \in 0 .. MaxId, NEW since \in Received,
         NEW p \in Pages(cursor, upper, since)
  PROVE  /\ DOMAIN p.rows \subseteq Ids
         /\ p.rows \in [DOMAIN p.rows -> Received]
         /\ p.last \in 0 .. MaxId
         /\ p.more \in BOOLEAN
         /\ \A id \in Matching(cursor, upper, since) : id <= p.last => id \in DOMAIN p.rows
         /\ p.last = cursor \/ p.last <= upper
         /\ ~p.more => Matching(cursor, upper, since) \subseteq DOMAIN p.rows
<1> DEFINE found == Matching(cursor, upper, since)
           upTo(last) == {id \in found : id <= last}
<1>1. PICK last \in found \cup {cursor}, more \in BOOLEAN :
        /\ p = [rows |-> [id \in upTo(last) |-> published[id]], last |-> last, more |-> more]
        /\ upTo(last) # found => more
  <2>1. PICK c \in (found \cup {cursor}) \X BOOLEAN :
          /\ p = [rows |-> [id \in upTo(c[1]) |-> published[id]], last |-> c[1], more |-> c[2]]
          /\ upTo(c[1]) # found => c[2]
    BY DEF Pages
  <2> QED
    BY <2>1
<1>2. found \subseteq {id \in Ids : cursor < id /\ id <= upper /\ published[id] # Gone}
  BY DEF Matching
<1>3. \A id \in found : published[id] \in Received
  BY <1>2 DEF TypeOK
<1> HIDE DEF found
<1>4. DOMAIN p.rows = upTo(last) /\ p.last = last /\ p.more = more
  BY <1>1
<1>5. p.rows \in [upTo(last) -> Received]
  BY <1>1, <1>3
<1>6. last \in 0 .. MaxId
  BY <1>2 DEF ReconcileAssumption, Ids
<1>7. \A id \in found : id \in Int
  BY <1>2 DEF Ids
<1> QED
  BY <1>1, <1>2, <1>4, <1>5, <1>6, <1>7 DEF found

-----------------------------------------------------------------------------
(* The invariant, step by step.                                            *)

LEMMA InitIInv == ReconcileAssumption /\ Init => IInv
BY DEF ReconcileAssumption, Init, IInv, TypeOK, WitnessSound, SeenSoFar, SeenUpTo, Ids, Received,
       Null, Gone, NoRows, NoPage, NoPass, PassType

LEMMA ChangeKeeps ==
  ASSUME ReconcileAssumption, IInv, NEW id \in Ids, NEW time \in Received \cup {Gone}, Change(id, time)
  PROVE  IInv'
<1> USE DEF IInv, Change, database
<1>1. TypeOK'
  BY DEF TypeOK, Worse, Standing
<1>2. WitnessSound'
  BY DEF TypeOK, WitnessSound, Worse, Standing
<1>3. SeenSoFar'
  BY DEF TypeOK, SeenSoFar, SeenUpTo, Worse, Standing
<1> QED
  BY <1>1, <1>2, <1>3

LEMMA QuietKeeps ==
  ASSUME ReconcileAssumption, IInv, Tick \/ NothingDue
  PROVE  IInv'
<1> USE DEF IInv, Tick, NothingDue, source, database
<1>1. TypeOK'
  BY DEF TypeOK, ReconcileAssumption
<1>2. WitnessSound'
  BY DEF WitnessSound
<1>3. SeenSoFar'
  BY DEF SeenSoFar, SeenUpTo
<1> QED
  BY <1>1, <1>2, <1>3

LEMMA PollAnswerKeeps ==
  ASSUME ReconcileAssumption, IInv, PollAnswer
  PROVE  IInv'
<1> USE DEF IInv, source, database
<1>1. held' \in Pages(live, MaxId, Null) /\ live \in 0 .. MaxId /\ MaxId \in 0 .. MaxId /\ Null \in Received
  BY DEF PollAnswer, TypeOK, ReconcileAssumption, Received
<1>2. TypeOK'
  BY <1>1, PageFacts DEF PollAnswer, TypeOK
<1>3. WitnessSound' /\ SeenSoFar'
  BY DEF PollAnswer, WitnessSound, SeenSoFar, SeenUpTo
<1> QED
  BY <1>2, <1>3

\* A page's transaction changes nothing a pass has seen or witnessed.
LEMMA UpsertTypes ==
  ASSUME TypeOK, Upsert(held.rows)
  PROVE  /\ received' \in [Ids -> Received \cup {Gone}]
         /\ present' \subseteq {id \in Ids : received'[id] # Gone}
<1>1. ASSUME NEW id \in Ids
      PROVE  received'[id] = IF id \in DOMAIN held.rows THEN held.rows[id] ELSE received[id]
  BY DEF Upsert
<1>2. \A id \in DOMAIN held.rows : held.rows[id] \in Received /\ held.rows[id] # Gone
  BY DEF TypeOK, Received, Gone, Null
<1>3. received' \in [Ids -> Received \cup {Gone}]
  BY <1>2 DEF Upsert, TypeOK
<1> QED
  BY <1>1, <1>2, <1>3 DEF Upsert, TypeOK

LEMMA PollCommitKeeps ==
  ASSUME ReconcileAssumption, IInv, PollCommit
  PROVE  IInv'
<1> USE DEF IInv, PollCommit, source
<1>1. TypeOK'
  BY UpsertTypes DEF TypeOK, NoPage, NoRows, ReconcileAssumption
<1>2. WitnessSound' /\ SeenSoFar'
  BY DEF WitnessSound, SeenSoFar, SeenUpTo
<1> QED
  BY <1>1, <1>2

LEMMA StartPassKeeps ==
  ASSUME ReconcileAssumption, IInv, NEW kind \in {"window", "full"}, StartPass(kind)
  PROVE  IInv'
<1> DEFINE since == IF kind = "window" THEN horizon ELSE Null
<1> USE DEF IInv, StartPass, source, database
<1>1. since \in Received
  BY DEF TypeOK, Received
<1>2. pass' = [kind |-> kind, upper |-> live, since |-> since, cursor |-> 0, seen |-> {}]
  OBVIOUS
<1>3. \A id \in Ids : witness'[id] = Standing(published[id], since)
  OBVIOUS
<1> HIDE DEF since
<1>4. TypeOK'
  BY <1>1, <1>2 DEF TypeOK, PassType, Standing, ReconcileAssumption
<1>5. WitnessSound'
  BY <1>1, <1>2, <1>3 DEF WitnessSound, Standing
<1>6. SeenSoFar'
  BY <1>2 DEF SeenSoFar, SeenUpTo, Ids
<1> QED
  BY <1>4, <1>5, <1>6

LEMMA PassAnswerKeeps ==
  ASSUME ReconcileAssumption, IInv, PassAnswer
  PROVE  IInv'
<1> USE DEF IInv, source, database
<1>1. /\ held' \in Pages(pass.cursor, pass.upper, pass.since)
      /\ pass.cursor \in 0 .. MaxId /\ pass.upper \in 0 .. MaxId /\ pass.since \in Received
      /\ pc = "walk" /\ pass.kind # "none" /\ pc' = "save"
      /\ pass' = [pass EXCEPT !.seen = @ \cup DOMAIN held'.rows, !.cursor = held'.last]
      /\ UNCHANGED <<source, database, horizon, upsets, witness>>
  BY DEF PassAnswer, TypeOK, PassType
<1>2. /\ DOMAIN held'.rows \subseteq Ids
      /\ held'.rows \in [DOMAIN held'.rows -> Received]
      /\ held'.last \in 0 .. MaxId
      /\ held'.more \in BOOLEAN
      /\ held'.last = pass.cursor \/ held'.last <= pass.upper
      /\ \A id \in Matching(pass.cursor, pass.upper, pass.since) :
           id <= held'.last => id \in DOMAIN held'.rows
      /\ ~held'.more => Matching(pass.cursor, pass.upper, pass.since) \subseteq DOMAIN held'.rows
  BY <1>1, PageFacts
<1>3. /\ pass'.kind = pass.kind /\ pass'.upper = pass.upper /\ pass'.since = pass.since
      /\ pass'.cursor = held'.last /\ pass'.seen = pass.seen \cup DOMAIN held'.rows
      /\ pass' \in PassType
  BY <1>1, <1>2 DEF TypeOK, PassType
<1>4. TypeOK'
  BY <1>1, <1>2, <1>3 DEF TypeOK
<1>5. WitnessSound'
  BY <1>1, <1>3 DEF WitnessSound
\* What stayed in scope is published in scope, so this page could not leave it out.
<1>6. ASSUME NEW id \in Ids, witness[id] = "matching", pass.cursor < id, id <= pass.upper
      PROVE  id \in Matching(pass.cursor, pass.upper, pass.since)
  <2>1. published[id] \in Received /\ (pass.since = Null \/ published[id] >= pass.since)
    BY <1>1, <1>6 DEF WitnessSound, TypeOK
  <2> QED
    BY <1>1, <1>6, <2>1, FloorMatches DEF Matching, Received, Null, Gone
<1>7. SeenUpTo(pass.cursor)
  BY <1>1 DEF SeenSoFar
<1>8. SeenUpTo(pass.cursor)'
  <2> SUFFICES ASSUME NEW id \in Ids, id <= held'.last, witness[id] = "matching"
               PROVE  id \in pass'.seen
    BY <1>1, <1>3 DEF SeenUpTo
  <2>1. CASE id <= pass.cursor
    BY <1>3, <1>7, <2>1 DEF SeenUpTo
  <2>2. CASE pass.cursor < id
    BY <1>1, <1>2, <1>3, <1>6, <2>2 DEF Ids
  <2> QED
    BY <1>1, <2>1, <2>2 DEF Ids
<1>9. ~held'.more => SeenUpTo(pass.upper)'
  <2> SUFFICES ASSUME ~held'.more, NEW id \in Ids, id <= pass.upper, witness[id] = "matching"
               PROVE  id \in pass'.seen
    BY <1>1, <1>3 DEF SeenUpTo
  <2>1. CASE id <= pass.cursor
    BY <1>3, <1>7, <2>1 DEF SeenUpTo
  <2>2. CASE pass.cursor < id
    BY <1>1, <1>2, <1>3, <1>6, <2>2 DEF Ids
  <2> QED
    BY <1>1, <2>1, <2>2 DEF Ids
<1>10. SeenSoFar'
  BY <1>1, <1>3, <1>8, <1>9 DEF SeenSoFar
<1> QED
  BY <1>4, <1>5, <1>10

LEMMA PassCommitKeeps ==
  ASSUME ReconcileAssumption, IInv, PassCommit
  PROVE  IInv'
<1> USE DEF IInv, PassCommit, source
<1>1. TypeOK'
  BY UpsertTypes DEF TypeOK, NoPage, NoRows, ReconcileAssumption
<1>2. WitnessSound' /\ SeenSoFar'
  BY DEF WitnessSound, SeenSoFar, SeenUpTo
<1> QED
  BY <1>1, <1>2

LEMMA DropPassKeeps ==
  ASSUME ReconcileAssumption, IInv, Finish \/ FailRequest \/ Crash
  PROVE  IInv'
<1> USE DEF IInv, Finish, FailRequest, Crash, source, database
<1>1. pass' = NoPass /\ pc' = "poll"
  OBVIOUS
<1>2. NoPass \in PassType
  BY DEF NoPass, PassType, Received, ReconcileAssumption
<1>3. TypeOK'
  <2>1. CASE Finish
    BY <1>1, <1>2, <2>1 DEF TypeOK
  <2>2. CASE FailRequest
    BY <1>1, <1>2, <2>2 DEF TypeOK
  <2>3. CASE Crash
    BY <1>1, <1>2, <2>3 DEF TypeOK, NoPage, NoRows, ReconcileAssumption
  <2> QED
    BY <2>1, <2>2, <2>3
<1>4. WitnessSound' /\ SeenSoFar'
  BY <1>1 DEF WitnessSound, SeenSoFar, NoPass
<1> QED
  BY <1>3, <1>4

LEMMA StepKeeps ==
  ASSUME ReconcileAssumption, IInv, [Next]_vars
  PROVE  IInv'
<1>1. CASE SourceMoves
  BY <1>1, ChangeKeeps DEF SourceMoves
<1>2. CASE WorkerStep
  BY <1>2, PollAnswerKeeps, PollCommitKeeps, QuietKeeps, StartPassKeeps, PassAnswerKeeps,
     PassCommitKeeps, DropPassKeeps DEF WorkerStep, StartWindow, StartFull
<1>3. CASE Tick \/ FailRequest \/ Crash
  BY <1>3, QuietKeeps, DropPassKeeps
<1>4. CASE UNCHANGED vars
  BY <1>4 DEF vars, source, database, IInv, TypeOK, WitnessSound, SeenSoFar, SeenUpTo
<1> QED
  BY <1>1, <1>2, <1>3, <1>4 DEF Next

-----------------------------------------------------------------------------
(* The theorems.                                                           *)

\* Throughout a pass, what stayed in its scope and lies behind its cursor has been seen.
THEOREM InductiveInvariant == SafeSpec => []IInv
<1>1. IInv /\ [Next]_vars => IInv'
  BY ReconcileAssumption, StepKeeps
<1>2. Init => IInv
  BY ReconcileAssumption, InitIInv
<1> QED
  BY <1>1, <1>2, PTL DEF SafeSpec

\* The rows, the pass and the page held keep their types (commit_page, mark_removed, _due_pass).
THEOREM TypeInvariant == SafeSpec => []TypeOK
BY InductiveInvariant, PTL DEF IInv

\* Only the end of a complete pass makes a record not present.
LEMMA RemovedByFinish ==
  ASSUME IInv, [Next]_vars, NEW id \in Ids, id \in present, id \notin present'
  PROVE  /\ pc = "finish" /\ pass.kind # "none"
         /\ id <= pass.upper /\ id \notin pass.seen
BY DEF IInv, SeenSoFar, Next, vars, source, database, SourceMoves, Change, Tick, WorkerStep, PollAnswer,
       PollCommit, NothingDue, StartWindow, StartFull, StartPass, PassAnswer, PassCommit, Finish,
       InScope, FailRequest, Crash, Upsert

\* A record that stayed in a pass's scope is never marked removed by it
\* (_reconcile and _finish, worker.py; present_ids and mark_removed, store.py).
THEOREM RemovalJustifiedHolds == SafeSpec => RemovalJustified
<1>1. ASSUME IInv, [Next]_vars
      PROVE  \A id \in Ids : id \in present /\ id \notin present' => witness[id] # "matching"
  <2> SUFFICES ASSUME NEW id \in Ids, id \in present, id \notin present', witness[id] = "matching"
               PROVE  FALSE
    OBVIOUS
  <2>1. pc = "finish" /\ id <= pass.upper /\ id \notin pass.seen
    BY <1>1, RemovedByFinish
  <2>2. SeenUpTo(pass.upper)
    BY <1>1, <2>1 DEF IInv, SeenSoFar
  <2> QED
    BY <2>1, <2>2 DEF SeenUpTo
<1> QED
  BY <1>1, InductiveInvariant, PTL DEF SafeSpec, RemovalJustified

\* What a full pass marks removed was withdrawn from the source during it
\* (_finish, worker.py).
THEOREM FullRemovalJustifiedHolds == SafeSpec => FullRemovalJustified
<1>1. ASSUME IInv, [Next]_vars
      PROVE  \A id \in Ids : pass.kind = "full" /\ id \in present /\ id \notin present' =>
               witness[id] = "gone"
  <2> SUFFICES ASSUME NEW id \in Ids, pass.kind = "full", id \in present, id \notin present'
               PROVE  witness[id] = "gone"
    OBVIOUS
  <2>1. pc = "finish" /\ id <= pass.upper /\ id \notin pass.seen
    BY <1>1, RemovedByFinish
  <2>2. witness[id] # "matching"
    BY <1>1, <2>1 DEF IInv, SeenSoFar, SeenUpTo
  <2> QED
    BY <1>1, <2>2 DEF IInv, WitnessSound, TypeOK
<1> QED
  BY <1>1, InductiveInvariant, PTL DEF SafeSpec, FullRemovalJustified

=============================================================================
