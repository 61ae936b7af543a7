--------------------------- MODULE LifecycleProofs ---------------------------
(***************************************************************************)
(* Theorems of Lifecycle, for every set of services, any number of changes *)
(* of the source and any number of failures and restarts.                  *)
(*                                                                         *)
(* The worker may hold on to a retired generation: it keeps the one it had *)
(* while a conflict of the next one lasts.  What saves the retired one is  *)
(* that the metadata is due then and that the next one has not completed,  *)
(* so the loop cannot get to work before it has taken the next one up.     *)
(***************************************************************************)
EXTENDS Lifecycle, SequenceTheorems, TLAPS

-----------------------------------------------------------------------------
(* The invariant.                                                          *)

States == {"STARTING", "BACKFILLING", "LIVE", "DEGRADED", "SCHEMA_INCOMPATIBLE"}

Fields == {"state", "detail", "since", "retry", "generation"}

Row(n) ==
  [state : States, detail : BOOLEAN, since : BOOLEAN, retry : BOOLEAN, generation : 0 .. n]

Generation ==
  [service : Services, boundary : 0 .. MaxId \cup {Unset}, complete : BOOLEAN,
   live : 0 .. MaxId, shape : {"none", "known", "unknown", "empty"}]

\* Where the loop works on gen, and where it works on using.
Working  == {"capture", "record", "backfill", "collect", "drain", "poll", "commit", "recovered"}
Checking == {"schema", "announce", "identify", "conflict"}
Resting  == {"down", "cycle", "metadata", "blocked", "failed", "pause"}

SourceTyped ==
  /\ service \in Services /\ dataset \in 0 .. MaxMoves /\ top \in 0 .. MaxId
  /\ fits \in BOOLEAN /\ spoiled \in BOOLEAN /\ moves \in 0 .. MaxMoves
  /\ dataset <= moves

GensTyped ==
  /\ gens \in Seq(Generation)
  /\ origins \in Seq(SUBSET (0 .. MaxMoves)) /\ Len(origins) = Len(gens)

LoopTyped ==
  /\ pc \in Working \cup Checking \cup Resting
  /\ gen \in 0 .. Len(gens) /\ using \in 0 .. Len(gens) /\ checked \in BOOLEAN
  /\ held \in [fits : BOOLEAN, top : 0 .. MaxId, from : 0 .. MaxMoves]
  /\ upsets \in 0 .. MaxUpsets
  /\ blocked \in BOOLEAN

Typed == SourceTyped /\ GensTyped /\ LoopTyped /\ status \in Row(Len(gens))

\* A process that is down has forgotten everything.
Down == pc = "down" => gen = 0 /\ ~checked

\* What is worked on, or checked, is the active generation, with a boundary if its pages
\* are collected.
AtWork ==
  /\ pc \in Working => gen = Active /\ gen # 0
  /\ pc \in Checking => using = Active /\ using # 0
  /\ pc = "identify" => gens[using].complete
  /\ pc \in {"backfill", "collect", "drain"} => gens[gen].boundary # Unset

\* A generation kept beyond its retirement: its successor is about to be taken up or has
\* met a conflict, and the metadata is due before any work.
Outlived ==
  gen # 0 /\ gen # Active =>
    /\ ~gens[Active].complete
    /\ pc \notin Working
    /\ checked => pc \in {"schema", "announce", "conflict"}

\* From a conflict to a compatible schema the metadata is due, unless the next conflict
\* has been met already.
Due == blocked => (checked => pc = "conflict") /\ pc \notin Working \cup {"identify"}

Control == Down /\ AtWork /\ Outlived /\ Due

PageOf(n) == [gen : 1 .. n, from : 0 .. MaxMoves]

\* Pages are held for the generation at work, and only while it is backfilled.
Held ==
  /\ pages \cup orphans \subseteq PageOf(Len(gens))
  /\ \A p \in pages : pc \in {"collect", "drain"} /\ p.gen = gen

IInv == Typed /\ Control /\ Held /\ LiveIsClean

-----------------------------------------------------------------------------
(* Rows and sequences.                                                     *)

\* A write of the status row changes the fields it names and no other.
LEMMA AnnounceRow ==
  ASSUME NEW n \in Nat, status \in Row(n), NEW changes, Announce(changes),
         DOMAIN changes \subseteq Fields,
         "state" \in DOMAIN changes => changes.state \in States,
         \A f \in DOMAIN changes \cap {"detail", "since", "retry"} : changes[f] \in BOOLEAN,
         "generation" \in DOMAIN changes => changes.generation \in 0 .. n
  PROVE  /\ status' \in Row(n)
         /\ \A f \in DOMAIN changes : status'[f] = changes[f]
         /\ \A f \in Fields \ DOMAIN changes : status'[f] = status[f]
BY DEF Announce, Row, Fields

\* An entry is replaced, or one is added, and the others stay.
LEMMA EntryReplaced ==
  ASSUME NEW S, NEW s \in Seq(S), NEW i \in 1 .. Len(s), NEW x \in S
  PROVE  /\ [s EXCEPT ![i] = x] \in Seq(S)
         /\ Len([s EXCEPT ![i] = x]) = Len(s)
         /\ \A j \in 1 .. Len(s) : [s EXCEPT ![i] = x][j] = IF j = i THEN x ELSE s[j]
BY ExceptSeq

LEMMA EntryAdded ==
  ASSUME NEW S, NEW s \in Seq(S), NEW x \in S
  PROVE  /\ Append(s, x) \in Seq(S)
         /\ Len(Append(s, x)) = Len(s) + 1
         /\ \A j \in 1 .. Len(s) : Append(s, x)[j] = s[j]
         /\ Append(s, x)[Len(s) + 1] = x
BY AppendProperties

LEMMA NewGenerationTyped ==
  ASSUME NEW s \in Services PROVE NewGeneration(s) \in Generation
BY LifecycleAssumption DEF NewGeneration, Generation

-----------------------------------------------------------------------------
(* What each step writes to the database.                                  *)

\* Every write to the status row keeps its type and leaves LIVE clean.
LEMMA StatusWritten ==
  ASSUME IInv, [Next]_vars
  PROVE  status' \in Row(Len(gens)) /\ LiveIsClean'
<1> Len(gens) \in Nat
  BY DEF IInv, Typed, GensTyped
<1> USE DEF IInv, Typed, States
<1>1. CASE Start
  BY <1>1, AnnounceRow DEF Start, LiveIsClean, Fields
<1>2. CASE SourceChecked
  <2>1. using \in 0 .. Len(gens)
    BY DEF LoopTyped
  <2> QED
    BY <1>2, <2>1, AnnounceRow DEF SourceChecked, LiveIsClean, Fields
<1>3. CASE AnnounceBackfill
  <2> DEFINE changes == [state |-> "BACKFILLING", detail |-> TRUE]
  <2>1. Announce(changes)
    BY <1>3 DEF AnnounceBackfill
  <2>2. /\ DOMAIN changes = {"state", "detail"}
        /\ changes.state = "BACKFILLING" /\ changes.detail = TRUE
    OBVIOUS
  <2> HIDE DEF changes
  <2>3. /\ DOMAIN changes \subseteq Fields /\ "generation" \notin DOMAIN changes
        /\ "state" \in DOMAIN changes => changes.state \in States
        /\ \A f \in DOMAIN changes \cap {"detail", "since", "retry"} : changes[f] \in BOOLEAN
    BY <2>2 DEF Fields
  <2>4. status' \in Row(Len(gens)) /\ \A f \in DOMAIN changes : status'[f] = changes[f]
    BY <2>1, <2>3, AnnounceRow
  <2> QED
    BY <2>2, <2>4 DEF LiveIsClean
<1>4. CASE Recovered
  <2> DEFINE changes == [state |-> "LIVE", detail |-> FALSE, since |-> FALSE, retry |-> FALSE]
  <2>1. Announce(changes)
    BY <1>4 DEF Recovered
  <2>2. /\ DOMAIN changes = {"state", "detail", "since", "retry"}
        /\ changes.state = "LIVE" /\ changes.detail = FALSE
        /\ changes.since = FALSE /\ changes.retry = FALSE
    OBVIOUS
  <2> HIDE DEF changes
  <2>3. /\ DOMAIN changes \subseteq Fields /\ "generation" \notin DOMAIN changes
        /\ "state" \in DOMAIN changes => changes.state \in States
        /\ \A f \in DOMAIN changes \cap {"detail", "since", "retry"} : changes[f] \in BOOLEAN
    BY <2>2 DEF Fields
  <2>4. status' \in Row(Len(gens)) /\ \A f \in DOMAIN changes : status'[f] = changes[f]
    BY <2>1, <2>3, AnnounceRow
  <2> QED
    BY <2>2, <2>4 DEF LiveIsClean
<1>5. CASE AnnounceBlock
  <2> DEFINE changes == [state |-> "SCHEMA_INCOMPATIBLE", detail |-> TRUE]
  <2>1. Announce(changes)
    BY <1>5 DEF AnnounceBlock
  <2>2. /\ DOMAIN changes = {"state", "detail"}
        /\ changes.state = "SCHEMA_INCOMPATIBLE" /\ changes.detail = TRUE
    OBVIOUS
  <2> HIDE DEF changes
  <2>3. /\ DOMAIN changes \subseteq Fields /\ "generation" \notin DOMAIN changes
        /\ "state" \in DOMAIN changes => changes.state \in States
        /\ \A f \in DOMAIN changes \cap {"detail", "since", "retry"} : changes[f] \in BOOLEAN
    BY <2>2 DEF Fields
  <2>4. status' \in Row(Len(gens)) /\ \A f \in DOMAIN changes : status'[f] = changes[f]
    BY <2>1, <2>3, AnnounceRow
  <2> QED
    BY <2>2, <2>4 DEF LiveIsClean
<1>6. CASE Degrade
  <2> DEFINE changes == [state |-> "DEGRADED", detail |-> TRUE, since |-> TRUE, retry |-> TRUE]
  <2>1. Announce(changes)
    BY <1>6 DEF Degrade
  <2>2. /\ DOMAIN changes = {"state", "detail", "since", "retry"}
        /\ changes.state = "DEGRADED" /\ changes.detail = TRUE
        /\ changes.since = TRUE /\ changes.retry = TRUE
    OBVIOUS
  <2> HIDE DEF changes
  <2>3. /\ DOMAIN changes \subseteq Fields /\ "generation" \notin DOMAIN changes
        /\ "state" \in DOMAIN changes => changes.state \in States
        /\ \A f \in DOMAIN changes \cap {"detail", "since", "retry"} : changes[f] \in BOOLEAN
    BY <2>2 DEF Fields
  <2>4. status' \in Row(Len(gens)) /\ \A f \in DOMAIN changes : status'[f] = changes[f]
    BY <2>1, <2>3, AnnounceRow
  <2> QED
    BY <2>2, <2>4 DEF LiveIsClean
<1>7. CASE UNCHANGED status
  BY <1>7 DEF LiveIsClean
<1> QED
  BY <1>1, <1>2, <1>3, <1>4, <1>5, <1>6, <1>7
     DEF Next, WorkerStep, vars, database, SourceMoves, CheckSource, Continue, MetadataAnswer,
         RecordSchema, IdentifyAnswer, CaptureAnswer, RecordBoundary, FetchPage,
         CommitPage, OrphanCommit, LastPage, CompleteBackfill, PollAnswer, PollCommit, BadRows, Block, FailRequest, EndPause, Crash

\* A step may leave the generations, rewrite one of them, or start another.
LEMMA GensRewritten ==
  ASSUME GensTyped, NEW i \in 1 .. Len(gens), NEW g \in Generation, gens' = [gens EXCEPT ![i] = g]
  PROVE  /\ gens' \in Seq(Generation) /\ Len(gens') = Len(gens)
         /\ gens'[i] = g
         /\ \A j \in 1 .. Len(gens) : j # i => gens'[j] = gens[j]
BY EntryReplaced DEF GensTyped

LEMMA OriginsRewritten ==
  ASSUME GensTyped, NEW i \in 1 .. Len(gens), NEW d \in 0 .. MaxMoves,
         origins' = [origins EXCEPT ![i] = @ \cup {d}]
  PROVE  /\ origins' \in Seq(SUBSET (0 .. MaxMoves)) /\ Len(origins') = Len(origins)
         /\ \A j \in 1 .. Len(gens) : j # i => origins'[j] = origins[j]
<1> DEFINE ds == origins[i] \cup {d}
<1>1. i \in 1 .. Len(origins) /\ ds \in SUBSET (0 .. MaxMoves)
  BY DEF GensTyped
<1>2. origins' = [origins EXCEPT ![i] = ds]
  OBVIOUS
<1> HIDE DEF ds
<1> QED
  BY <1>1, <1>2, EntryReplaced DEF GensTyped

LEMMA GenerationStarted ==
  ASSUME GensTyped, NEW s \in Services, StartGeneration(s)
  PROVE  /\ GensTyped' /\ Len(gens') = Len(gens) + 1
         /\ gens'[Len(gens) + 1] = NewGeneration(s)
         /\ \A j \in 1 .. Len(gens) : gens'[j] = gens[j] /\ origins'[j] = origins[j]
<1>1. NewGeneration(s) \in Generation
  BY NewGenerationTyped
<1>2. /\ Append(gens, NewGeneration(s)) \in Seq(Generation)
      /\ Append(origins, {}) \in Seq(SUBSET (0 .. MaxMoves))
  BY <1>1, EntryAdded DEF GensTyped
<1> QED
  BY <1>1, <1>2, EntryAdded DEF GensTyped, StartGeneration

-----------------------------------------------------------------------------
(* Each step.                                                              *)

\* Only the active generation is written to, but for orphans, and none is lost.
Keeps ==
  /\ Len(gens) <= Len(gens')
  /\ \A g \in 1 .. Len(gens) - 1 : gens'[g] = gens[g] /\ origins'[g] = origins[g]

\* Nothing is collected between a conflict and a compatible schema, but for orphans.
Uncollected == blocked => \A g \in 1 .. Len(gens) : origins'[g] = origins[g]

StepOK == GensTyped' /\ LoopTyped' /\ Control' /\ Keeps /\ Uncollected

\* Where the loop goes on to with a generation.
LEMMA WorkOf ==
  ASSUME NEW g
  PROVE  /\ Work(g) \in {"capture", "backfill", "poll"}
         /\ Work(g) = "backfill" => g.boundary # Unset
BY DEF Work

\* The source's own steps.
LEMMA SourceKeeps ==
  ASSUME IInv, [Next]_vars
  PROVE  SourceTyped' /\ (SourceMoves => UNCHANGED <<database, process, upsets, history>>)
<1> USE LifecycleAssumption DEF IInv, Typed, SourceTyped
<1>1. CASE SourceMoves
  <2>1. moves' \in 0 .. MaxMoves /\ moves' = moves + 1
    BY <1>1 DEF SourceMoves
  <2>2. CASE service' \in Services /\ dataset' = dataset + 1 /\ top' \in 0 .. MaxId
             /\ fits' \in BOOLEAN /\ spoiled' \in BOOLEAN
    BY <1>1, <2>1, <2>2 DEF SourceMoves
  <2>3. CASE top' \in 0 .. MaxId /\ UNCHANGED <<service, dataset, fits, spoiled>>
    BY <1>1, <2>1, <2>3 DEF SourceMoves
  <2>4. CASE fits' \in BOOLEAN /\ spoiled' \in BOOLEAN /\ UNCHANGED <<service, dataset, top>>
    BY <1>1, <2>1, <2>4 DEF SourceMoves
  <2> QED
    BY <1>1, <2>2, <2>3, <2>4 DEF SourceMoves
<1>2. CASE UNCHANGED source
  BY <1>2 DEF source, SourceMoves
<1> QED
  BY <1>1, <1>2
     DEF Next, WorkerStep, vars, Start, CheckSource, Continue, MetadataAnswer, RecordSchema,
         SourceChecked, IdentifyAnswer, CaptureAnswer, RecordBoundary, AnnounceBackfill,
         FetchPage, CommitPage, OrphanCommit, LastPage, CompleteBackfill, PollAnswer,
         PollCommit, Recovered, BadRows, Block,
         AnnounceBlock, Degrade, EndPause, FailRequest, Crash

\* An answer held is typed.
LEMMA HeldTyped ==
  /\ NoAnswer \in [fits : BOOLEAN, top : 0 .. MaxId, from : 0 .. MaxMoves]
  /\ \A f \in BOOLEAN :
       [NoAnswer EXCEPT !.fits = f] \in [fits : BOOLEAN, top : 0 .. MaxId, from : 0 .. MaxMoves]
  /\ \A t \in 0 .. MaxId, d \in 0 .. MaxMoves :
       /\ [NoAnswer EXCEPT !.top = t] \in [fits : BOOLEAN, top : 0 .. MaxId, from : 0 .. MaxMoves]
       /\ [NoAnswer EXCEPT !.top = t, !.from = d]
            \in [fits : BOOLEAN, top : 0 .. MaxId, from : 0 .. MaxMoves]
<1> 0 \in 0 .. MaxId /\ 0 \in 0 .. MaxMoves
  BY LifecycleAssumption
<1> QED
  BY DEF NoAnswer

\* Steps that leave the generations alone.
LEMMA LoopKeeps ==
  ASSUME IInv, UNCHANGED <<gens, origins>>,
         \/ Start \/ CheckSource \/ Continue \/ AnnounceBackfill \/ CaptureAnswer \/ FetchPage
         \/ LastPage \/ PollAnswer \/ Recovered \/ BadRows \/ AnnounceBlock \/ Degrade \/ EndPause \/ FailRequest \/ Crash
         \/ UNCHANGED <<pc, gen, checked, using, held, upsets, blocked>>
  PROVE  StepOK
<1> USE DEF IInv, Typed, Active, LoopTyped, Working, Checking, Resting, loop, history
<1>1. GensTyped' /\ Keeps /\ Uncollected
  BY DEF GensTyped, Keeps, Uncollected
<1>2. held' \in [fits : BOOLEAN, top : 0 .. MaxId, from : 0 .. MaxMoves]
  <2>1. \/ held' \in {held, NoAnswer, [NoAnswer EXCEPT !.top = top]}
        \/ held' = [NoAnswer EXCEPT !.top = top, !.from = dataset]
    BY DEF Start, CheckSource, Continue, AnnounceBackfill, CaptureAnswer, FetchPage, LastPage,
           PollAnswer, Recovered, BadRows, AnnounceBlock, Degrade, EndPause, FailRequest, Crash
  <2>2. /\ top \in 0 .. MaxId /\ dataset \in 0 .. MaxMoves
        /\ held \in [fits : BOOLEAN, top : 0 .. MaxId, from : 0 .. MaxMoves]
    BY DEF SourceTyped
  <2> HIDE DEF IInv, Typed, LoopTyped
  <2> QED
    BY <2>1, <2>2, HeldTyped
<1>3. upsets' \in 0 .. MaxUpsets
  BY LifecycleAssumption
     DEF Start, CheckSource, Continue, AnnounceBackfill, CaptureAnswer, FetchPage, LastPage,
         PollAnswer, Recovered, BadRows, AnnounceBlock, Degrade, EndPause, FailRequest, Crash
<1>4. 0 \in 0 .. Len(gens)
  BY DEF GensTyped
<1> USE DEF Control, Down, AtWork, Outlived, Due
<1>5. CASE Start
  BY <1>1, <1>2, <1>3, <1>4, <1>5 DEF Start, StepOK
<1>6. CASE CheckSource
  BY <1>1, <1>2, <1>3, <1>4, <1>6 DEF CheckSource, StepOK
<1>7. CASE Continue
  BY <1>1, <1>2, <1>3, <1>4, <1>7, WorkOf DEF Continue, StepOK
<1>8. CASE AnnounceBackfill
  BY <1>1, <1>2, <1>3, <1>4, <1>8 DEF AnnounceBackfill, StepOK
<1>9. CASE CaptureAnswer
  BY <1>1, <1>2, <1>3, <1>4, <1>9 DEF CaptureAnswer, StepOK
<1>10. CASE PollAnswer
  BY <1>1, <1>2, <1>3, <1>4, <1>10 DEF PollAnswer, StepOK
<1>11. CASE Recovered
  BY <1>1, <1>2, <1>3, <1>4, <1>11 DEF Recovered, StepOK
<1>12. CASE BadRows
  BY <1>1, <1>2, <1>3, <1>4, <1>12 DEF BadRows, StepOK
<1>13. CASE AnnounceBlock
  BY <1>1, <1>2, <1>3, <1>4, <1>13 DEF AnnounceBlock, StepOK
<1>14. CASE Degrade
  BY <1>1, <1>2, <1>3, <1>4, <1>14 DEF Degrade, StepOK
<1>15. CASE EndPause
  BY <1>1, <1>2, <1>3, <1>4, <1>15 DEF EndPause, StepOK
<1>16. CASE FailRequest
  BY <1>1, <1>2, <1>3, <1>4, <1>16 DEF FailRequest, StepOK
<1>17. CASE Crash
  BY <1>1, <1>2, <1>3, <1>4, <1>17 DEF Crash, StepOK
<1>18. CASE UNCHANGED <<pc, gen, checked, using, held, upsets, blocked>>
  BY <1>1, <1>18 DEF StepOK
<1>19. CASE FetchPage
  BY <1>1, <1>2, <1>3, <1>4, <1>19 DEF FetchPage, StepOK
<1>20. CASE LastPage
  BY <1>1, <1>2, <1>3, <1>4, <1>20 DEF LastPage, StepOK
<1> QED
  BY <1>5, <1>6, <1>7, <1>8, <1>9, <1>10, <1>11, <1>12, <1>13,
     <1>14, <1>15, <1>16, <1>17, <1>18, <1>19, <1>20

\* Steps that write to the generations.
LEMMA MetadataKeeps ==
  ASSUME IInv, MetadataAnswer PROVE StepOK
<1> USE DEF IInv, Typed, Active
<1>1. held' \in [fits : BOOLEAN, top : 0 .. MaxId, from : 0 .. MaxMoves]
  BY HeldTyped DEF MetadataAnswer, SourceTyped
<1>2. CASE gens # <<>> /\ UNCHANGED <<gens, origins>>
  <2>1. Len(gens) \in Nat \ {0}
    BY <1>2, EmptySeq DEF GensTyped
  <2>2. GensTyped' /\ Keeps /\ Uncollected
    BY <1>2 DEF GensTyped, Keeps, Uncollected
  <2>3. LoopTyped'
    BY <1>1, <1>2, <2>1 DEF MetadataAnswer, LoopTyped, Checking
  <2>4. Control'
    BY <1>2, <2>1 DEF MetadataAnswer, Control, Down, AtWork, Outlived, Due, LoopTyped,
                      Working, Checking
  <2> QED
    BY <2>2, <2>3, <2>4 DEF StepOK
<1>3. CASE StartGeneration(service)
  <2>1. /\ GensTyped' /\ Len(gens') = Len(gens) + 1
        /\ gens'[Len(gens) + 1] = NewGeneration(service)
        /\ \A j \in 1 .. Len(gens) : gens'[j] = gens[j] /\ origins'[j] = origins[j]
    BY <1>3, GenerationStarted DEF SourceTyped
  <2>2. Len(gens) \in Nat
    BY DEF GensTyped
  <2>3. Keeps /\ Uncollected
    BY <2>1, <2>2 DEF Keeps, Uncollected
  <2>4. LoopTyped'
    BY <1>1, <2>1, <2>2 DEF MetadataAnswer, LoopTyped, Checking
  <2>5. ~gens'[Len(gens')].complete
    BY <2>1 DEF NewGeneration
  <2>6. Control'
    BY <2>1, <2>2, <2>5
       DEF MetadataAnswer, Control, Down, AtWork, Outlived, Due, Working, Checking
  <2> QED
    BY <2>1, <2>3, <2>4, <2>6 DEF StepOK
<1> QED
  BY <1>2, <1>3 DEF MetadataAnswer

LEMMA SchemaKeeps ==
  ASSUME IInv, RecordSchema PROVE StepOK
<1> USE DEF IInv, Typed, Active
<1>1. using \in 1 .. Len(gens) /\ using = Len(gens) /\ Len(gens) \in Nat
  BY DEF RecordSchema, LoopTyped, GensTyped, Control, AtWork, Checking
<1> DEFINE g == Snapshot(gens[using], IF held.fits THEN "known" ELSE "unknown")
<1>2. g \in Generation /\ g.complete = gens[using].complete
  <2>1. gens[using] \in Generation
    BY <1>1 DEF GensTyped
  <2> QED
    BY <2>1 DEF Snapshot, Generation
<1>3. gens' = [gens EXCEPT ![using] = g] /\ UNCHANGED origins
  BY DEF RecordSchema, history
<1> HIDE DEF g
<1>4. /\ gens' \in Seq(Generation) /\ Len(gens') = Len(gens)
      /\ gens'[using] = g
      /\ \A j \in 1 .. Len(gens) : j # using => gens'[j] = gens[j]
  BY <1>1, <1>2, <1>3, GensRewritten
<1>5. GensTyped' /\ Keeps /\ Uncollected
  BY <1>1, <1>3, <1>4 DEF GensTyped, Keeps, Uncollected
<1>6. LoopTyped'
  BY <1>4 DEF RecordSchema, LoopTyped, Checking, history
<1>7. Control'
  BY <1>1, <1>2, <1>4
     DEF RecordSchema, history, Control, Down, AtWork, Outlived, Due, Working, Checking
<1> QED
  BY <1>5, <1>6, <1>7 DEF StepOK

LEMMA CheckedKeeps ==
  ASSUME IInv, SourceChecked PROVE StepOK
<1> USE DEF IInv, Typed, Active
<1>1. using \in 1 .. Len(gens) /\ using = Len(gens) /\ Len(gens) \in Nat
  BY DEF SourceChecked, LoopTyped, GensTyped, Control, AtWork, Checking
<1>2. held' \in [fits : BOOLEAN, top : 0 .. MaxId, from : 0 .. MaxMoves]
  BY HeldTyped DEF SourceChecked
<1>3. held.fits \in BOOLEAN /\ UNCHANGED <<gens, origins, upsets>>
  BY DEF SourceChecked, LoopTyped
<1>4. GensTyped' /\ Keeps /\ Uncollected
  BY <1>3 DEF GensTyped, Keeps, Uncollected
<1>5. CASE held.fits /\ ~gens[using].complete
  <2>1. gen' = using /\ using' = 0 /\ pc' = Work(gens[using]) /\ checked' = TRUE /\ ~blocked'
    BY <1>5 DEF SourceChecked
  <2>2. /\ pc' \in {"capture", "backfill", "poll"}
        /\ pc' = "backfill" => gens[using].boundary # Unset
    BY <2>1, WorkOf
  <2>3. LoopTyped'
    BY <1>1, <1>2, <1>3, <2>1, <2>2 DEF SourceChecked, LoopTyped, Working
  <2>4. Control'
    BY <1>1, <1>3, <2>1, <2>2 DEF Control, Down, AtWork, Outlived, Due, Working, Checking
  <2> QED
    BY <1>4, <2>3, <2>4 DEF StepOK
<1>6. CASE held.fits /\ gens[using].complete
  <2>1. /\ UNCHANGED <<gen, using>> /\ pc' = "identify" /\ checked' = TRUE /\ ~blocked'
        /\ ~(gen # 0 /\ gen # Len(gens))
    BY <1>1, <1>6 DEF SourceChecked, Control, Outlived
  <2>3. LoopTyped'
    BY <1>1, <1>2, <1>3, <2>1 DEF SourceChecked, LoopTyped, Checking
  <2>4. Control'
    BY <1>1, <1>3, <1>6, <2>1 DEF Control, Down, AtWork, Outlived, Due, Working, Checking
  <2> QED
    BY <1>4, <2>3, <2>4 DEF StepOK
<1>7. CASE ~held.fits
  <2>1. /\ UNCHANGED <<gen, using>> /\ pc' = "conflict" /\ checked' = TRUE
        /\ blocked' \in BOOLEAN
    BY <1>7 DEF SourceChecked
  <2>3. LoopTyped'
    BY <1>1, <1>2, <1>3, <2>1 DEF SourceChecked, LoopTyped, Checking
  <2>4. Control'
    BY <1>1, <1>3, <2>1 DEF SourceChecked, Control, Down, AtWork, Outlived, Due, Working, Checking
  <2> QED
    BY <1>4, <2>3, <2>4 DEF StepOK
<1> QED
  BY <1>3, <1>5, <1>6, <1>7, <1>1 DEF GensTyped, Generation

LEMMA IdentifyKeeps ==
  ASSUME IInv, IdentifyAnswer PROVE StepOK
<1> USE DEF IInv, Typed, Active
<1>1. /\ using \in 1 .. Len(gens) /\ using = Len(gens) /\ Len(gens) \in Nat
      /\ ~blocked
  BY DEF IdentifyAnswer, LoopTyped, GensTyped, Control, AtWork, Due, Checking
<1>2. CASE gen' = using /\ UNCHANGED <<gens, origins>>
  <2>1. GensTyped' /\ Keeps /\ Uncollected
    BY <1>2 DEF GensTyped, Keeps, Uncollected
  <2>2. pc' \in {"capture", "backfill", "poll"}
        /\ (pc' = "backfill" => gens'[gen'].boundary # Unset)
    BY WorkOf DEF IdentifyAnswer
  <2>3. LoopTyped'
    BY <1>1, <1>2, <2>2 DEF IdentifyAnswer, LoopTyped, Working
  <2>4. Control'
    BY <1>1, <1>2, <2>2
       DEF IdentifyAnswer, Control, Down, AtWork, Outlived, Due, Working, Checking
  <2> QED
    BY <2>1, <2>3, <2>4 DEF StepOK
<1>3. CASE gen' = Active + 1 /\ StartGeneration(gens[using].service)
  <2>0. gens[using] \in Generation /\ gens[using].service \in Services
    <3>1. gens[using] \in Generation
      BY <1>1 DEF GensTyped
    <3> QED
      BY <3>1 DEF Generation
  <2>1. /\ GensTyped' /\ Len(gens') = Len(gens) + 1
        /\ \A j \in 1 .. Len(gens) : gens'[j] = gens[j] /\ origins'[j] = origins[j]
    BY <1>3, <2>0, GenerationStarted
  <2>2. Keeps /\ Uncollected
    BY <1>1, <2>1 DEF Keeps, Uncollected
  <2>3. pc' \in {"capture", "backfill", "poll"}
        /\ (pc' = "backfill" => gens'[gen'].boundary # Unset)
    BY WorkOf DEF IdentifyAnswer
  <2>4. LoopTyped'
    BY <1>1, <1>3, <2>1, <2>3 DEF IdentifyAnswer, LoopTyped, Working
  <2>5. Control'
    BY <1>1, <1>3, <2>1, <2>3
       DEF IdentifyAnswer, Control, Down, AtWork, Outlived, Due, Working, Checking
  <2> QED
    BY <2>1, <2>2, <2>4, <2>5 DEF StepOK
<1> QED
  BY <1>2, <1>3 DEF IdentifyAnswer

\* What a step that works on gen may rely on.
LEMMA WorkingOn ==
  ASSUME IInv, pc \in Working
  PROVE  /\ gen \in 1 .. Len(gens) /\ gen = Len(gens) /\ Len(gens) \in Nat
         /\ gens[gen] \in Generation
         /\ ~blocked
BY DEF IInv, Typed, LoopTyped, GensTyped, Control, AtWork, Due, Active

LEMMA BoundaryKeeps ==
  ASSUME IInv, RecordBoundary PROVE StepOK
<1>1. /\ gen \in 1 .. Len(gens) /\ gen = Len(gens) /\ Len(gens) \in Nat
      /\ gens[gen] \in Generation /\ ~blocked
  BY WorkingOn DEF RecordBoundary, Working
<1> USE DEF IInv, Typed, Active
<1> DEFINE b == IF gens[gen].boundary = Unset THEN held.top ELSE gens[gen].boundary
           g == [gens[gen] EXCEPT !.boundary = b]
<1>2. b \in 0 .. MaxId /\ b # Unset
  BY <1>1 DEF LoopTyped, Generation, Unset
<1>3. g \in Generation /\ g.boundary # Unset
  BY <1>1, <1>2 DEF Generation
<1>4. gens' = [gens EXCEPT ![gen] = g] /\ UNCHANGED origins
  BY DEF RecordBoundary, history
<1>5. held' \in [fits : BOOLEAN, top : 0 .. MaxId, from : 0 .. MaxMoves]
  BY HeldTyped DEF RecordBoundary
<1> HIDE DEF g, b
<1>6. /\ gens' \in Seq(Generation) /\ Len(gens') = Len(gens)
      /\ gens'[gen] = g
      /\ \A j \in 1 .. Len(gens) : j # gen => gens'[j] = gens[j]
  BY <1>1, <1>3, <1>4, GensRewritten
<1>7. GensTyped' /\ Keeps /\ Uncollected
  BY <1>1, <1>4, <1>6 DEF GensTyped, Keeps, Uncollected
<1>8. LoopTyped'
  BY <1>5, <1>6 DEF RecordBoundary, LoopTyped, Working, history
<1>9. Control'
  BY <1>1, <1>3, <1>6
     DEF RecordBoundary, history, Control, Down, AtWork, Outlived, Due, Working, Checking
<1> QED
  BY <1>7, <1>8, <1>9 DEF StepOK

LEMMA PageKeeps ==
  ASSUME IInv, CommitPage PROVE StepOK
<1>1. /\ gen \in 1 .. Len(gens) /\ gen = Len(gens) /\ Len(gens) \in Nat /\ ~blocked
  BY WorkingOn DEF CommitPage, Working
<1> USE DEF IInv, Typed, Active
<1>2. PICK p \in pages : Stored(p)
  BY DEF CommitPage
<1>3. p.gen = gen /\ p.from \in 0 .. MaxMoves
  BY DEF Held, PageOf
<1>4. /\ UNCHANGED <<gens, pc, gen, checked, using, held, upsets, blocked>>
      /\ origins' = [origins EXCEPT ![gen] = @ \cup {p.from}]
  BY <1>2, <1>3 DEF CommitPage, Stored, database, loop
<1>5. /\ origins' \in Seq(SUBSET (0 .. MaxMoves)) /\ Len(origins') = Len(origins)
      /\ \A j \in 1 .. Len(gens) : j # gen => origins'[j] = origins[j]
  BY <1>1, <1>3, <1>4, OriginsRewritten
<1>6. GensTyped' /\ Keeps /\ Uncollected
  BY <1>1, <1>4, <1>5 DEF GensTyped, Keeps, Uncollected
<1>7. LoopTyped'
  BY <1>4 DEF LoopTyped
<1>8. Control'
  BY <1>4 DEF Control, Down, AtWork, Outlived, Due
<1> QED
  BY <1>6, <1>7, <1>8 DEF StepOK

LEMMA CompleteKeeps ==
  ASSUME IInv, CompleteBackfill PROVE StepOK
<1>1. /\ gen \in 1 .. Len(gens) /\ gen = Len(gens) /\ Len(gens) \in Nat
      /\ gens[gen] \in Generation /\ ~blocked
  BY WorkingOn DEF CompleteBackfill, Working
<1> USE DEF IInv, Typed, Active
<1> DEFINE g == [gens[gen] EXCEPT !.complete = TRUE, !.live = gens[gen].boundary]
<1>2. gens[gen].boundary \in 0 .. MaxId
  BY <1>1 DEF CompleteBackfill, Control, AtWork, Generation
<1>3. g \in Generation
  BY <1>1, <1>2 DEF Generation
<1>4. gens' = [gens EXCEPT ![gen] = g] /\ UNCHANGED origins
  BY <1>1 DEF CompleteBackfill, history, GensTyped
<1> HIDE DEF g
<1>6. /\ gens' \in Seq(Generation) /\ Len(gens') = Len(gens)
      /\ gens'[gen] = g
      /\ \A j \in 1 .. Len(gens) : j # gen => gens'[j] = gens[j]
  BY <1>1, <1>3, <1>4, GensRewritten
<1>7. GensTyped' /\ Keeps /\ Uncollected
  BY <1>1, <1>4, <1>6 DEF GensTyped, Keeps, Uncollected
<1>8. LoopTyped'
  BY <1>6 DEF CompleteBackfill, LoopTyped, Working, history
<1>9. Control'
  BY <1>1, <1>6
     DEF CompleteBackfill, history, Control, Down, AtWork, Outlived, Due, Working, Checking
<1> QED
  BY <1>7, <1>8, <1>9 DEF StepOK

LEMMA CommitKeeps ==
  ASSUME IInv, PollCommit PROVE StepOK
<1>1. /\ gen \in 1 .. Len(gens) /\ gen = Len(gens) /\ Len(gens) \in Nat
      /\ gens[gen] \in Generation /\ ~blocked
  BY WorkingOn DEF PollCommit, Working
<1> USE DEF IInv, Typed, Active
<1>2. held.top \in 0 .. MaxId /\ held.from \in 0 .. MaxMoves
  BY DEF LoopTyped
<1>3. held' \in [fits : BOOLEAN, top : 0 .. MaxId, from : 0 .. MaxMoves]
  BY HeldTyped DEF PollCommit
<1>4. GensTyped' /\ Len(gens') = Len(gens) /\ Keeps
  <2>1. CASE UNCHANGED <<gens, origins>>
    BY <2>1 DEF GensTyped, Keeps
  <2>2. CASE /\ gens' = [gens EXCEPT ![gen].live = held.top]
             /\ origins' = [origins EXCEPT ![gen] = @ \cup {held.from}]
    <3> DEFINE g == [gens[gen] EXCEPT !.live = held.top]
    <3>1. g \in Generation
      BY <1>1, <1>2 DEF Generation
    <3>2. gens' = [gens EXCEPT ![gen] = g]
      BY <2>2
    <3> HIDE DEF g
    <3>3. /\ gens' \in Seq(Generation) /\ Len(gens') = Len(gens)
          /\ \A j \in 1 .. Len(gens) : j # gen => gens'[j] = gens[j]
      BY <1>1, <3>1, <3>2, GensRewritten
    <3>4. /\ origins' \in Seq(SUBSET (0 .. MaxMoves)) /\ Len(origins') = Len(origins)
          /\ \A j \in 1 .. Len(gens) : j # gen => origins'[j] = origins[j]
      BY <1>1, <1>2, <2>2, OriginsRewritten
    <3> QED
      BY <1>1, <3>3, <3>4 DEF GensTyped, Keeps
  <2> QED
    BY <2>1, <2>2 DEF PollCommit
<1>5. Uncollected
  BY <1>1 DEF Uncollected
<1>6. LoopTyped'
  BY <1>3, <1>4 DEF PollCommit, LoopTyped, Working
<1>7. Control'
  BY <1>1, <1>4 DEF PollCommit, Control, Down, AtWork, Outlived, Due, Working, Checking
<1> QED
  BY <1>4, <1>5, <1>6, <1>7 DEF StepOK

LEMMA BlockKeeps ==
  ASSUME IInv, Block PROVE StepOK
<1> USE DEF IInv, Typed, Active
<1>1. using \in 1 .. Len(gens) /\ using = Len(gens) /\ Len(gens) \in Nat
  BY DEF Block, LoopTyped, GensTyped, Control, AtWork, Checking
<1> DEFINE g == Snapshot(gens[using], "empty")
<1>2. g \in Generation /\ g.complete = gens[using].complete
  <2>1. gens[using] \in Generation
    BY <1>1 DEF GensTyped
  <2> QED
    BY <2>1 DEF Snapshot, Generation
<1>3. gens' = [gens EXCEPT ![using] = g] /\ UNCHANGED origins
  BY DEF Block
<1> HIDE DEF g
<1>4. /\ gens' \in Seq(Generation) /\ Len(gens') = Len(gens)
      /\ gens'[using] = g
      /\ \A j \in 1 .. Len(gens) : j # using => gens'[j] = gens[j]
  BY <1>1, <1>2, <1>3, GensRewritten
<1>5. GensTyped' /\ Keeps /\ Uncollected
  BY <1>1, <1>3, <1>4 DEF GensTyped, Keeps, Uncollected
<1>6. LoopTyped'
  <2>1. using' \in 0 .. Len(gens')
    BY <1>1, <1>4 DEF Block
  <2> QED
    BY <1>4, <2>1 DEF Block, LoopTyped, Resting
<1>7. Control'
  BY <1>1, <1>2, <1>4
     DEF Block, Control, Down, AtWork, Outlived, Due, Working, Checking, LoopTyped
<1> QED
  BY <1>5, <1>6, <1>7 DEF StepOK

\* Every step of the loop and of the source.
LEMMA OthersKeep ==
  ASSUME IInv, [Next]_vars, ~OrphanCommit PROVE StepOK
<1>1. SourceMoves => UNCHANGED <<database, process, upsets, history>>
  BY SourceKeeps
<1> DEFINE Rewrites == \/ MetadataAnswer \/ RecordSchema \/ SourceChecked \/ IdentifyAnswer
                       \/ RecordBoundary \/ CommitPage \/ CompleteBackfill \/ PollCommit
                       \/ Block
<1>2. CASE Rewrites
  BY <1>2, MetadataKeeps, SchemaKeeps, CheckedKeeps, IdentifyKeeps, BoundaryKeeps, PageKeeps,
     CompleteKeeps, CommitKeeps, BlockKeeps
<1>3. CASE ~Rewrites
  <2>1. UNCHANGED <<gens, origins>>
    BY <1>1, <1>3
       DEF Next, WorkerStep, vars, database, history, Start, CheckSource, Continue,
           AnnounceBackfill, CaptureAnswer, FetchPage, LastPage, PollAnswer, Recovered, BadRows,
           AnnounceBlock, Degrade, EndPause, FailRequest, Crash
  <2>2. CASE SourceMoves \/ UNCHANGED vars
    <3>1. UNCHANGED <<pc, gen, checked, using, held, upsets, blocked>>
      BY <1>1, <2>2 DEF vars, database, process, loop, history
    <3> QED
      BY <2>1, <3>1, LoopKeeps
  <2>3. CASE ~(SourceMoves \/ UNCHANGED vars)
    <3>1. \/ Start \/ CheckSource \/ Continue \/ AnnounceBackfill \/ CaptureAnswer \/ FetchPage
          \/ LastPage \/ PollAnswer \/ Recovered \/ BadRows \/ AnnounceBlock \/ Degrade \/ EndPause
          \/ FailRequest \/ Crash
      BY <1>3, <2>3 DEF Next, WorkerStep
    <3> QED
      BY <2>1, <3>1, LoopKeeps
  <2> QED
    BY <2>2, <2>3
<1> QED
  BY <1>2, <1>3

\* A transaction that outlived its task adds what it holds and changes nothing else.
LEMMA OrphanKeeps ==
  ASSUME IInv, OrphanCommit
  PROVE  /\ GensTyped' /\ LoopTyped' /\ Control' /\ gens' = gens
         /\ \A g \in 1 .. Len(gens) : OnlyLate(g)
<1> USE DEF IInv, Typed, Active
<1>1. PICK o \in orphans : Stored(o) /\ orphans' = orphans \ {o}
  BY DEF OrphanCommit
<1>2. o.gen \in 1 .. Len(gens) /\ o.from \in 0 .. MaxMoves
  BY DEF Held, PageOf
<1>3. /\ UNCHANGED <<gens, pc, gen, checked, using, held, upsets, blocked>>
      /\ origins' = [origins EXCEPT ![o.gen] = @ \cup {o.from}]
  BY <1>1 DEF OrphanCommit, Stored, database, loop
<1>4. /\ origins' \in Seq(SUBSET (0 .. MaxMoves)) /\ Len(origins') = Len(origins)
      /\ \A j \in 1 .. Len(gens) : j # o.gen => origins'[j] = origins[j]
  BY <1>2, <1>3, OriginsRewritten
<1>5. origins'[o.gen] = origins[o.gen] \cup {o.from}
  BY <1>2, <1>3 DEF GensTyped
<1>6. ASSUME NEW g \in 1 .. Len(gens) PROVE OnlyLate(g)
  <2>1. Late(g)' \subseteq Late(g)
    BY <1>1 DEF Late
  <2>2. CASE g = o.gen
    BY <1>5, <2>1, <2>2 DEF OnlyLate, Late
  <2>3. CASE g # o.gen
    BY <1>4, <2>1, <2>3 DEF OnlyLate
  <2> QED
    BY <2>2, <2>3
<1>7. GensTyped' /\ LoopTyped'
  BY <1>3, <1>4 DEF GensTyped, LoopTyped
<1>8. Control'
  BY <1>3 DEF Control, Down, AtWork, Outlived, Due
<1> QED
  BY <1>3, <1>6, <1>7, <1>8

\* Pages are fetched for the generation at work, and only pages become orphans.
LEMMA PagesKept ==
  ASSUME IInv, [Next]_vars, Len(gens') \in Nat, Len(gens) <= Len(gens')
  PROVE  Held' /\ orphans' \subseteq orphans \cup pages
<1> USE DEF IInv, Typed, Held, PageOf
<1>0. Len(gens) \in Nat
  BY DEF GensTyped
<1>1. CASE pages = {} /\ UNCHANGED writes
  BY <1>0, <1>1 DEF writes
<1>2. CASE UNCHANGED <<pc, gen, writes>>
  BY <1>0, <1>2 DEF writes
<1>3. CASE FetchPage
  <2>1. gen \in 1 .. Len(gens) /\ dataset \in 0 .. MaxMoves
    BY <1>3, WorkingOn DEF FetchPage, Working, SourceTyped
  <2>2. UNCHANGED <<pc, gen, orphans>> /\ pc = "collect"
        /\ pages' = pages \cup {[gen |-> gen, from |-> dataset]}
    BY <1>3 DEF FetchPage, loop
  <2> QED
    BY <1>0, <2>1, <2>2
<1>4. CASE CommitPage \/ OrphanCommit
  BY <1>0, <1>4 DEF CommitPage, OrphanCommit, loop
<1>5. CASE LastPage
  BY <1>0, <1>5 DEF LastPage, writes
<1>6. CASE BadRows \/ FailRequest
  <2>1. pages' = {} /\ orphans' \subseteq orphans \cup pages
    BY <1>6 DEF BadRows, FailRequest, Abandon
  <2> QED
    BY <1>0, <2>1
<1>7. CASE Crash
  BY <1>0, <1>7 DEF Crash
<1>8. CASE SourceMoves \/ UNCHANGED vars
  BY <1>2, <1>8 DEF SourceMoves, vars, process, loop
<1> QED
  <2> DEFINE Elsewhere == \/ Start \/ CheckSource \/ Continue \/ MetadataAnswer \/ RecordSchema
                          \/ SourceChecked \/ IdentifyAnswer \/ CaptureAnswer \/ RecordBoundary
                          \/ AnnounceBackfill \/ CompleteBackfill \/ PollAnswer \/ PollCommit
                          \/ Recovered \/ Block \/ AnnounceBlock \/ Degrade \/ EndPause
  <2>1. Elsewhere => UNCHANGED writes /\ (pages = {} \/ pc \notin {"collect", "drain"})
    BY DEF Start, CheckSource, Continue, MetadataAnswer, RecordSchema, SourceChecked,
           IdentifyAnswer, CaptureAnswer, RecordBoundary, AnnounceBackfill, CompleteBackfill,
           PollAnswer, PollCommit, Recovered, Block, AnnounceBlock, Degrade, EndPause
  <2>2. Elsewhere => pages = {} /\ UNCHANGED writes
    BY <2>1
  <2> HIDE DEF Elsewhere
  <2>3. \/ Elsewhere \/ FetchPage \/ CommitPage \/ OrphanCommit \/ LastPage \/ BadRows
        \/ FailRequest \/ Crash \/ SourceMoves \/ UNCHANGED vars
    BY DEF Elsewhere, Next, WorkerStep
  <2> QED
    BY <1>1, <1>3, <1>4, <1>5, <1>6, <1>7, <1>8, <2>2, <2>3

\* What no step does to a generation that is retired, or while a conflict lasts.
LEMMA NothingNew ==
  ASSUME IInv, [Next]_vars, NEW g \in 1 .. Len(gens), g < Len(gens) \/ blocked
  PROVE  OnlyLate(g) /\ (g < Len(gens) => gens'[g] = gens[g])
<1>0. Len(gens) \in Nat
  BY DEF IInv, Typed, GensTyped
<1>1. CASE OrphanCommit
  BY <1>1, OrphanKeeps
<1>2. CASE ~OrphanCommit
  <2>1. Keeps /\ Uncollected /\ Len(gens') \in Nat /\ Len(gens) <= Len(gens')
    BY <1>2, OthersKeep DEF StepOK, GensTyped, Keeps
  <2>2. orphans' \subseteq orphans \cup pages
    BY <2>1, PagesKept
  <2>3. \A p \in pages : p.gen # g
    BY <1>0, WorkingOn DEF IInv, Held, Working
  <2>4. Late(g)' \subseteq Late(g)
    BY <2>2, <2>3 DEF Late
  <2>5. origins'[g] = origins[g] /\ (g < Len(gens) => gens'[g] = gens[g])
    BY <1>0, <2>1 DEF Keeps, Uncollected
  <2> QED
    BY <2>4, <2>5 DEF OnlyLate
<1> QED
  BY <1>1, <1>2

\* Every step.
LEMMA StepKeeps ==
  ASSUME IInv, [Next]_vars PROVE IInv'
<1>1. GensTyped' /\ LoopTyped' /\ Control' /\ Len(gens) <= Len(gens')
  <2>1. CASE OrphanCommit
    BY <2>1, OrphanKeeps DEF IInv, Typed, GensTyped
  <2>2. CASE ~OrphanCommit
    BY <2>2, OthersKeep DEF StepOK, Keeps
  <2> QED
    BY <2>1, <2>2
<1>2. SourceTyped'
  BY SourceKeeps
<1>3. LiveIsClean' /\ status' \in Row(Len(gens))
  BY StatusWritten
<1>4. Len(gens) \in Nat /\ Len(gens') \in Nat
  BY <1>1 DEF IInv, Typed, GensTyped
<1>5. Row(Len(gens)) \subseteq Row(Len(gens'))
  BY <1>1, <1>4 DEF Row
<1>6. Held'
  BY <1>1, <1>4, PagesKept
<1> QED
  BY <1>1, <1>2, <1>3, <1>5, <1>6 DEF IInv, Typed

LEMMA InitEstablishes ==
  ASSUME Init PROVE IInv
<1>1. SourceTyped
  <2>1. FirstService \in Services
    BY LifecycleAssumption DEF FirstService
  <2>2. 0 \in 0 .. MaxMoves
    BY LifecycleAssumption
  <2> QED
    BY <2>1, <2>2 DEF Init, SourceTyped
<1>2. GensTyped
  BY DEF Init, GensTyped
<1>3. LoopTyped
  <2>1. 0 \in 0 .. MaxUpsets /\ 0 \in 0 .. Len(gens)
    BY LifecycleAssumption DEF Init
  <2> QED
    BY <2>1, HeldTyped DEF Init, LoopTyped, Resting
<1>4. status \in Row(Len(gens))
  <2>1. 0 \in 0 .. Len(gens)
    BY DEF Init
  <2> QED
    BY <2>1 DEF Init, Row, States
<1>5. Control /\ LiveIsClean
  BY DEF Init, Control, Down, AtWork, Outlived, Due, LiveIsClean, Working, Checking
<1>6. Held
  BY DEF Init, Held
<1> QED
  BY <1>1, <1>2, <1>3, <1>4, <1>5, <1>6 DEF IInv, Typed

-----------------------------------------------------------------------------
(* The theorems.                                                           *)

\* The invariant holds throughout: what the loop works on or checks is the active
\* generation, and one kept beyond its retirement is never worked on (run, _cycle).
THEOREM InductiveInvariant == SafeSpec => []IInv
<1>1. Init => IInv
  BY InitEstablishes
<1>2. IInv /\ [Next]_vars => IInv'
  BY StepKeeps
<1> QED
  BY <1>1, <1>2, PTL DEF SafeSpec

\* Every variable keeps its type: the generation and the one a check is about are always
\* rows of the database, through every restart of the process.
THEOREM TypeInvariant == SafeSpec => []TypeOK
<1>1. IInv => TypeOK
  BY DEF IInv, Typed, TypeOK, SourceTyped, GensTyped, LoopTyped, Row, States, Generation,
         Working, Checking, Resting, Held, PageOf
<1> QED
  BY <1>1, InductiveInvariant, PTL

\* A LIVE status advertises neither a problem nor a retry, whatever was written before it
\* (_recovered).
THEOREM LiveIsCleanHolds == SafeSpec => []LiveIsClean
<1>1. IInv => LiveIsClean
  BY DEF IInv
<1> QED
  BY <1>1, InductiveInvariant, PTL

\* Nothing is written to a retired generation: a replaced service, or a source whose
\* identifiers were reset, never has its records, schema or checkpoints mixed into those
\* of the source it replaced (_check_source, _cycle, _block).  A transaction that outlived
\* its task may still add the page it holds to the generation it was fetched for.
THEOREM RetiredUntouchedHolds == SafeSpec => RetiredUntouched
<1>1. IInv /\ [Next]_vars
        => [\A g \in 1 .. Len(gens) - 1 : gens'[g] = gens[g] /\ OnlyLate(g)]_vars
  <2>1. ASSUME IInv, [Next]_vars, NEW g \in 1 .. Len(gens) - 1
        PROVE  gens'[g] = gens[g] /\ OnlyLate(g)
    <3>1. g \in 1 .. Len(gens) /\ g < Len(gens)
      BY <2>1 DEF IInv, Typed, GensTyped
    <3> QED
      BY <2>1, <3>1, NothingNew
  <2> QED
    BY <2>1
<1> QED
  BY <1>1, InductiveInvariant, PTL DEF SafeSpec, RetiredUntouched

\* After a conflict no page is fetched, and none but those already in a thread when the tasks
\* were cancelled is stored, before a compatible schema has been seen (_block,
\* _due_for_metadata, _backfill).
THEOREM BlockedCollectsNothingHolds == SafeSpec => BlockedCollectsNothing
<1>1. IInv /\ [Next]_vars => [blocked => \A g \in 1 .. Len(gens) : OnlyLate(g)]_vars
  BY NothingNew
<1> QED
  BY <1>1, InductiveInvariant, PTL DEF SafeSpec, BlockedCollectsNothing

=============================================================================
