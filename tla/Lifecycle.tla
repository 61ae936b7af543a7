----------------------------- MODULE Lifecycle -----------------------------
(***************************************************************************)
(* The worker's main loop around collection: which generation of the       *)
(* source a record belongs to, whether its schema allows collecting at     *)
(* all, and the status readers are shown.  Collecting itself is a few      *)
(* steps here (see Backfill and Reconcile for what they stand for).        *)
(*                                                                         *)
(* Every request, and every transaction, is a step of its own, so the      *)
(* source may change and the process may die between any two.              *)
(*                                                                         *)
(* A backfill's range tasks hold pages while they wait for the write lock. *)
(* When one of them fails the others are cancelled, but a transaction      *)
(* already in a thread is not, and commits later: an orphan (Backfill).    *)
(***************************************************************************)
EXTENDS Integers, Sequences, FiniteSets

CONSTANTS Services,  \* the identities (serviceItemId) the published layer may have
          MaxId,     \* bound: the highest OBJECTID
          MaxPages,  \* bound: pages held by tasks or left in threads at a time
          MaxMoves,  \* bound: changes of the source in one behaviour
          MaxUpsets  \* bound: failed requests and crashes in one behaviour

ASSUME LifecycleAssumption ==
  /\ Services # {}
  /\ MaxId \in Nat /\ MaxPages \in Nat /\ MaxMoves \in Nat /\ MaxUpsets \in Nat

VARIABLES
  \* the source
  service,  \* the layer's identity
  dataset,  \* which dataset it serves: counts replacements
  top,      \* its highest OBJECTID
  fits,     \* its fields are the known ones
  spoiled,  \* its rows hold values of a wrong type
  moves,    \* changes so far
  \* the database
  gens,     \* the generations; the last one is active
  status,   \* the source_status row
  \* the process
  pc,       \* where the main loop is
  gen,      \* _generation: an index of gens, or 0
  checked,  \* _checked_at is set
  using,    \* the generation _check_source, or a conflict, is about
  held,     \* the answer it holds
  pages,    \* the pages range tasks hold or have in a transaction: [gen, from]
  orphans,  \* the pages of cancelled tasks whose transactions run on in a thread
  upsets,   \* failures and crashes so far
  \* history
  origins,  \* per generation, the datasets its records came from
  blocked   \* a conflict was met, and no compatible schema since

source   == <<service, dataset, top, fits, spoiled, moves>>
database == <<gens, status>>
loop     == <<pc, gen, checked, using, held>>
writes   == <<pages, orphans>>
process  == <<loop, writes>>
history  == <<origins, blocked>>
vars     == <<source, database, process, upsets, history>>

Unset == -1

\* A generation: its service, backfill boundary, completion, live checkpoint, and its
\* latest schema snapshot.
NewGeneration(s) ==
  [service |-> s, boundary |-> Unset, complete |-> FALSE, live |-> 0, shape |-> "none"]

Active == Len(gens)

\* A snapshot is stored when it differs from the latest one.
Snapshot(g, shape) == [g EXCEPT !.shape = shape]

NoAnswer == [fits |-> FALSE, top |-> 0, from |-> 0]

\* Whichever identity the layer has first.
FirstService == CHOOSE s \in Services : TRUE

Init ==
  /\ service = FirstService /\ dataset = 0 /\ top \in 0 .. MaxId
  /\ fits \in BOOLEAN /\ spoiled \in BOOLEAN /\ moves = 0
  /\ gens = <<>>
  /\ status = [state |-> "STARTING", detail |-> FALSE, since |-> FALSE, retry |-> FALSE,
               generation |-> 0]
  /\ pc = "down" /\ gen = 0 /\ checked = FALSE /\ using = 0 /\ held = NoAnswer
  /\ pages = {} /\ orphans = {}
  /\ upsets = 0
  /\ origins = <<>> /\ blocked = FALSE

-----------------------------------------------------------------------------
(* The source.                                                             *)

\* It is replaced, by another service or not; its highest OBJECTID moves; its fields or its
\* values change.  Whatever else may happen to it at once is several of these.
SourceMoves ==
  /\ moves < MaxMoves /\ moves' = moves + 1
  /\ \/ /\ service' \in Services /\ dataset' = dataset + 1 /\ top' \in 0 .. MaxId
        /\ fits' \in BOOLEAN /\ UNCHANGED spoiled
     \/ /\ top' \in {top - 1, top + 1} \cap (0 .. MaxId)
        /\ UNCHANGED <<service, dataset, fits, spoiled>>
     \/ /\ \/ fits' = ~fits /\ UNCHANGED spoiled
           \/ spoiled' = ~spoiled /\ UNCHANGED fits
        /\ UNCHANGED <<service, dataset, top>>
  /\ UNCHANGED <<database, process, upsets, history>>

-----------------------------------------------------------------------------
(* The status row: a write changes the fields it names.                    *)

Announce(changes) ==
  status' = [f \in DOMAIN status |-> IF f \in DOMAIN changes THEN changes[f] ELSE status[f]]

-----------------------------------------------------------------------------
(* The main loop.                                                          *)

\* run() begins: the writer lock is free, the schema migrated.
Start ==
  /\ pc = "down"
  /\ Announce([state |-> "STARTING"])
  /\ pc' = "cycle"
  /\ UNCHANGED <<source, gens, gen, checked, using, held, writes, upsets, history>>

\* Mutant: a generation without a boundary is backfilled.
WorkUncaptured(g) == IF ~g.complete THEN "backfill" ELSE "poll"

\* What the cycle goes on to with a generation.
Work(g) ==
  IF g.boundary = Unset THEN "capture" ELSE IF ~g.complete THEN "backfill" ELSE "poll"

\* The metadata is due: at first, after a conflict, and as time passes.
CheckSource ==
  /\ pc = "cycle"
  /\ pc' = "metadata"
  /\ UNCHANGED <<source, database, gen, checked, using, held, writes, upsets, history>>

Continue ==
  /\ pc = "cycle" /\ gen # 0 /\ checked
  /\ pc' = Work(gens[gen])
  /\ UNCHANGED <<source, database, gen, checked, using, held, writes, upsets, history>>

StartGeneration(s) ==
  /\ gens' = Append(gens, NewGeneration(s))
  /\ origins' = Append(origins, {})

\* The layer's description answers: a service that is not the active generation's starts
\* a new one at once.
MetadataAnswer ==
  /\ pc = "metadata"
  /\ held' = [NoAnswer EXCEPT !.fits = fits]
  /\ IF gens = <<>> \/ gens[Active].service # service
       THEN StartGeneration(service)
       ELSE UNCHANGED <<gens, origins>>
  /\ using' = Len(gens')
  /\ pc' = "schema"
  /\ UNCHANGED <<source, status, gen, checked, writes, upsets, blocked>>

RecordSchema ==
  /\ pc = "schema"
  /\ gens' = [gens EXCEPT ![using] = Snapshot(@, IF held.fits THEN "known" ELSE "unknown")]
  /\ pc' = "announce"
  /\ UNCHANGED <<source, status, gen, checked, using, held, writes, upsets, history>>

\* The status row names the generation, and the check counts as made from here on.  An
\* incompatible schema is a conflict; a complete generation has its identifiers checked
\* before it is taken up.
SourceChecked ==
  /\ pc = "announce"
  /\ Announce([generation |-> using])
  /\ checked' = TRUE
  /\ blocked' = (blocked /\ ~held.fits)
  /\ IF held.fits /\ ~gens[using].complete
       THEN gen' = using /\ using' = 0 /\ pc' = Work(gens[using])
       ELSE UNCHANGED <<gen, using>> /\ pc' = IF held.fits THEN "identify" ELSE "conflict"
  /\ held' = NoAnswer
  /\ UNCHANGED <<source, gens, writes, upsets, origins>>

\* maximum() answers: a highest identifier below the live checkpoint starts a generation.
IdentifyAnswer ==
  /\ pc = "identify"
  /\ IF top >= gens[using].live
       THEN gen' = using /\ UNCHANGED <<gens, origins>>
       ELSE gen' = Active + 1 /\ StartGeneration(gens[using].service)
  /\ pc' = Work(gens'[gen']) /\ using' = 0
  /\ UNCHANGED <<source, status, checked, held, writes, upsets, blocked>>

CaptureAnswer ==
  /\ pc = "capture"
  /\ held' = [NoAnswer EXCEPT !.top = top]
  /\ pc' = "record"
  /\ UNCHANGED <<source, database, gen, checked, using, writes, upsets, history>>

RecordBoundary ==
  /\ pc = "record"
  /\ gens' = [gens EXCEPT ![gen].boundary = IF @ = Unset THEN held.top ELSE @]
  /\ pc' = "backfill" /\ held' = NoAnswer
  /\ UNCHANGED <<source, status, gen, checked, using, writes, upsets, history>>

AnnounceBackfill ==
  /\ pc = "backfill"
  /\ Announce([state |-> "BACKFILLING", detail |-> TRUE])
  /\ pc' = "collect"
  /\ UNCHANGED <<source, gens, gen, checked, using, held, writes, upsets, history>>

\* A range task's page answers and fits.  Pages of one dataset stand as one: what matters
\* of the records is the dataset they are of.
FetchPage ==
  /\ pc = "collect" /\ Cardinality(pages \cup orphans) < MaxPages
  /\ pages' = pages \cup {[gen |-> gen, from |-> dataset]}
  /\ UNCHANGED <<source, database, loop, orphans, upsets, history>>

\* A page's transaction.
Stored(p) == origins' = [origins EXCEPT ![p.gen] = @ \cup {p.from}]

CommitPage ==
  /\ pc \in {"collect", "drain"}
  /\ \E p \in pages : Stored(p) /\ pages' = pages \ {p}
  /\ UNCHANGED <<source, database, loop, orphans, upsets, blocked>>

\* The range tasks are cancelled.  One of them at most has the write lock, and the
\* transaction it has begun goes on.
Abandon ==
  /\ pages' = {}
  /\ UNCHANGED orphans \/ \E p \in pages : orphans' = orphans \cup {p}

\* It commits some time later, whatever the loop has come to.
OrphanCommit ==
  /\ \E o \in orphans : Stored(o) /\ orphans' = orphans \ {o}
  /\ UNCHANGED <<source, database, loop, pages, upsets, blocked>>

\* The last page of the last range has answered.
LastPage ==
  /\ pc = "collect"
  /\ pc' = "drain"
  /\ UNCHANGED <<source, database, gen, checked, using, held, writes, upsets, history>>

\* Every range is complete.
CompleteBackfill ==
  /\ pc = "drain" /\ pages = {}
  /\ gens' = [gens EXCEPT ![gen].complete = TRUE, ![gen].live = gens[gen].boundary]
  /\ pc' = "recovered"
  /\ UNCHANGED <<source, status, gen, checked, using, held, writes, upsets, history>>

PollAnswer ==
  /\ pc = "poll"
  /\ held' = [NoAnswer EXCEPT !.top = top, !.from = dataset]
  /\ pc' = "commit"
  /\ UNCHANGED <<source, database, gen, checked, using, writes, upsets, history>>

\* Mutant: only the end of a backfill is announced as a recovery.
PollCommitSilently ==
  /\ pc = "commit"
  /\ IF held.top > gens[gen].live
       THEN /\ gens' = [gens EXCEPT ![gen].live = held.top]
            /\ origins' = [origins EXCEPT ![gen] = @ \cup {held.from}]
       ELSE UNCHANGED <<gens, origins>>
  /\ pc' = "cycle" /\ held' = NoAnswer
  /\ UNCHANGED <<source, status, gen, checked, using, writes, upsets, blocked>>

\* The page past the live checkpoint, if any, with the checkpoint.
PollCommit ==
  /\ pc = "commit"
  /\ IF held.top > gens[gen].live
       THEN /\ gens' = [gens EXCEPT ![gen].live = held.top]
            /\ origins' = [origins EXCEPT ![gen] = @ \cup {held.from}]
       ELSE UNCHANGED <<gens, origins>>
  /\ pc' = "recovered" /\ held' = NoAnswer
  /\ UNCHANGED <<source, status, gen, checked, using, writes, upsets, blocked>>

\* Mutant: the time of the next attempt stays.
RecoveredWithRetry ==
  /\ pc = "recovered"
  /\ Announce([state |-> "LIVE", detail |-> FALSE, since |-> FALSE])
  /\ pc' = "cycle"
  /\ UNCHANGED <<source, gens, gen, checked, using, held, writes, upsets, history>>

Recovered ==
  /\ pc = "recovered"
  /\ Announce([state |-> "LIVE", detail |-> FALSE, since |-> FALSE, retry |-> FALSE])
  /\ pc' = "cycle"
  /\ UNCHANGED <<source, gens, gen, checked, using, held, writes, upsets, history>>

-----------------------------------------------------------------------------
(* Failures.                                                               *)

\* A page holds a value of a wrong type.
BadRows ==
  /\ pc \in {"collect", "poll"} /\ spoiled
  /\ using' = gen
  /\ pc' = "conflict"
  /\ Abandon
  /\ UNCHANGED <<source, database, gen, checked, held, upsets, history>>

\* Mutant: a conflict does not make the metadata due.
BlockUnchecked ==
  /\ pc = "conflict"
  /\ blocked' = TRUE
  /\ gens' = [gens EXCEPT ![using] = Snapshot(@, "empty")]
  /\ pc' = "blocked" /\ using' = 0
  /\ UNCHANGED <<source, status, gen, checked, held, writes, upsets, origins>>

\* The conflict is recorded, as a schema without fields.
Block ==
  /\ pc = "conflict"
  /\ checked' = FALSE
  /\ blocked' = TRUE
  /\ gens' = [gens EXCEPT ![using] = Snapshot(@, "empty")]
  /\ pc' = "blocked" /\ using' = 0
  /\ UNCHANGED <<source, status, gen, held, writes, upsets, origins>>

AnnounceBlock ==
  /\ pc = "blocked"
  /\ Announce([state |-> "SCHEMA_INCOMPATIBLE", detail |-> TRUE])
  /\ pc' = "pause"
  /\ UNCHANGED <<source, gens, gen, checked, using, held, writes, upsets, history>>

FailRequest ==
  /\ pc \in {"metadata", "identify", "capture", "collect", "poll"}
  /\ upsets < MaxUpsets /\ upsets' = upsets + 1
  /\ pc' = "failed" /\ using' = 0
  /\ Abandon
  /\ UNCHANGED <<source, database, gen, checked, held, history>>

Degrade ==
  /\ pc = "failed"
  /\ Announce([state |-> "DEGRADED", detail |-> TRUE, since |-> TRUE, retry |-> TRUE])
  /\ pc' = "pause"
  /\ UNCHANGED <<source, gens, gen, checked, using, held, writes, upsets, history>>

EndPause ==
  /\ pc = "pause"
  /\ pc' = "cycle"
  /\ UNCHANGED <<source, database, gen, checked, using, held, writes, upsets, history>>

Crash ==
  /\ pc # "down"
  /\ upsets < MaxUpsets /\ upsets' = upsets + 1
  /\ pc' = "down" /\ gen' = 0 /\ checked' = FALSE /\ using' = 0 /\ held' = NoAnswer
  /\ pages' = {} /\ orphans' = {}
  /\ UNCHANGED <<source, database, history>>

-----------------------------------------------------------------------------

WorkerStep ==
  \/ Start \/ CheckSource \/ Continue \/ MetadataAnswer \/ RecordSchema \/ SourceChecked
  \/ IdentifyAnswer \/ CaptureAnswer \/ RecordBoundary \/ AnnounceBackfill \/ FetchPage
  \/ CommitPage \/ LastPage \/ CompleteBackfill \/ PollAnswer \/ PollCommit \/ Recovered
  \/ BadRows \/ Block \/ AnnounceBlock \/ Degrade \/ EndPause

Next == SourceMoves \/ WorkerStep \/ OrphanCommit \/ FailRequest \/ Crash

SafeSpec == Init /\ [][Next]_vars

\* The loop gets on, and the service manager restarts the process.  A backfill in which
\* nothing fails ends: every page brings its range nearer to its end (Backfill).
Fairness == WF_vars(WorkerStep) /\ WF_vars(LastPage)

Spec == SafeSpec /\ Fairness

-----------------------------------------------------------------------------
(* Properties.                                                             *)

TypeOK ==
  /\ service \in Services /\ dataset \in 0 .. MaxMoves /\ top \in 0 .. MaxId
  /\ fits \in BOOLEAN /\ spoiled \in BOOLEAN /\ moves \in 0 .. MaxMoves
  /\ gens \in Seq([service : Services, boundary : 0 .. MaxId \cup {Unset}, complete : BOOLEAN,
                   live : 0 .. MaxId, shape : {"none", "known", "unknown", "empty"}])
  /\ status \in [state : {"STARTING", "BACKFILLING", "LIVE", "DEGRADED", "SCHEMA_INCOMPATIBLE"},
                 detail : BOOLEAN, since : BOOLEAN, retry : BOOLEAN,
                 generation : 0 .. Len(gens)]
  /\ pc \in {"down", "cycle", "metadata", "schema", "announce", "identify", "capture", "record",
             "backfill", "collect", "drain", "poll", "commit", "recovered", "conflict", "blocked",
             "failed", "pause"}
  /\ gen \in 0 .. Len(gens) /\ using \in 0 .. Len(gens) /\ checked \in BOOLEAN
  /\ held \in [fits : BOOLEAN, top : 0 .. MaxId, from : 0 .. MaxMoves]
  /\ pages \cup orphans \subseteq [gen : 1 .. Len(gens), from : 0 .. MaxMoves]
  /\ upsets \in 0 .. MaxUpsets
  /\ origins \in Seq(SUBSET (0 .. MaxMoves)) /\ Len(origins) = Len(gens)
  /\ blocked \in BOOLEAN

\* "Live again: the status must not still advertise a problem or a retry time"
\* (_recovered), whatever the row was before and whichever writes came between.
LiveIsClean ==
  status.state = "LIVE" => ~status.detail /\ ~status.since /\ ~status.retry

\* What the transactions that outlived their tasks may still bring to a generation.
Late(g) == {o.from : o \in {p \in orphans : p.gen = g}}

\* Nothing is collected for a generation but what such a transaction, begun before, holds,
\* and no more of them come.
OnlyLate(g) == origins'[g] \subseteq origins[g] \cup Late(g) /\ Late(g)' \subseteq Late(g)

\* Once a generation is retired nothing is written to it again: no conflict, failure or
\* restart between the start of its successor and the successor's first page leaves the
\* worker collecting for it (_check_source, _cycle, _block).  Only a transaction that was
\* running in a thread when its task was cancelled could: it would have to outlive the
\* pause that follows and the next look at the metadata, which it hardly does, but no code
\* waits for it (_backfill, _write).
RetiredUntouched ==
  [][\A g \in 1 .. Len(gens) - 1 : gens'[g] = gens[g] /\ OnlyLate(g)]_vars

\* After a conflict no generation collects anything until the source's schema has been found
\* to be compatible (_block, _due_for_metadata), save what a sibling of the task that met
\* the conflict had handed to a thread before: no page that answered after it is stored.
BlockedCollectsNothing ==
  [][blocked => \A g \in 1 .. Len(gens) : OnlyLate(g)]_vars

\* Whatever the source did and however often it failed, when it rests and fits the worker
\* is live again.
EventuallyLive == <>[](fits /\ ~spoiled => status.state = "LIVE")

-----------------------------------------------------------------------------
(* What the documents and comments say and the code does not do.           *)

\* "A dataset whose highest OBJECTID fell below ours was replaced, not extended"
\* (worker.py:184): a source that was never replaced has one generation.
ResetMeansReplaced == dataset = 0 => Len(gens) <= 1

=============================================================================
