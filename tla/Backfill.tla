------------------------------ MODULE Backfill ------------------------------
(***************************************************************************)
(* The worker collecting one generation of the source: capture the         *)
(* boundary, run one task per unfinished range under a semaphore, commit   *)
(* each page in its own transaction, declare history complete, then poll   *)
(* past the live checkpoint.  Requests and transactions are separate       *)
(* steps, so the source may change, a task may fail and the process may    *)
(* stop or crash between any two of them.                                  *)
(*                                                                         *)
(* When a task fails the others are cancelled; a transaction already       *)
(* handed to a thread is not, and commits later: an orphan.  Metadata,     *)
(* schema and status are Lifecycle's subject and removals Reconcile's.     *)
(***************************************************************************)
EXTENDS Source, Partition

CONSTANTS Concurrency,   \* settings.backfill_concurrency
          PagesPerRange, \* pages a range spans (8 in the code)
          MaxUpsets      \* bound: failures, crashes and stop requests in one behaviour

ASSUME BackfillAssumption ==
  /\ Concurrency \in Nat \ {0}
  /\ PagesPerRange \in Nat \ {0}
  /\ MaxUpsets \in Nat

VARIABLES
  \* the database
  stored,    \* OBJECTIDs with a row in `calls`
  boundary,  \* generations.boundary, or Unset
  ranges,    \* range checkpoints: <<lower, upper>> -> [cursor, done]
  complete,  \* generations.backfill_completed_at is set
  live,      \* the "live" checkpoint's cursor, or Unset
  \* the process
  pc,        \* where the main loop is
  held,      \* the answer the main loop holds: [rows, last]
  tasks,     \* the running range tasks: range -> task
  orphans,   \* cancelled tasks' page transactions still running in a thread
  stopping,  \* the stop event
  upsets     \* failures, crashes and stops so far

database == <<stored, boundary, ranges, complete, live>>
source   == <<published, late, top>>
vars     == <<source, database, pc, held, tasks, orphans, stopping, upsets>>

Unset == -1

Nothing == [rows |-> {}, last |-> 0]
NoTasks == [r \in {} |-> Nothing]

TaskStates == {"queued", "fetching", "fetched", "writing", "done", "stopped", "failed"}

\* A task's cursor is the one its next request, or its held page's commit, will use.
TaskType == [state : TaskStates, cursor : 0 .. MaxId, rows : SUBSET Ids, ends : BOOLEAN]

AtLoopHead(cursor) ==
  [state |-> IF stopping THEN "stopped" ELSE "queued",
   cursor |-> cursor, rows |-> {}, ends |-> FALSE]

InState(s) == {r \in DOMAIN tasks : tasks[r].state = s}

Pending == {r \in DOMAIN ranges : ~ranges[r].done}

Init ==
  /\ SourceInit
  /\ stored = {} /\ boundary = Unset /\ ranges = NoTasks /\ complete = FALSE /\ live = Unset
  /\ pc = "cycle" /\ held = Nothing /\ tasks = NoTasks
  /\ orphans = {} /\ stopping = FALSE /\ upsets = 0

-----------------------------------------------------------------------------
(* The source, on its own.                                                 *)

SourceMoves ==
  /\ SourceStep
  /\ UNCHANGED <<database, pc, held, tasks, orphans, stopping, upsets>>

-----------------------------------------------------------------------------
(* One turn of the main loop.                                              *)

\* Mutant: the loop does not look at the stop event.
CycleIgnoringStop ==
  /\ pc = "cycle"
  /\ \/ boundary = Unset /\ pc' = "capture"
     \/ boundary # Unset /\ ~complete /\ pc' = "plan"
     \/ boundary # Unset /\ complete /\ pc' = "poll"
  /\ UNCHANGED <<source, database, held, tasks, orphans, stopping, upsets>>

\* The next request or plan the loop is due for.
Cycle ==
  /\ pc = "cycle" /\ ~stopping
  /\ \/ boundary = Unset /\ pc' = "capture"
     \/ boundary # Unset /\ ~complete /\ pc' = "plan"
     \/ boundary # Unset /\ complete /\ pc' = "poll"
  /\ UNCHANGED <<source, database, held, tasks, orphans, stopping, upsets>>

\* maximum() answers.
CaptureAnswer ==
  /\ pc = "capture"
  /\ \E b \in 0 .. MaxId :
       /\ IsMaximum(b)
       /\ held' = [rows |-> {}, last |-> b]
  /\ pc' = "record"
  /\ UNCHANGED <<source, database, tasks, orphans, stopping, upsets>>

\* The boundary and its ranges, in one transaction and only once per generation.
RecordBoundary ==
  /\ pc = "record"
  /\ IF boundary = Unset
       THEN /\ boundary' = held.last
            /\ ranges' = [r \in Ranges(0, held.last, Parts(held.last, PageSize, PagesPerRange)) |->
                            [cursor |-> r[1], done |-> FALSE]]
       ELSE UNCHANGED <<boundary, ranges>>
  /\ pc' = "plan"
  /\ held' = Nothing
  /\ UNCHANGED <<source, stored, complete, live, tasks, orphans, stopping, upsets>>

\* One task per unfinished range, each from its stored cursor.
StartTasks ==
  /\ pc = "plan"
  /\ tasks' = [r \in Pending |-> AtLoopHead(ranges[r].cursor)]
  /\ pc' = "gather"
  /\ UNCHANGED <<source, database, held, orphans, stopping, upsets>>

\* Mutant: the boundary is declared complete as soon as the tasks have returned.
FinishTasksUnchecked ==
  /\ pc = "gather"
  /\ \A r \in DOMAIN tasks : tasks[r].state \in {"done", "stopped"}
  /\ complete' = TRUE
  /\ live' = IF live = Unset THEN boundary ELSE live
  /\ tasks' = NoTasks
  /\ pc' = "cycle"
  /\ UNCHANGED <<source, stored, boundary, ranges, held, orphans, stopping, upsets>>

\* Every task has returned.  The boundary completes only when every range has.
FinishTasks ==
  /\ pc = "gather"
  /\ \A r \in DOMAIN tasks : tasks[r].state \in {"done", "stopped"}
  /\ IF Pending = {}
       THEN /\ complete' = TRUE
            /\ live' = IF live = Unset THEN boundary ELSE live
       ELSE UNCHANGED <<complete, live>>
  /\ tasks' = NoTasks
  /\ pc' = "cycle"
  /\ UNCHANGED <<source, stored, boundary, ranges, held, orphans, stopping, upsets>>

\* The live page past the live checkpoint answers.
PollAnswer ==
  /\ pc = "poll"
  /\ \E p \in Pages(live, MaxId) : held' = [rows |-> p.rows, last |-> p.last]
  /\ pc' = "commit"
  /\ UNCHANGED <<source, database, tasks, orphans, stopping, upsets>>

\* Mutant: the live page is committed without its checkpoint.
PollCommitInPlace ==
  /\ pc = "commit"
  /\ stored' = stored \cup held.rows
  /\ held' = Nothing
  /\ pc' = "cycle"
  /\ UNCHANGED <<source, boundary, ranges, complete, live, tasks, orphans, stopping, upsets>>

\* The live page and its checkpoint, in one transaction.
PollCommit ==
  /\ pc = "commit"
  /\ stored' = stored \cup held.rows
  /\ live' = held.last
  /\ held' = Nothing
  /\ pc' = "cycle"
  /\ UNCHANGED <<source, boundary, ranges, complete, tasks, orphans, stopping, upsets>>

-----------------------------------------------------------------------------
(* One range task.                                                         *)

EnterRoom(r) ==
  /\ tasks[r].state = "queued"
  /\ Cardinality(InState("fetching")) < Concurrency
  /\ tasks' = [tasks EXCEPT ![r].state = "fetching"]
  /\ UNCHANGED <<source, database, pc, held, orphans, stopping, upsets>>

\* Mutant: a page that ends its range leaves the cursor one past it.
PageAnswerPastEnd(r) ==
  /\ tasks[r].state = "fetching"
  /\ \E p \in Pages(tasks[r].cursor, r[2]) :
       tasks' = [tasks EXCEPT ![r] =
                   [state |-> "fetched",
                    cursor |-> IF p.exceeded THEN p.last ELSE r[2] + 1,
                    rows |-> p.rows,
                    ends |-> ~p.exceeded]]
  /\ UNCHANGED <<source, database, pc, held, orphans, stopping, upsets>>

\* The page answers; the semaphore is released before the page is written.
PageAnswer(r) ==
  /\ tasks[r].state = "fetching"
  /\ \E p \in Pages(tasks[r].cursor, r[2]) :
       tasks' = [tasks EXCEPT ![r] =
                   [state |-> "fetched",
                    cursor |-> IF p.exceeded THEN p.last ELSE r[2],
                    rows |-> p.rows,
                    ends |-> ~p.exceeded]]
  /\ UNCHANGED <<source, database, pc, held, orphans, stopping, upsets>>

\* The write lock is taken and the transaction handed to a thread.
BeginWrite(r) ==
  /\ tasks[r].state = "fetched"
  /\ InState("writing") = {}
  /\ tasks' = [tasks EXCEPT ![r].state = "writing"]
  /\ UNCHANGED <<source, database, pc, held, orphans, stopping, upsets>>

\* Mutant: the checkpoint is written and the page's records are not.
WrittenWithoutRows(r, page) ==
  /\ UNCHANGED stored
  /\ ranges' = [ranges EXCEPT ![r] = [cursor |-> page.cursor, done |-> page.ends]]

\* What a page's transaction writes: its records and its range's checkpoint.
Written(r, page) ==
  /\ stored' = stored \cup page.rows
  /\ ranges' = [ranges EXCEPT ![r] = [cursor |-> page.cursor, done |-> page.ends]]

CommitPage(r) ==
  /\ tasks[r].state = "writing"
  /\ Written(r, tasks[r])
  /\ tasks' = [tasks EXCEPT ![r] =
                 IF tasks[r].ends
                   THEN [AtLoopHead(tasks[r].cursor) EXCEPT !.state = "done"]
                   ELSE AtLoopHead(tasks[r].cursor)]
  /\ UNCHANGED <<source, boundary, complete, live, pc, held, orphans, stopping, upsets>>

\* The request fails for good, or its rows do not fit the schema.
FailTask(r) ==
  /\ upsets < MaxUpsets
  /\ tasks[r].state = "fetching"
  /\ tasks' = [tasks EXCEPT ![r].state = "failed"]
  /\ upsets' = upsets + 1
  /\ UNCHANGED <<source, database, pc, held, orphans, stopping>>

TaskStep(r) == EnterRoom(r) \/ PageAnswer(r) \/ BeginWrite(r) \/ CommitPage(r)

-----------------------------------------------------------------------------
(* Failures, stops and crashes.                                            *)

\* The first failure cancels every task.  A transaction its thread has not begun is
\* dropped, one it has begun goes on without the write lock.
Abandon ==
  /\ pc = "gather"
  /\ InState("failed") # {}
  /\ \E kept \in SUBSET InState("writing") :
       orphans' = orphans \cup
         {[range |-> r, cursor |-> tasks[r].cursor, rows |-> tasks[r].rows,
           ends |-> tasks[r].ends] : r \in kept}
  /\ tasks' = NoTasks
  /\ pc' = "degrade"
  /\ UNCHANGED <<source, database, held, stopping, upsets>>

OrphanCommit ==
  /\ \E o \in orphans :
       /\ Written(o.range, o)
       /\ orphans' = orphans \ {o}
  /\ UNCHANGED <<source, boundary, complete, live, pc, held, tasks, stopping, upsets>>

\* A request of the main loop itself fails: metadata, maximum or the live page.
FailRequest ==
  /\ upsets < MaxUpsets
  /\ pc \in {"cycle", "capture", "poll"}
  /\ ~(pc = "cycle" /\ stopping)
  /\ pc' = "degrade"
  /\ upsets' = upsets + 1
  /\ UNCHANGED <<source, database, held, tasks, orphans, stopping>>

\* The status write that reports the failure, then the pause, which a stop cuts short.
ReportFailure ==
  /\ pc = "degrade"
  /\ pc' = "pause"
  /\ UNCHANGED <<source, database, held, tasks, orphans, stopping, upsets>>

EndPause ==
  /\ pc = "pause"
  /\ pc' = "cycle"
  /\ UNCHANGED <<source, database, held, tasks, orphans, stopping, upsets>>

RequestStop ==
  /\ upsets < MaxUpsets
  /\ pc # "exited" /\ ~stopping
  /\ stopping' = TRUE
  /\ upsets' = upsets + 1
  /\ UNCHANGED <<source, database, pc, held, tasks, orphans>>

Exit ==
  /\ pc = "cycle" /\ stopping
  /\ pc' = "exited"
  /\ UNCHANGED <<source, database, held, tasks, orphans, stopping, upsets>>

\* The process dies: what it held is gone, and each running transaction with it.
Crash ==
  /\ upsets < MaxUpsets
  /\ pc # "exited"
  /\ pc' = "exited" /\ held' = Nothing /\ tasks' = NoTasks /\ orphans' = {}
  /\ upsets' = upsets + 1
  /\ UNCHANGED <<source, database, stopping>>

\* The container restarts; the interpreter waited for its threads before it ended.
Restart ==
  /\ pc = "exited" /\ orphans = {}
  /\ pc' = "cycle"
  /\ stopping' = FALSE
  /\ UNCHANGED <<source, database, held, tasks, orphans, upsets>>

-----------------------------------------------------------------------------

MainStep ==
  \/ Cycle \/ CaptureAnswer \/ RecordBoundary \/ StartTasks \/ FinishTasks
  \/ PollAnswer \/ PollCommit
  \/ Abandon \/ ReportFailure \/ EndPause \/ Exit \/ Restart

WorkerStep == MainStep \/ \E r \in DOMAIN tasks : TaskStep(r)

Upset == FailRequest \/ RequestStop \/ Crash \/ \E r \in DOMAIN tasks : FailTask(r)

Next == SourceMoves \/ WorkerStep \/ OrphanCommit \/ Upset

\* The event loop runs whatever is ready, requests are answered or fail within their
\* five attempts, threads finish, and the service manager restarts the process.
Fairness == WF_vars(WorkerStep) /\ WF_vars(OrphanCommit)

SafeSpec == Init /\ [][Next]_vars

Spec == SafeSpec /\ Fairness

-----------------------------------------------------------------------------
(* Properties.                                                             *)

\* The database's tables and the process's state have the shape the code gives them.
TypeOK ==
  /\ SourceTypeOK
  /\ stored \subseteq Ids
  /\ boundary \in 0 .. MaxId \cup {Unset}
  /\ DOMAIN ranges \subseteq (0 .. MaxId) \X (0 .. MaxId)
  /\ ranges \in [DOMAIN ranges -> [cursor : 0 .. MaxId, done : BOOLEAN]]
  /\ complete \in BOOLEAN
  /\ live \in 0 .. MaxId \cup {Unset}
  /\ pc \in {"cycle", "capture", "record", "plan", "gather", "poll", "commit",
             "degrade", "pause", "exited"}
  /\ held \in [rows : SUBSET Ids, last : 0 .. MaxId]
  /\ DOMAIN tasks \subseteq DOMAIN ranges
  /\ tasks \in [DOMAIN tasks -> TaskType]
  /\ \A o \in orphans : /\ o.range \in DOMAIN ranges
                        /\ o.cursor \in 0 .. MaxId
                        /\ o.rows \subseteq Ids
                        /\ o.ends \in BOOLEAN
  /\ stopping \in BOOLEAN
  /\ upsets \in Nat

\* Between `from` and `to` every record published in order is in the set S.
Gapless(from, to, S) == \A id \in published \ late : from < id /\ id <= to => id \in S

\* A checkpoint never passes a record: whatever the interleaving of range tasks,
\* failures, late transactions and restarts, a range's cursor (the point a resumed
\* backfill continues from) and the live cursor (the point the next poll continues
\* from) have every record published in order at or below them stored, so that no
\* resumed run can skip one (commit_page, _advance, _backfill_range, _poll).
NoGap ==
  /\ \A r \in DOMAIN ranges : Gapless(r[1], ranges[r].cursor, stored)
  /\ live # Unset => Gapless(0, live, stored)

\* History is declared complete only when it is: with backfill_completed_at set, all
\* that the source published in order up to the captured boundary is stored, and the
\* live checkpoint starts no lower than that boundary (complete_backfill).
HistoryHonest ==
  complete => /\ boundary # Unset /\ live >= boundary
              /\ Gapless(0, boundary, stored)

\* A completed generation stays completed and its boundary is never captured again,
\* nor its live checkpoint moved back, by any restart or late transaction
\* (capture_boundary's and complete_backfill's conditions).
CapturedOnce ==
  [][/\ boundary # Unset => boundary' = boundary
     /\ complete => complete'
     /\ live' >= live]_vars

\* The worker keeps its promise to its readers: it implements Collection, its tables
\* being the abstract state and its ranges, tasks and transactions hidden.
Promise == INSTANCE Collection WITH stored <- stored, boundary <- boundary,
                                    complete <- complete, live <- live
CollectsFaithfully == Promise!Spec

\* Whatever failures, stops and crashes come (finitely many), every record published in
\* order is stored in the end, unless the source withdraws it first (_backfill, _poll).
\* The identifiers being bounded, so are the records published in order: some day it has
\* all of them, and for good.
EventuallyCollected == <>[](published \ late \subseteq stored)

\* A stop request ends the process wherever it arrives: in a task, in a request, in the
\* pause after a failure (run, _pause).
StopEndsTheProcess == stopping ~> pc = "exited"

=============================================================================
