------------------------------ MODULE Snapshot ------------------------------
(***************************************************************************)
(* The snapshot of an API request: its queries run one at a time on the    *)
(* one thread of its executor, over a connection that the first of them    *)
(* takes from the pool and whose transaction SQLite begins at its first    *)
(* read.  Requests run beside each other and beside the worker's commits;  *)
(* resolvers go on in the event loop when their query has come back, even  *)
(* after another has failed and the response was made without them.        *)
(***************************************************************************)
EXTENDS Queries, Sequences

CONSTANTS Requests,   \* bound: the requests made
          Tables,     \* bound: the states the table of calls may be in
          None,       \* no state looked at, no answer
          PoolSize,   \* connections the engine's pool gives out at a time
          MaxCommits, \* bound: how often the worker commits
          MaxUpsets   \* bound: how many resolvers are refused or fail in the database

ASSUME SnapshotAssumption ==
  /\ PoolSize \in Nat \ {0}
  /\ MaxCommits \in Nat /\ MaxUpsets \in Nat
  /\ MapLimit \in Nat
  /\ \A calls \in Tables : IsTable(calls)
  /\ None \notin Tables

VARIABLES db,      \* the committed table
          phase,   \* a request's course: idle, resolving, closing, draining, ended
          queue,   \* the executor's queue of calls to _run and _close
          running, \* the queries the thread has still to run of the call it is at, or << >>
          conn,    \* _connection: none, waiting (for the pool) or open
          view,    \* the state its read transaction sees, None before the first read
          back,    \* calls that have returned to the event loop, not yet looked at
          answers, \* the results resolvers got, by query
          failed,  \* whether a resolver of the request has raised
          commits, upsets

vars == <<db, phase, queue, running, conn, view, back, answers, failed, commits, upsets>>

requestVars == <<phase, queue, running, conn, view, back, answers, failed>>

\* The calls a resolver hands to the executor, and the queries each makes.
Calls == {"summary", "types", "hourly", "map"}

QueriesOf(call) == IF call = "map" THEN <<"matching", "shown">> ELSE <<call>>

\* What a resolver submits when its call has come back.
FollowUp(call) == IF call = "summary" THEN <<"types", "hourly">> ELSE << >>

InUse == Cardinality({r \in Requests : conn[r] = "open"})

\* shutdown() waits in the event loop for the thread to finish its queue.
LoopIsFree == \A r \in Requests : phase[r] # "draining"

ThreadIdle(r) == running[r] = << >>

Init ==
  /\ db \in Tables
  /\ phase = [r \in Requests |-> "idle"]
  /\ queue = [r \in Requests |-> << >>]
  /\ running = [r \in Requests |-> << >>]
  /\ conn = [r \in Requests |-> "none"]
  /\ view = [r \in Requests |-> None]
  /\ back = [r \in Requests |-> << >>]
  /\ answers = [r \in Requests |-> [q \in QueryNames |-> None]]
  /\ failed = [r \in Requests |-> FALSE]
  /\ commits = 0
  /\ upsets = 0

-----------------------------------------------------------------------------
(* The worker.                                                             *)

Commit ==
  /\ commits < MaxCommits
  /\ db' \in Tables \ {db}
  /\ commits' = commits + 1
  /\ UNCHANGED <<requestVars, upsets>>

-----------------------------------------------------------------------------
(* The event loop.                                                         *)

\* The resolvers of the fields asked for submit their calls; one may be refused its input.
Start(r) ==
  /\ LoopIsFree
  /\ phase[r] = "idle"
  /\ phase' = [phase EXCEPT ![r] = "resolving"]
  /\ \E calls \in {<<"summary">>, <<"map">>, <<"summary", "map">>} :
       queue' = [queue EXCEPT ![r] = calls]
  /\ \E refused \in BOOLEAN :
       /\ refused => upsets < MaxUpsets
       /\ upsets' = IF refused THEN upsets + 1 ELSE upsets
       /\ failed' = [failed EXCEPT ![r] = refused]
  /\ UNCHANGED <<db, running, conn, view, back, answers, commits>>

\* A call has come back; its resolver goes on, whether or not it is still waited for.
Resume(r) ==
  /\ LoopIsFree
  /\ back[r] # << >>
  /\ back' = [back EXCEPT ![r] = Tail(@)]
  /\ queue' = [queue EXCEPT ![r] = IF phase[r] = "ended" THEN @ ELSE @ \o FollowUp(Head(back[r]))]
  /\ UNCHANGED <<db, phase, running, conn, view, answers, failed, commits, upsets>>

\* The response is made once every resolver is done or one has failed; close() follows.
Respond(r) ==
  /\ LoopIsFree
  /\ phase[r] = "resolving"
  /\ failed[r] \/ (queue[r] = << >> /\ ThreadIdle(r) /\ back[r] = << >>)
  /\ phase' = [phase EXCEPT ![r] = "closing"]
  /\ queue' = [queue EXCEPT ![r] = Append(@, "close")]
  /\ UNCHANGED <<db, running, conn, view, back, answers, failed, commits, upsets>>

\* The call to _close has come back; the executor takes no more and is waited for.
Shutdown(r) ==
  /\ LoopIsFree
  /\ phase[r] = "closed"
  /\ phase' = [phase EXCEPT ![r] = "draining"]
  /\ UNCHANGED <<db, queue, running, conn, view, back, answers, failed, commits, upsets>>

Drained(r) ==
  /\ phase[r] = "draining"
  /\ queue[r] = << >> /\ ThreadIdle(r)
  /\ phase' = [phase EXCEPT ![r] = "ended"]
  /\ UNCHANGED <<db, queue, running, conn, view, back, answers, failed, commits, upsets>>

-----------------------------------------------------------------------------
(* The thread.                                                             *)

\* Mutant: the call is taken for its only query.
TakeCallWhole(r) ==
  /\ ThreadIdle(r)
  /\ queue[r] # << >>
  /\ Head(queue[r]) # "close"
  /\ queue' = [queue EXCEPT ![r] = Tail(@)]
  /\ running' = [running EXCEPT ![r] = <<Head(queue[r])>>]
  /\ conn' = [conn EXCEPT ![r] = IF @ = "none" THEN "waiting" ELSE @]
  /\ UNCHANGED <<db, phase, view, back, answers, failed, commits, upsets>>

\* _run: a connection is asked for unless there is one.
TakeCall(r) ==
  /\ ThreadIdle(r)
  /\ queue[r] # << >>
  /\ Head(queue[r]) # "close"
  /\ queue' = [queue EXCEPT ![r] = Tail(@)]
  /\ running' = [running EXCEPT ![r] = QueriesOf(Head(queue[r]))]
  /\ conn' = [conn EXCEPT ![r] = IF @ = "none" THEN "waiting" ELSE @]
  /\ UNCHANGED <<db, phase, view, back, answers, failed, commits, upsets>>

Connect(r) ==
  /\ conn[r] = "waiting"
  /\ InUse < PoolSize
  /\ conn' = [conn EXCEPT ![r] = "open"]
  /\ UNCHANGED <<db, phase, queue, running, view, back, answers, failed, commits, upsets>>

\* Mutant: the pool is waited for without end.
PoolWaits(r) ==
  /\ conn[r] = "waiting"
  /\ InUse >= PoolSize
  /\ UNCHANGED vars

\* The pool's patience ends; the resolver raises, and its call is over.
PoolTimeout(r) ==
  /\ conn[r] = "waiting"
  /\ InUse >= PoolSize
  /\ conn' = [conn EXCEPT ![r] = "none"]
  /\ running' = [running EXCEPT ![r] = << >>]
  /\ failed' = [failed EXCEPT ![r] = TRUE]
  /\ UNCHANGED <<db, phase, queue, view, back, answers, commits, upsets>>

\* Mutant: no transaction, each statement sees the last commit.
RunQueryAlone(r) ==
  /\ conn[r] = "open"
  /\ ~ThreadIdle(r)
  /\ LET query == Head(running[r])
     IN  /\ answers' = [answers EXCEPT ![r] =
                          IF phase[r] = "resolving" THEN [@ EXCEPT ![query] = Result(query, db)] ELSE @]
         /\ back' = [back EXCEPT ![r] =
                       IF Len(running[r]) = 1 /\ query = "summary" THEN Append(@, query) ELSE @]
  /\ view' = [view EXCEPT ![r] = db]
  /\ running' = [running EXCEPT ![r] = Tail(@)]
  /\ UNCHANGED <<db, phase, queue, conn, failed, commits, upsets>>

\* The next query of the call; the first of the transaction settles what it sees.  After
\* the last the call's result goes back to the event loop, where only the summary has
\* more to ask.  Once the response is made nobody takes the result.
RunQuery(r) ==
  /\ conn[r] = "open"
  /\ ~ThreadIdle(r)
  /\ LET query == Head(running[r])
         seen == IF view[r] = None THEN db ELSE view[r]
     IN  /\ view' = [view EXCEPT ![r] = seen]
         /\ answers' = [answers EXCEPT ![r] =
                          IF phase[r] = "resolving" THEN [@ EXCEPT ![query] = Result(query, seen)] ELSE @]
         /\ back' = [back EXCEPT ![r] =
                       IF Len(running[r]) = 1 /\ query = "summary" THEN Append(@, query) ELSE @]
  /\ running' = [running EXCEPT ![r] = Tail(@)]
  /\ UNCHANGED <<db, phase, queue, conn, failed, commits, upsets>>

\* The database refuses a query; the resolver raises and its call is over.
QueryFails(r) ==
  /\ conn[r] = "open"
  /\ ~ThreadIdle(r)
  /\ upsets < MaxUpsets
  /\ upsets' = upsets + 1
  /\ running' = [running EXCEPT ![r] = << >>]
  /\ failed' = [failed EXCEPT ![r] = TRUE]
  /\ UNCHANGED <<db, phase, queue, conn, view, back, answers, commits>>

\* Mutant: the executor is left, the connection is not given back.
CloseKeeping(r) ==
  /\ ThreadIdle(r)
  /\ queue[r] # << >>
  /\ Head(queue[r]) = "close"
  /\ queue' = [queue EXCEPT ![r] = Tail(@)]
  /\ phase' = [phase EXCEPT ![r] = "closed"]
  /\ UNCHANGED <<db, running, conn, view, back, answers, failed, commits, upsets>>

\* _close: the connection goes back to the pool, and its transaction ends.
Close(r) ==
  /\ ThreadIdle(r)
  /\ queue[r] # << >>
  /\ Head(queue[r]) = "close"
  /\ queue' = [queue EXCEPT ![r] = Tail(@)]
  /\ conn' = [conn EXCEPT ![r] = "none"]
  /\ view' = [view EXCEPT ![r] = None]
  /\ phase' = [phase EXCEPT ![r] = "closed"]
  /\ UNCHANGED <<db, running, back, answers, failed, commits, upsets>>

\* The request's objects go, and with the last reference the pool takes back what a call
\* after _close had connected.
Reclaim(r) ==
  /\ phase[r] = "ended"
  /\ conn[r] = "open"
  /\ conn' = [conn EXCEPT ![r] = "none"]
  /\ view' = [view EXCEPT ![r] = None]
  /\ UNCHANGED <<db, phase, queue, running, back, answers, failed, commits, upsets>>

-----------------------------------------------------------------------------

LoopStep(r) == Start(r) \/ Resume(r) \/ Respond(r) \/ Shutdown(r) \/ Drained(r)

ThreadStep(r) ==
  TakeCall(r) \/ Connect(r) \/ PoolTimeout(r) \/ RunQuery(r) \/ QueryFails(r) \/ Close(r)
  \/ Reclaim(r)

Next == Commit \/ \E r \in Requests : LoopStep(r) \/ ThreadStep(r)

SafeSpec == Init /\ [][Next]_vars

\* The event loop and the threads go on; the pool's wait is bounded by its timeout.
Fairness ==
  \A r \in Requests :
    /\ WF_vars(Resume(r)) /\ WF_vars(Respond(r)) /\ WF_vars(Shutdown(r)) /\ WF_vars(Drained(r))
    /\ WF_vars(TakeCall(r)) /\ WF_vars(Connect(r) \/ PoolTimeout(r)) /\ WF_vars(RunQuery(r))
    /\ WF_vars(Close(r))

Spec == SafeSpec /\ Fairness

-----------------------------------------------------------------------------
(* Properties.                                                             *)

\* Of every request: its course, its executor's queue, its connection and what it reads.
TypeOK ==
  /\ db \in Tables
  /\ phase \in [Requests -> {"idle", "resolving", "closing", "closed", "draining", "ended"}]
  /\ queue \in [Requests -> Seq(Calls \cup {"close"})]
  /\ running \in [Requests -> Seq(QueryNames)]
  /\ conn \in [Requests -> {"none", "waiting", "open"}]
  /\ view \in [Requests -> Tables \cup {None}]
  /\ back \in [Requests -> Seq(Calls)]
  /\ \A r \in Requests, q \in QueryNames :
       answers[r][q] = None \/ \E t \in Tables : answers[r][q] = Result(q, t)
  /\ failed \in [Requests -> BOOLEAN]
  /\ commits \in Nat /\ upsets \in Nat

\* Whatever is committed between the queries of a request, it reads one state and its
\* answers are of that state alone: Snapshot implements Reading (Snapshot._run).
Promise == INSTANCE Reading
             WITH view <- [r \in Requests |-> IF phase[r] = "resolving" THEN view[r] ELSE None],
                  sent <- [r \in Requests |-> phase[r] \notin {"idle", "resolving"}]
ReadsOneState == Promise!Spec

Answered(r, query) == answers[r][query] # None

\* The numbers a page shows together agree, although they were counted one by one while
\* the worker committed: the types and the rest, and the hours, add up to the total, the
\* map's total is the summary's, and no located call is missing from an untruncated map.
AnswersAgree ==
  \A r \in Requests :
    /\ Answered(r, "summary") /\ Answered(r, "types") =>
         SumOf(answers[r]["types"].entries) + answers[r]["types"].other = answers[r]["summary"].total
    /\ Answered(r, "summary") /\ Answered(r, "hourly") =>
         SumOf(answers[r]["hourly"]) = answers[r]["summary"].total
    /\ Answered(r, "summary") /\ Answered(r, "matching") =>
         answers[r]["summary"] = answers[r]["matching"]
    /\ Answered(r, "matching") /\ Answered(r, "shown") =>
         LET located == answers[r]["matching"].located
             shown == Cardinality(answers[r]["shown"])
         IN  shown = IF located > MapLimit THEN MapLimit ELSE located

\* A request that ended well has given its connection back, and nothing of it is left to
\* run (Snapshot.close).
NothingHeld ==
  \A r \in Requests :
    phase[r] = "ended" =>
      /\ queue[r] = << >> /\ ThreadIdle(r)
      /\ failed[r] \/ conn[r] = "none"

\* Every request ends, although its calls wait for a connection that others hold and some
\* fail (Snapshot.close, with the pool's timeout).
RequestsEnd == \A r \in Requests : phase[r] = "resolving" ~> phase[r] = "ended"

=============================================================================
