--------------------------- MODULE BackfillProofs ---------------------------
(***************************************************************************)
(* Backfill never skips a record, for every source, page size, number of   *)
(* tasks and ranges, and every sequence of failures, stops and crashes.    *)
(*                                                                         *)
(* NoGap is not inductive: a checkpoint is written from what a task or the *)
(* main loop holds, so the invariant also says that each held page, and    *)
(* each transaction running on its own, covers what its cursor claims.     *)
(* A record published after a boundary was captured lies above every       *)
(* cursor or counts as late, which is why cursors stay at or below `top`.  *)
(***************************************************************************)
EXTENDS Backfill, TLAPS

-----------------------------------------------------------------------------
(* The ranges of a partition cover what they must and do not overlap, for  *)
(* every boundary and number of parts.                                     *)

LEMMA WidthPositive ==
  ASSUME NEW lower \in Nat, NEW upper \in Nat, NEW parts \in Nat \ {0}, lower <= upper
  PROVE  Width(lower, upper, parts) \in Nat \ {0}
BY DEF Width, Larger, CeilDiv

LEMMA PartsPositive ==
  ASSUME NEW n \in Nat, NEW size \in Nat \ {0}, NEW pages \in Nat \ {0}
  PROVE  Parts(n, size, pages) \in Nat \ {0}
<1>1. size * pages \in Nat \ {0}
  OBVIOUS
<1> QED
  BY <1>1 DEF Parts, Larger, CeilDiv

LEMMA DivisionBounds ==
  ASSUME NEW n \in Nat, NEW w \in Nat \ {0}
  PROVE  /\ n \div w \in 0 .. n
         /\ (n \div w) * w <= n
         /\ n < (n \div w) * w + w
<1>1. n \div w \in Int /\ n % w \in 0 .. w - 1 /\ n = w * (n \div w) + (n % w)
  OBVIOUS
<1>2. n \div w >= 0
  BY <1>1
<1>3. w * (n \div w) >= n \div w
  BY <1>1, <1>2
<1> QED
  BY <1>1, <1>2, <1>3

\* Every OBJECTID of (lower, upper] lies in some range, and every range lies within it
\* (partition, ingest.py).
THEOREM RangesCover ==
  ASSUME NEW lower \in Nat, NEW upper \in Nat, NEW parts \in Nat \ {0}, lower <= upper
  PROVE  /\ \A r \in Ranges(lower, upper, parts) :
              r \in (lower .. upper) \X (lower .. upper) /\ r[1] < r[2]
         /\ \A id \in (lower + 1) .. upper :
              \E r \in Ranges(lower, upper, parts) : r[1] < id /\ id <= r[2]
<1> DEFINE w == Width(lower, upper, parts)
<1>1. w \in Nat \ {0}
  BY WidthPositive
<1> HIDE DEF w
<1>2. ASSUME NEW s \in Starts(lower, upper, w)
      PROVE  /\ s \in lower .. (upper - 1)
             /\ s < Smaller(s + w, upper)
             /\ Smaller(s + w, upper) \in lower .. upper
  BY <1>1, <1>2 DEF Starts, Smaller
<1>3. Ranges(lower, upper, parts) = {<<s, Smaller(s + w, upper)>> : s \in Starts(lower, upper, w)}
  BY DEF Ranges, w
<1>4. ASSUME NEW id \in (lower + 1) .. upper
      PROVE  \E s \in Starts(lower, upper, w) : s < id /\ id <= Smaller(s + w, upper)
  <2> DEFINE n == id - 1 - lower
             k == n \div w
             s == lower + k * w
  <2>1. n \in Nat
    BY <1>4
  <2>2. k \in 0 .. n /\ k * w <= n /\ n < k * w + w
    BY <1>1, <2>1, DivisionBounds
  <2>3. k * w \in Nat
    BY <1>1, <2>2
  <2> HIDE DEF k
  <2>4. k \in 0 .. (upper - lower)
    BY <2>2, <1>4
  <2>5. s \in lower .. (upper - 1) /\ s < id /\ id <= Smaller(s + w, upper)
    BY <1>1, <2>2, <2>3, <1>4 DEF Smaller
  <2>6. s \in Starts(lower, upper, w)
    BY <2>4, <2>5 DEF Starts
  <2> QED
    BY <2>5, <2>6
<1>5. ASSUME NEW r \in Ranges(lower, upper, parts)
      PROVE  r \in (lower .. upper) \X (lower .. upper) /\ r[1] < r[2]
  <2>1. PICK s \in Starts(lower, upper, w) : r = <<s, Smaller(s + w, upper)>>
    BY <1>3
  <2>2. s \in lower .. upper /\ s < Smaller(s + w, upper) /\ Smaller(s + w, upper) \in lower .. upper
    BY <1>2
  <2> QED
    BY <2>1, <2>2
<1>6. ASSUME NEW id \in (lower + 1) .. upper
      PROVE  \E r \in Ranges(lower, upper, parts) : r[1] < id /\ id <= r[2]
  <2>1. PICK s \in Starts(lower, upper, w) : s < id /\ id <= Smaller(s + w, upper)
    BY <1>4
  <2>2. <<s, Smaller(s + w, upper)>> \in Ranges(lower, upper, parts)
    BY <1>3
  <2> QED
    BY <2>1, <2>2
<1> QED
  BY <1>5, <1>6

\* Two different ranges share no OBJECTID (partition, ingest.py).
THEOREM RangesDisjoint ==
  ASSUME NEW lower \in Nat, NEW upper \in Nat, NEW parts \in Nat \ {0}, lower <= upper,
         NEW r \in Ranges(lower, upper, parts), NEW q \in Ranges(lower, upper, parts), r # q
  PROVE  r[2] <= q[1] \/ q[2] <= r[1]
<1> DEFINE w == Width(lower, upper, parts)
<1>1. w \in Nat \ {0}
  BY WidthPositive
<1> HIDE DEF w
<1>2. PICK s \in Starts(lower, upper, w) : r = <<s, Smaller(s + w, upper)>>
  BY DEF Ranges, w
<1>3. PICK t \in Starts(lower, upper, w) : q = <<t, Smaller(t + w, upper)>>
  BY DEF Ranges, w
<1>4. PICK i \in 0 .. (upper - lower) : s = lower + i * w
  BY DEF Starts
<1>5. PICK j \in 0 .. (upper - lower) : t = lower + j * w
  BY DEF Starts
<1>6. s \in Int /\ t \in Int /\ s # t
  BY <1>2, <1>3 DEF Starts
<1>7. i < j \/ j < i
  BY <1>4, <1>5, <1>6
<1>8. ASSUME NEW a \in Nat, NEW b \in Nat, a < b
      PROVE  a * w + w <= b * w
  <2>1. (b - a - 1) * w >= 0
    BY <1>1, <1>8
  <2> QED
    BY <1>1, <2>1
<1>9. CASE i < j
  <2>1. s + w <= t
    BY <1>1, <1>4, <1>5, <1>8, <1>9
  <2> QED
    BY <1>1, <1>2, <1>3, <1>6, <2>1 DEF Smaller
<1>10. CASE j < i
  <2>1. t + w <= s
    BY <1>1, <1>4, <1>5, <1>8, <1>10
  <2> QED
    BY <1>1, <1>2, <1>3, <1>6, <2>1 DEF Smaller
<1> QED
  BY <1>7, <1>9, <1>10

-----------------------------------------------------------------------------
(* The invariant.                                                          *)

\* Where the main loop may be, given what the database holds.
Control ==
  /\ boundary = Unset => DOMAIN ranges = {} /\ ~complete
  /\ complete <=> live # Unset
  /\ pc \in {"capture", "record"} => boundary = Unset
  /\ pc \in {"plan", "gather"} => boundary # Unset /\ ~complete
  /\ pc \in {"poll", "commit"} => complete
  /\ pc # "gather" => DOMAIN tasks = {}

\* Cursors stay within their ranges, and everything at or below `top`.
Bounded ==
  /\ boundary <= top
  /\ live <= top
  /\ complete => boundary <= live
  /\ stored \subseteq 1 .. top
  /\ \A r \in DOMAIN ranges : /\ r[2] <= top
                              /\ ranges[r].cursor <= r[2]
                              /\ ranges[r].done => ranges[r].cursor = r[2]
  /\ \A r \in DOMAIN tasks : /\ tasks[r].cursor <= r[2]
                             /\ tasks[r].ends => tasks[r].cursor = r[2]
                             /\ tasks[r].rows \subseteq 1 .. top
  /\ \A o \in orphans : /\ o.cursor <= o.range[2]
                        /\ o.ends => o.cursor = o.range[2]
                        /\ o.rows \subseteq 1 .. top
  /\ pc \in {"record", "commit"} => held.last <= top
  /\ pc = "commit" => live <= held.last /\ held.rows \subseteq 1 .. top

\* The ranges leave no OBJECTID of the captured history out.
Covered ==
  \A id \in 1 .. MaxId :
    id <= boundary => \E r \in DOMAIN ranges : r[1] < id /\ id <= r[2]

\* What is held covers what its cursor will claim.
HeldCovers ==
  /\ \A r \in DOMAIN tasks : tasks[r].state \in {"queued", "fetching"} => tasks[r].rows = {}
  /\ \A r \in DOMAIN tasks : Gapless(r[1], tasks[r].cursor, stored \cup tasks[r].rows)
  /\ \A o \in orphans : Gapless(o.range[1], o.cursor, stored \cup o.rows)
  /\ pc = "commit" => Gapless(0, held.last, stored \cup held.rows)

IInv == TypeOK /\ Control /\ Bounded /\ Covered /\ NoGap /\ HeldCovers

-----------------------------------------------------------------------------
(* Facts about one page, and the initial state.                            *)

\* An accepted page holds what the source publishes from the cursor to the page's end,
\* which is the upper bound when the page claims no more.
LEMMA PageFacts ==
  ASSUME SourceTypeOK, SourceAssumption,
         NEW cursor \in 0 .. MaxId, NEW upper \in 0 .. MaxId, cursor <= top,
         NEW p \in Pages(cursor, upper)
  PROVE  /\ p.rows \subseteq published
         /\ p.last \in 0 .. MaxId /\ cursor <= p.last /\ p.last <= top
         /\ p.exceeded \in BOOLEAN
         /\ p.last <= upper \/ p.last = cursor
         /\ \A id \in published : cursor < id /\ id <= upper /\ id <= p.last => id \in p.rows
         /\ ~p.exceeded => \A id \in published : cursor < id /\ id <= upper => id \in p.rows
<1> DEFINE found == Matching(cursor, upper)
<1>1. PICK last \in found \cup {cursor}, more \in BOOLEAN :
        p = [rows |-> {id \in found : id <= last}, last |-> last, exceeded |-> more]
  BY DEF Pages
<1>2. p.rows # found => p.exceeded
  BY DEF Pages
<1> QED
  BY <1>1, <1>2 DEF Matching, SourceTypeOK, Ids

LEMMA InitIInv == Init => IInv
<1> USE SourceAssumption, BackfillAssumption
<1> SUFFICES ASSUME Init PROVE IInv
  OBVIOUS
<1> USE DEF Init, SourceInit, SourceTypeOK, Ids, Nothing, NoTasks, Unset
<1>1. DOMAIN ranges = {} /\ DOMAIN tasks = {}
  OBVIOUS
<1>2. TypeOK
  <2>1. ranges \in [DOMAIN ranges -> [cursor : 0 .. MaxId, done : BOOLEAN]]
    BY <1>1
  <2>2. tasks \in [DOMAIN tasks -> TaskType]
    BY <1>1
  <2>3. SourceTypeOK
    OBVIOUS
  <2>4. held \in [rows : SUBSET Ids, last : 0 .. MaxId]
    OBVIOUS
  <2> QED
    BY <1>1, <2>1, <2>2, <2>3, <2>4 DEF TypeOK
<1>3. Control /\ Bounded /\ Covered /\ NoGap /\ HeldCovers
  BY <1>1 DEF Control, Bounded, Covered, NoGap, HeldCovers
<1> QED
  BY <1>2, <1>3 DEF IInv

-----------------------------------------------------------------------------
(* Steps that only move the main loop, or drop what it or a task holds.    *)

LEMMA ControlStepKeeps ==
  ASSUME IInv, TypeOK', Control',
         UNCHANGED <<source, database>>,
         orphans' \subseteq orphans,
         tasks' = tasks \/ tasks' = NoTasks,
         pc' \notin {"record", "commit"} \/ UNCHANGED <<pc, held>>
  PROVE  IInv'
<1> USE SourceAssumption DEF IInv, SourceTypeOK, Ids, TaskType, TaskStates, Nothing, NoTasks, Unset, source, database
<1>1. Bounded'
  BY DEF TypeOK, Control, Bounded
<1>2. Covered' /\ NoGap'
  BY DEF Covered, NoGap, Gapless
<1>3. HeldCovers'
  BY DEF HeldCovers, Gapless
<1> QED
  BY <1>1, <1>2, <1>3

LEMMA LoopStepKeeps ==
  ASSUME IInv,
         Cycle \/ ReportFailure \/ EndPause \/ Exit \/ Restart \/ RequestStop \/ FailRequest \/ Crash
  PROVE  IInv'
<1> USE SourceAssumption, BackfillAssumption DEF IInv, SourceTypeOK, Ids, TaskType, TaskStates, Nothing, NoTasks, Unset, source, database
<1>1. CASE Cycle
  <2>1. TypeOK'
    BY <1>1 DEF Cycle, TypeOK
  <2>2. Control'
    BY <1>1 DEF Cycle, TypeOK, Control
  <2> QED
    BY <1>1, <2>1, <2>2, ControlStepKeeps DEF Cycle
<1>2. CASE ReportFailure
  <2>1. TypeOK'
    BY <1>2 DEF ReportFailure, TypeOK
  <2>2. Control'
    BY <1>2 DEF ReportFailure, TypeOK, Control
  <2> QED
    BY <1>2, <2>1, <2>2, ControlStepKeeps DEF ReportFailure
<1>3. CASE EndPause
  <2>1. TypeOK'
    BY <1>3 DEF EndPause, TypeOK
  <2>2. Control'
    BY <1>3 DEF EndPause, TypeOK, Control
  <2> QED
    BY <1>3, <2>1, <2>2, ControlStepKeeps DEF EndPause
<1>4. CASE Exit
  <2>1. TypeOK'
    BY <1>4 DEF Exit, TypeOK
  <2>2. Control'
    BY <1>4 DEF Exit, TypeOK, Control
  <2> QED
    BY <1>4, <2>1, <2>2, ControlStepKeeps DEF Exit
<1>5. CASE Restart
  <2>1. TypeOK'
    BY <1>5 DEF Restart, TypeOK
  <2>2. Control'
    BY <1>5 DEF Restart, TypeOK, Control
  <2> QED
    BY <1>5, <2>1, <2>2, ControlStepKeeps DEF Restart
<1>6. CASE RequestStop
  <2>1. TypeOK'
    BY <1>6 DEF RequestStop, TypeOK
  <2>2. Control'
    BY <1>6 DEF RequestStop, TypeOK, Control
  <2> QED
    BY <1>6, <2>1, <2>2, ControlStepKeeps DEF RequestStop
<1>7. CASE FailRequest
  <2>1. TypeOK'
    BY <1>7 DEF FailRequest, TypeOK
  <2>2. Control'
    BY <1>7 DEF FailRequest, TypeOK, Control
  <2> QED
    BY <1>7, <2>1, <2>2, ControlStepKeeps DEF FailRequest
<1>8. CASE Crash
  <2>1. TypeOK'
    BY <1>8 DEF Crash, TypeOK
  <2>2. Control'
    BY <1>8 DEF Crash, TypeOK, Control
  <2> QED
    BY <1>8, <2>1, <2>2, ControlStepKeeps DEF Crash
<1> QED
  BY <1>1, <1>2, <1>3, <1>4, <1>5, <1>6, <1>7, <1>8

-----------------------------------------------------------------------------
(* The main loop's requests, plans and transactions.                       *)

LEMMA CaptureAnswerKeeps ==
  ASSUME IInv, CaptureAnswer
  PROVE  IInv'
<1> USE SourceAssumption, BackfillAssumption
<1> USE DEF CaptureAnswer, IsMaximum, IInv, SourceTypeOK, Ids, TaskType, TaskStates, Nothing, NoTasks, Unset, source, database
<1>1. TypeOK'
  BY DEF TypeOK, Control
<1>2. Control'
  BY DEF TypeOK, Control
<1>3. Bounded'
  BY DEF TypeOK, Control, Bounded
<1>4. Covered'
  BY DEF TypeOK, Control, Covered, Bounded
<1>5. NoGap'
  BY DEF TypeOK, Control, NoGap, Gapless, Bounded, HeldCovers, Covered
<1>6. HeldCovers'
  BY DEF TypeOK, Control, NoGap, Gapless, Bounded, HeldCovers
<1> QED
  BY <1>1, <1>2, <1>3, <1>4, <1>5, <1>6

LEMMA RecordBoundaryKeeps ==
  ASSUME IInv, RecordBoundary
  PROVE  IInv'
<1> USE SourceAssumption, BackfillAssumption
<1> USE DEF RecordBoundary, IInv, SourceTypeOK, Ids, TaskType, TaskStates, Nothing, NoTasks, Unset, source, database
<1> DEFINE parts == Parts(held.last, PageSize, PagesPerRange)
<1>1. held.last \in 0 .. MaxId /\ held.last <= top /\ boundary = Unset /\ ~complete /\ live = Unset
  BY DEF TypeOK, Control, Bounded
<1>2. parts \in Nat \ {0}
  BY <1>1, PartsPositive
<1> HIDE DEF parts
<1>3. /\ \A q \in Ranges(0, held.last, parts) :
           q \in (0 .. held.last) \X (0 .. held.last) /\ q[1] < q[2]
      /\ \A id \in 1 .. held.last :
           \E q \in Ranges(0, held.last, parts) : q[1] < id /\ id <= q[2]
  <2>1. held.last \in Nat /\ 0 <= held.last /\ 0 + 1 = 1
    BY <1>1
  <2> QED
    BY <1>2, <2>1, RangesCover
<1>4. /\ boundary' = held.last
      /\ ranges' = [q \in Ranges(0, held.last, parts) |-> [cursor |-> q[1], done |-> FALSE]]
  BY <1>1 DEF parts
<1>5. tasks = NoTasks \/ DOMAIN tasks = {}
  BY DEF Control
<1>6. DOMAIN ranges = {} /\ orphans = {}
  BY <1>1 DEF Control, TypeOK
<1>7. TypeOK'
  BY <1>1, <1>3, <1>4, <1>5, <1>6 DEF TypeOK
<1>8. Control'
  BY <1>1, <1>4, <1>5 DEF Control
<1>9. Bounded'
  BY <1>1, <1>3, <1>4, <1>5, <1>6 DEF TypeOK, Bounded
<1>10. Covered'
  BY <1>1, <1>3, <1>4 DEF Covered
<1>11. NoGap'
  BY <1>1, <1>3, <1>4 DEF TypeOK, NoGap, Gapless
<1>12. HeldCovers'
  BY <1>5, <1>6 DEF HeldCovers
<1> QED
  BY <1>7, <1>8, <1>9, <1>10, <1>11, <1>12

LEMMA StartTasksKeeps ==
  ASSUME IInv, StartTasks
  PROVE  IInv'
<1> USE SourceAssumption, BackfillAssumption
<1> USE DEF StartTasks, AtLoopHead, Pending, IInv, SourceTypeOK, Ids, TaskType, TaskStates, Nothing, NoTasks, Unset, source, database
<1>1. TypeOK'
  BY DEF TypeOK, Control
<1>2. Control'
  BY DEF TypeOK, Control
<1>3. Bounded'
  BY DEF TypeOK, Control, Bounded
<1>4. Covered'
  BY DEF TypeOK, Control, Covered, Bounded
<1>5. NoGap'
  BY DEF TypeOK, Control, NoGap, Gapless, Bounded, HeldCovers, Covered
<1>6. HeldCovers'
  BY DEF TypeOK, Control, NoGap, Gapless, Bounded, HeldCovers
<1> QED
  BY <1>1, <1>2, <1>3, <1>4, <1>5, <1>6

LEMMA FinishTasksKeeps ==
  ASSUME IInv, FinishTasks
  PROVE  IInv'
<1> USE SourceAssumption, BackfillAssumption
<1> USE DEF FinishTasks, Pending, IInv, SourceTypeOK, Ids, TaskType, TaskStates, Nothing, NoTasks, Unset, source, database
<1>1. TypeOK'
  BY DEF TypeOK, Control
<1>2. Control'
  BY DEF TypeOK, Control
<1>3. Bounded'
  BY DEF TypeOK, Control, Bounded
<1>4. Covered'
  BY DEF TypeOK, Control, Covered, Bounded
<1>5. NoGap'
  BY DEF TypeOK, Control, NoGap, Gapless, Bounded, HeldCovers, Covered
<1>6. HeldCovers'
  BY DEF TypeOK, Control, NoGap, Gapless, Bounded, HeldCovers
<1> QED
  BY <1>1, <1>2, <1>3, <1>4, <1>5, <1>6

LEMMA PollAnswerKeeps ==
  ASSUME IInv, PollAnswer
  PROVE  IInv'
<1> USE SourceAssumption, BackfillAssumption
<1> USE DEF PollAnswer, IInv, SourceTypeOK, Ids, TaskType, TaskStates, Nothing, NoTasks, Unset, source, database
<1>1. live \in 0 .. MaxId /\ live <= top
  BY DEF TypeOK, Control, Bounded
<1>2. PICK p \in Pages(live, MaxId) : held' = [rows |-> p.rows, last |-> p.last]
  OBVIOUS
<1>3. /\ p.rows \subseteq published
      /\ p.last \in 0 .. MaxId /\ live <= p.last /\ p.last <= top
      /\ \A id \in published : live < id /\ id <= p.last => id \in p.rows
  BY <1>1, PageFacts DEF TypeOK
<1> HIDE DEF PollAnswer
<1>4. /\ pc = "poll" /\ pc' = "commit"
      /\ UNCHANGED <<source, database, tasks, orphans, stopping, upsets>>
  BY DEF PollAnswer
<1>5. TypeOK'
  BY <1>2, <1>3, <1>4 DEF TypeOK
<1>6. Control'
  BY <1>4 DEF Control
<1>7. Bounded'
  BY <1>2, <1>3, <1>4 DEF TypeOK, Bounded
<1>8. Covered'
  BY <1>4 DEF Covered
<1>9. NoGap'
  BY <1>4 DEF NoGap, Gapless
<1>10. HeldCovers'
  BY <1>1, <1>2, <1>3, <1>4 DEF HeldCovers, Gapless, TypeOK, NoGap, Control
<1> QED
  BY <1>5, <1>6, <1>7, <1>8, <1>9, <1>10

LEMMA PollCommitKeeps ==
  ASSUME IInv, PollCommit
  PROVE  IInv'
<1> USE SourceAssumption, BackfillAssumption
<1> USE DEF PollCommit, IInv, SourceTypeOK, Ids, TaskType, TaskStates, Nothing, NoTasks, Unset, source, database
<1>1. TypeOK'
  <2>1. /\ stored' \subseteq Ids /\ live' \in 0 .. MaxId
        /\ held' \in [rows : SUBSET Ids, last : 0 .. MaxId] /\ pc' = "cycle"
    BY DEF TypeOK
  <2>2. UNCHANGED <<source, boundary, ranges, complete, tasks, orphans, stopping, upsets>>
    OBVIOUS
  <2> HIDE DEF PollCommit, Nothing, TaskType
  <2> QED BY <2>1, <2>2 DEF TypeOK
<1>2. Control'
  BY DEF TypeOK, Control
<1>3. Bounded'
  BY DEF TypeOK, Control, Bounded
<1>4. Covered'
  BY DEF TypeOK, Control, Covered, Bounded
<1>5. NoGap'
  BY DEF TypeOK, Control, NoGap, Gapless, Bounded, HeldCovers, Covered
<1>6. HeldCovers'
  BY DEF TypeOK, Control, NoGap, Gapless, Bounded, HeldCovers
<1> QED
  BY <1>1, <1>2, <1>3, <1>4, <1>5, <1>6

LEMMA AbandonKeeps ==
  ASSUME IInv, Abandon
  PROVE  IInv'
<1> USE DEF IInv, source, database
<1>1. /\ pc = "gather" /\ pc' = "degrade" /\ tasks' = NoTasks
      /\ UNCHANGED <<source, database, held, stopping, upsets>>
  BY DEF Abandon
<1>2. DOMAIN tasks' = {} /\ tasks' \in [DOMAIN tasks' -> TaskType]
  BY <1>1 DEF NoTasks
<1>3. ASSUME NEW r \in DOMAIN tasks
      PROVE  /\ r \in DOMAIN ranges /\ tasks[r].cursor \in 0 .. MaxId
             /\ tasks[r].rows \subseteq Ids /\ tasks[r].ends \in BOOLEAN
  BY DEF TypeOK, TaskType
<1>4. ASSUME NEW o \in orphans', o \notin orphans
      PROVE  \E r \in DOMAIN tasks : /\ o.range = r /\ o.cursor = tasks[r].cursor
                                     /\ o.rows = tasks[r].rows /\ o.ends = tasks[r].ends
  BY <1>4 DEF Abandon, InState
<1>5. TypeOK'
  <2>1. ASSUME NEW o \in orphans'
        PROVE  /\ o.range \in DOMAIN ranges /\ o.cursor \in 0 .. MaxId
               /\ o.rows \subseteq Ids /\ o.ends \in BOOLEAN
    <3>1. CASE o \in orphans
      BY <3>1 DEF TypeOK
    <3>2. CASE o \notin orphans
      BY <1>3, <1>4, <3>2
    <3> QED
      BY <3>1, <3>2
  <2> QED
    BY <1>1, <1>2, <2>1 DEF TypeOK, SourceTypeOK, Ids
<1>6. Control'
  BY <1>1, <1>2 DEF Control
<1>7. Bounded'
  <2>1. ASSUME NEW o \in orphans'
        PROVE  /\ o.cursor <= o.range[2]
               /\ o.ends => o.cursor = o.range[2]
               /\ o.rows \subseteq 1 .. top
    <3>1. CASE o \in orphans
      BY <3>1 DEF Bounded
    <3>2. CASE o \notin orphans
      BY <1>4, <3>2 DEF Bounded
    <3> QED
      BY <3>1, <3>2
  <2> QED
    BY <1>1, <1>2, <2>1 DEF Bounded
<1>8. Covered'
  BY <1>1 DEF Covered
<1>9. NoGap'
  BY <1>1 DEF NoGap, Gapless
<1>10. HeldCovers'
  <2>1. ASSUME NEW o \in orphans'
        PROVE  Gapless(o.range[1], o.cursor, stored \cup o.rows)
    <3>1. CASE o \in orphans
      BY <3>1 DEF HeldCovers
    <3>2. CASE o \notin orphans
      BY <1>4, <3>2 DEF HeldCovers
    <3> QED
      BY <3>1, <3>2
  <2> QED
    BY <1>1, <1>2, <2>1 DEF HeldCovers, Gapless
<1> QED
  BY <1>5, <1>6, <1>7, <1>8, <1>9, <1>10

-----------------------------------------------------------------------------
(* A page's transaction, by its task or on its own.                        *)

LEMMA OrphanCommitKeeps ==
  ASSUME IInv, OrphanCommit
  PROVE  IInv'
<1> USE SourceAssumption, BackfillAssumption
<1> USE DEF OrphanCommit, Written, IInv, SourceTypeOK, Ids, Unset, source, database
<1>1. PICK o \in orphans : /\ Written(o.range, o)
                           /\ orphans' = orphans \ {o}
  OBVIOUS
<1>2. /\ o.range \in DOMAIN ranges
      /\ DOMAIN ranges' = DOMAIN ranges
      /\ \A r \in DOMAIN ranges : ranges'[r] = IF r = o.range THEN [cursor |-> o.cursor, done |-> o.ends]
                                                            ELSE ranges[r]
      /\ stored' = stored \cup o.rows
  BY <1>1 DEF TypeOK
<1>3. TypeOK'
  BY DEF TypeOK
<1>4. Control'
  BY <1>2 DEF Control
<1>5. Bounded'
  BY <1>1, <1>2 DEF TypeOK, Bounded
<1>6. Covered'
  BY <1>2 DEF Covered
<1>7. NoGap'
  <2>1. Gapless(o.range[1], o.cursor, stored \cup o.rows)
    BY DEF HeldCovers
  <2>2. \A r \in DOMAIN ranges : r # o.range => Gapless(r[1], ranges[r].cursor, stored')
    BY <1>2 DEF NoGap, Gapless
  <2>3. live # Unset => Gapless(0, live, stored')
    BY <1>2 DEF NoGap, Gapless
  <2> HIDE DEF Written
  <2> QED
    BY <1>2, <2>1, <2>2, <2>3 DEF NoGap, Gapless
<1>8. HeldCovers'
  BY <1>1, <1>2 DEF HeldCovers, Gapless
<1> QED
  BY <1>3, <1>4, <1>5, <1>6, <1>7, <1>8

LEMMA TaskChangeKeeps ==
  ASSUME IInv, NEW r \in DOMAIN tasks, pc = "gather",
         NEW t \in TaskType,
         tasks' = [tasks EXCEPT ![r] = t],
         UNCHANGED <<source, database, pc, held, orphans, stopping>>,
         upsets' \in Nat,
         t.cursor <= r[2],
         t.ends => t.cursor = r[2],
         t.rows \subseteq 1 .. top,
         t.state \in {"queued", "fetching"} => t.rows = {},
         Gapless(r[1], t.cursor, stored \cup t.rows)
  PROVE  IInv'
<1> USE SourceAssumption DEF IInv, source, database
<1>1. /\ DOMAIN tasks' = DOMAIN tasks
      /\ \A q \in DOMAIN tasks : tasks'[q] = IF q = r THEN t ELSE tasks[q]
  BY DEF TypeOK
<1>2. tasks' \in [DOMAIN tasks -> TaskType]
  BY DEF TypeOK
<1>3. TypeOK'
  BY <1>1, <1>2 DEF TypeOK, SourceTypeOK, TaskType
<1>4. Control'
  BY <1>1 DEF Control
<1>5. Bounded'
  BY <1>1 DEF Bounded
<1>6. Covered' /\ NoGap'
  BY DEF Covered, NoGap, Gapless
<1>7. HeldCovers'
  <2>1. \A q \in DOMAIN tasks' : tasks'[q].state \in {"queued", "fetching"} => tasks'[q].rows = {}
    BY <1>1 DEF HeldCovers
  <2>2. \A q \in DOMAIN tasks' : Gapless(q[1], tasks'[q].cursor, stored \cup tasks'[q].rows)
    BY <1>1 DEF HeldCovers
  <2> QED
    BY <2>1, <2>2 DEF HeldCovers, Gapless
<1> QED
  BY <1>3, <1>4, <1>5, <1>6, <1>7

LEMMA EnterRoomKeeps ==
  ASSUME IInv, NEW r \in DOMAIN tasks, EnterRoom(r)
  PROVE  IInv'
<1> USE SourceAssumption, BackfillAssumption
<1> USE DEF IInv, SourceTypeOK, Ids, TaskType, TaskStates, Nothing, NoTasks, Unset, source, database
<1> DEFINE t == [tasks[r] EXCEPT !.state = "fetching"]
<1>5. /\ tasks' = [tasks EXCEPT ![r] = t]
      /\ UNCHANGED <<source, database, pc, held, orphans, stopping>>
      /\ upsets' \in Nat
  BY DEF TypeOK, EnterRoom
<1>6. /\ tasks[r] \in TaskType
      /\ pc = "gather"
  BY DEF TypeOK, Control
<1>7. /\ t \in TaskType
      /\ t.cursor <= r[2]
      /\ t.ends => t.cursor = r[2]
      /\ t.rows \subseteq 1 .. top
      /\ t.state \in {"queued", "fetching"} => t.rows = {}
      /\ Gapless(r[1], t.cursor, stored \cup t.rows)
  BY <1>6 DEF TypeOK, Bounded, HeldCovers, EnterRoom
<1> HIDE DEF t
<1> QED
  BY <1>5, <1>6, <1>7, TaskChangeKeeps

LEMMA PageAnswerKeeps ==
  ASSUME IInv, NEW r \in DOMAIN tasks, PageAnswer(r)
  PROVE  IInv'
<1> USE SourceAssumption, BackfillAssumption
<1> USE DEF IInv, SourceTypeOK, Ids, TaskType, TaskStates, Nothing, NoTasks, Unset, source, database
<1>1. /\ tasks[r].cursor \in 0 .. MaxId /\ r[2] \in 0 .. MaxId /\ r[1] \in 0 .. MaxId
      /\ tasks[r].cursor <= r[2] /\ r[2] <= top
      /\ tasks[r].state = "fetching"
  BY DEF TypeOK, Bounded, PageAnswer
<1>2. PICK p \in Pages(tasks[r].cursor, r[2]) :
        tasks' = [tasks EXCEPT ![r] =
                    [state |-> "fetched",
                     cursor |-> IF p.exceeded THEN p.last ELSE r[2],
                     rows |-> p.rows,
                     ends |-> ~p.exceeded]]
  BY DEF PageAnswer
<1>3. /\ p.rows \subseteq published
      /\ p.last \in 0 .. MaxId /\ p.last <= top
      /\ p.exceeded \in BOOLEAN
      /\ p.last <= r[2]
      /\ \A id \in published : tasks[r].cursor < id /\ id <= r[2] /\ id <= p.last => id \in p.rows
      /\ ~p.exceeded => \A id \in published : tasks[r].cursor < id /\ id <= r[2] => id \in p.rows
  BY <1>1, PageFacts DEF TypeOK
<1>4. Gapless(r[1], tasks[r].cursor, stored)
  BY <1>1 DEF HeldCovers
<1> DEFINE t == [state |-> "fetched",
                cursor |-> IF p.exceeded THEN p.last ELSE r[2],
                rows |-> p.rows,
                ends |-> ~p.exceeded]
<1>5. /\ tasks' = [tasks EXCEPT ![r] = t]
      /\ UNCHANGED <<source, database, pc, held, orphans, stopping>>
      /\ upsets' \in Nat
  BY <1>2 DEF TypeOK, PageAnswer
<1>6. /\ tasks[r] \in TaskType
      /\ pc = "gather"
  BY DEF TypeOK, Control
<1>7. /\ t \in TaskType
      /\ t.cursor <= r[2]
      /\ t.ends => t.cursor = r[2]
      /\ t.rows \subseteq 1 .. top
      /\ t.state \in {"queued", "fetching"} => t.rows = {}
      /\ Gapless(r[1], t.cursor, stored \cup t.rows)
  <2>1. t \in TaskType /\ t.rows \subseteq 1 .. top /\ t.state = "fetched"
    BY <1>1, <1>3 DEF TypeOK
  <2>2. t.cursor <= r[2] /\ (t.ends => t.cursor = r[2])
    <3>1. CASE p.exceeded
      BY <1>3, <3>1
    <3>2. CASE ~p.exceeded
      BY <1>1, <3>2
    <3> QED
      BY <3>1, <3>2
  <2>3. ASSUME NEW id \in published \ late, r[1] < id, id <= t.cursor
        PROVE  id \in stored \cup t.rows
    <3>1. CASE id <= tasks[r].cursor
      BY <1>4, <2>3, <3>1 DEF Gapless
    <3>2. CASE tasks[r].cursor < id
      BY <1>1, <1>3, <2>2, <2>3, <3>2 DEF TypeOK
    <3> QED
      BY <1>1, <3>1, <3>2 DEF TypeOK
  <2> QED
    BY <2>1, <2>2, <2>3 DEF Gapless
<1> HIDE DEF t
<1> QED
  BY <1>5, <1>6, <1>7, TaskChangeKeeps

LEMMA BeginWriteKeeps ==
  ASSUME IInv, NEW r \in DOMAIN tasks, BeginWrite(r)
  PROVE  IInv'
<1> USE SourceAssumption, BackfillAssumption
<1> USE DEF IInv, SourceTypeOK, Ids, TaskType, TaskStates, Nothing, NoTasks, Unset, source, database
<1> DEFINE t == [tasks[r] EXCEPT !.state = "writing"]
<1>5. /\ tasks' = [tasks EXCEPT ![r] = t]
      /\ UNCHANGED <<source, database, pc, held, orphans, stopping>>
      /\ upsets' \in Nat
  BY DEF TypeOK, BeginWrite
<1>6. /\ tasks[r] \in TaskType
      /\ pc = "gather"
  BY DEF TypeOK, Control
<1>7. /\ t \in TaskType
      /\ t.cursor <= r[2]
      /\ t.ends => t.cursor = r[2]
      /\ t.rows \subseteq 1 .. top
      /\ t.state \in {"queued", "fetching"} => t.rows = {}
      /\ Gapless(r[1], t.cursor, stored \cup t.rows)
  BY <1>6 DEF TypeOK, Bounded, HeldCovers, BeginWrite
<1> HIDE DEF t
<1> QED
  BY <1>5, <1>6, <1>7, TaskChangeKeeps

LEMMA CommitPageKeeps ==
  ASSUME IInv, NEW r \in DOMAIN tasks, CommitPage(r)
  PROVE  IInv'
<1> USE SourceAssumption, BackfillAssumption
<1> USE DEF CommitPage, Written, AtLoopHead, IInv, SourceTypeOK, Ids, TaskType, TaskStates, Nothing, NoTasks, Unset, source, database
<1>1. TypeOK'
  BY DEF TypeOK, Control
<1>2. Control'
  BY DEF TypeOK, Control
<1>3. Bounded'
  BY DEF TypeOK, Control, Bounded
<1>4. Covered'
  BY DEF TypeOK, Control, Covered, Bounded
<1>5. NoGap'
  BY DEF TypeOK, Control, NoGap, Gapless, Bounded, HeldCovers, Covered
<1>6. HeldCovers'
  BY DEF TypeOK, Control, NoGap, Gapless, Bounded, HeldCovers
<1> QED
  BY <1>1, <1>2, <1>3, <1>4, <1>5, <1>6

LEMMA FailTaskKeeps ==
  ASSUME IInv, NEW r \in DOMAIN tasks, FailTask(r)
  PROVE  IInv'
<1> USE SourceAssumption, BackfillAssumption
<1> USE DEF IInv, SourceTypeOK, Ids, TaskType, TaskStates, Nothing, NoTasks, Unset, source, database
<1> DEFINE t == [tasks[r] EXCEPT !.state = "failed"]
<1>5. /\ tasks' = [tasks EXCEPT ![r] = t]
      /\ UNCHANGED <<source, database, pc, held, orphans, stopping>>
      /\ upsets' \in Nat
  BY DEF TypeOK, FailTask
<1>6. /\ tasks[r] \in TaskType
      /\ pc = "gather"
  BY DEF TypeOK, Control
<1>7. /\ t \in TaskType
      /\ t.cursor <= r[2]
      /\ t.ends => t.cursor = r[2]
      /\ t.rows \subseteq 1 .. top
      /\ t.state \in {"queued", "fetching"} => t.rows = {}
      /\ Gapless(r[1], t.cursor, stored \cup t.rows)
  BY <1>6 DEF TypeOK, Bounded, HeldCovers, FailTask
<1> HIDE DEF t
<1> QED
  BY <1>5, <1>6, <1>7, TaskChangeKeeps

-----------------------------------------------------------------------------
(* The source, which no cursor can overtake.                               *)

\* A change of the source publishes nothing in order at or below `top`.
LEMMA SourceFacts ==
  ASSUME SourceAssumption, SourceTypeOK, SourceStep
  PROVE  /\ SourceTypeOK'
         /\ top <= top'
         /\ \A id \in published' \ late' : id \in published \ late \/ id > top
<1> USE DEF SourceTypeOK, Ids
<1>1. PICK id \in Ids : Publish(id) \/ Withdraw(id)
  BY DEF SourceStep
<1>2. CASE Publish(id)
  BY <1>2 DEF Publish
<1>3. CASE Withdraw(id)
  BY <1>3 DEF Withdraw
<1> QED
  BY <1>1, <1>2, <1>3

LEMMA SourceMovesKeeps ==
  ASSUME IInv, SourceMoves
  PROVE  IInv'
<1> USE SourceAssumption, BackfillAssumption DEF IInv, SourceMoves, database
<1>1. /\ SourceTypeOK'
      /\ top \in Nat /\ top' \in Nat /\ top <= top'
      /\ \A id \in published' \ late' : id \in Ids /\ (id \in published \ late \/ id > top)
  BY SourceFacts DEF TypeOK, SourceTypeOK, Ids
<1>2. TypeOK'
  BY <1>1 DEF TypeOK
<1>3. Control' /\ Covered'
  BY DEF Control, Covered
<1>4. Bounded'
  <2>1. 1 .. top \subseteq 1 .. top'
    BY <1>1
  <2>2. \A r \in DOMAIN ranges : r[2] \in Int
    BY DEF TypeOK
  <2>3. boundary \in Int /\ live \in Int /\ held.last \in Int
    BY DEF TypeOK, Unset
  <2> QED
    BY <1>1, <2>1, <2>2, <2>3 DEF Bounded
<1>5. /\ \A r \in DOMAIN ranges : /\ r[1] \in Int /\ r[2] \in Int
                                  /\ ranges[r].cursor \in Int /\ ranges[r].cursor <= top
      /\ \A r \in DOMAIN tasks : /\ r[1] \in Int /\ r[2] \in Int /\ r[2] <= top
                                 /\ tasks[r].cursor \in Int /\ tasks[r].cursor <= top
      /\ \A o \in orphans : /\ o.range[1] \in Int /\ o.range[2] \in Int /\ o.range[2] <= top
                            /\ o.cursor \in Int /\ o.cursor <= top
      /\ live \in Int /\ live <= top
      /\ held.last \in Int /\ (pc = "commit" => held.last <= top)
  BY <1>1 DEF TypeOK, Bounded, TaskType, Unset
<1>6. NoGap'
  <2>1. \A r \in DOMAIN ranges : Gapless(r[1], ranges[r].cursor, stored)'
    BY <1>1, <1>5 DEF NoGap, Gapless, Ids
  <2>2. live # Unset => Gapless(0, live, stored)'
    BY <1>1, <1>5 DEF NoGap, Gapless, Ids
  <2> QED
    BY <2>1, <2>2 DEF NoGap, Gapless
<1>7. HeldCovers'
  <2>1. \A r \in DOMAIN tasks : Gapless(r[1], tasks[r].cursor, stored \cup tasks[r].rows)'
    BY <1>1, <1>5 DEF HeldCovers, Gapless, Ids
  <2>2. \A o \in orphans : Gapless(o.range[1], o.cursor, stored \cup o.rows)'
    BY <1>1, <1>5 DEF HeldCovers, Gapless, Ids
  <2>3. pc = "commit" => Gapless(0, held.last, stored \cup held.rows)'
    BY <1>1, <1>5 DEF HeldCovers, Gapless, Ids
  <2> QED
    BY <2>1, <2>2, <2>3 DEF HeldCovers, Gapless
<1> QED
  BY <1>2, <1>3, <1>4, <1>6, <1>7

-----------------------------------------------------------------------------
(* The theorems.                                                           *)

LEMMA StepKeeps ==
  ASSUME IInv, [Next]_vars
  PROVE  IInv'
<1>1. CASE SourceMoves
  BY <1>1, SourceMovesKeeps
<1>2. CASE MainStep
  BY <1>2, LoopStepKeeps, CaptureAnswerKeeps, RecordBoundaryKeeps, StartTasksKeeps, FinishTasksKeeps,
     PollAnswerKeeps, PollCommitKeeps, AbandonKeeps DEF MainStep
<1>3. ASSUME NEW r \in DOMAIN tasks, TaskStep(r)
      PROVE  IInv'
  BY <1>3, EnterRoomKeeps, PageAnswerKeeps, BeginWriteKeeps, CommitPageKeeps DEF TaskStep
<1>4. CASE OrphanCommit
  BY <1>4, OrphanCommitKeeps
<1>5. CASE Upset
  BY <1>5, LoopStepKeeps, FailTaskKeeps DEF Upset
<1>6. CASE UNCHANGED vars
  BY <1>6 DEF vars, source, database, IInv, TypeOK, SourceTypeOK, Control, Bounded, Covered, NoGap,
              Gapless, HeldCovers
<1> QED
  BY <1>1, <1>2, <1>3, <1>4, <1>5, <1>6 DEF Next, WorkerStep

\* Every step of the worker and of the source keeps checkpoints, pages held and ranges in accord.
THEOREM InductiveInvariant == SafeSpec => []IInv
<1>1. IInv /\ [Next]_vars => IInv'
  BY StepKeeps
<1> QED
  BY InitIInv, <1>1, PTL DEF SafeSpec

\* The tables and the process's state keep their shape in every behaviour.
THEOREM TypeInvariant == SafeSpec => []TypeOK
<1>1. IInv => TypeOK
  BY DEF IInv
<1> QED
  BY <1>1, InductiveInvariant, PTL

\* No checkpoint ever passes a record published in order that is not stored
\* (commit_page and _advance, store.py; _backfill_range and _poll, worker.py).
THEOREM NoGapHolds == SafeSpec => []NoGap
<1>1. IInv => NoGap
  BY DEF IInv
<1> QED
  BY <1>1, InductiveInvariant, PTL

\* History is declared complete only when it is (complete_backfill, store.py).
THEOREM HistoryHonestHolds == SafeSpec => []HistoryHonest
<1>1. IInv => HistoryHonest
  <2> SUFFICES ASSUME IInv, complete
               PROVE  boundary # Unset /\ live >= boundary /\ Gapless(0, boundary, stored)
    BY DEF HistoryHonest
  <2>1. boundary \in Int /\ live \in Int /\ published \subseteq Int
    BY DEF IInv, TypeOK, SourceTypeOK, Ids, Unset
  <2>2. boundary # Unset /\ live # Unset /\ boundary <= live /\ Gapless(0, live, stored)
    BY DEF IInv, Control, Bounded, NoGap
  <2> QED
    BY <2>1, <2>2 DEF Gapless
<1> QED
  BY <1>1, InductiveInvariant, PTL

-----------------------------------------------------------------------------
(* Each step of the worker is a step of Collection, or none of its concern. *)

\* What a step leaves of the database and the source, when it is no transaction.
LEMMA QuietSteps ==
  ASSUME Cycle \/ CaptureAnswer \/ StartTasks \/ PollAnswer \/ Abandon \/ ReportFailure
           \/ EndPause \/ Exit \/ Restart \/ RequestStop \/ FailRequest \/ Crash
  PROVE  UNCHANGED <<source, database>>
BY DEF Cycle, CaptureAnswer, StartTasks, PollAnswer, Abandon, ReportFailure, EndPause, Exit,
       Restart, RequestStop, FailRequest, Crash

LEMMA QuietTaskSteps ==
  ASSUME NEW r, EnterRoom(r) \/ PageAnswer(r) \/ BeginWrite(r) \/ FailTask(r)
  PROVE  UNCHANGED <<source, database>>
BY DEF EnterRoom, PageAnswer, BeginWrite, FailTask

\* Whatever the interleaving and the failures, the worker's steps are steps of
\* Collection (worker.py and store.py against what they promise).
THEOREM Refinement == SafeSpec => CollectsFaithfully
<1>1. Init => Promise!Init
  BY DEF Init, Promise!Init, Unset, Promise!Unset, SourceInit, Promise!SourceInit, Ids, Promise!Ids
<1>2. ASSUME IInv, IInv', [Next]_vars
      PROVE  [Promise!Next]_(Promise!collectionVars)
  <2> USE SourceAssumption DEF IInv, source, database, Promise!collectionVars, Promise!Next,
          Promise!Unset, Unset
  <2>1. CASE UNCHANGED <<source, database>>
    BY <2>1
  <2>2. CASE SourceMoves
    BY <2>2 DEF SourceMoves, Promise!SourceMoves, SourceStep, Promise!SourceStep, Ids, Promise!Ids,
                Publish, Promise!Publish, Withdraw, Promise!Withdraw
  <2>3. CASE RecordBoundary
    <3>1. boundary' \in 0 .. top
      BY <1>2, <2>3 DEF RecordBoundary, TypeOK, Control, Bounded
    <3> QED
      BY <1>2, <2>3, <3>1 DEF RecordBoundary, Control, Promise!CaptureBoundary
  <2>4. CASE FinishTasks
    <3>1. CASE Pending = {}
      <4>1. /\ ~complete /\ boundary # Unset /\ live = Unset
            /\ complete' = TRUE /\ live' = boundary
            /\ UNCHANGED <<published, late, top, stored, boundary>>
        BY <1>2, <2>4, <3>1 DEF FinishTasks, Control
      <4>2. Gapless(0, boundary, stored)
        BY <1>2, <4>1 DEF NoGap, TypeOK, Gapless
      <4>3. Promise!CollectedUpTo(boundary, stored)
        BY <1>2, <4>2 DEF Gapless, Promise!CollectedUpTo, TypeOK, SourceTypeOK, Ids
      <4> QED
        BY <4>1, <4>3 DEF Promise!FinishHistory
    <3>2. CASE Pending # {}
      BY <2>4, <3>2 DEF FinishTasks
    <3> QED
      BY <3>1, <3>2
  <2>5. CASE PollCommit
    <3>1. /\ complete /\ stored' = stored \cup held.rows /\ live' = held.last
          /\ UNCHANGED <<published, late, top, boundary, complete>>
      BY <1>2, <2>5 DEF PollCommit, Control
    <3>2. live' \in live .. top /\ stored' \subseteq 1 .. top
      BY <1>2, <2>5, <3>1 DEF PollCommit, Control, Bounded, TypeOK
    <3>3. Promise!CollectedUpTo(live', stored')
      BY <1>2, <2>5, <3>1 DEF PollCommit, HeldCovers, Gapless, Promise!CollectedUpTo, TypeOK,
                              SourceTypeOK, Ids
    <3> QED
      BY <3>1, <3>2, <3>3 DEF Promise!Follow
  <2>6. ASSUME NEW r \in DOMAIN tasks, CommitPage(r)
        PROVE  Promise!Collect
    BY <1>2, <2>6 DEF CommitPage, Written, Bounded, Promise!Collect
  <2>7. CASE OrphanCommit
    BY <1>2, <2>7 DEF OrphanCommit, Written, Bounded, Promise!Collect
  <2>8. CASE UNCHANGED vars
    BY <2>1, <2>8 DEF vars
  <2> HIDE DEF IInv, source, database, Promise!collectionVars, Promise!Next
  <2>9. CASE MainStep
    BY <2>1, <2>3, <2>4, <2>5, <2>9, QuietSteps DEF MainStep
  <2>10. ASSUME NEW r \in DOMAIN tasks, TaskStep(r)
         PROVE  [Promise!Next]_(Promise!collectionVars)
    BY <2>1, <2>6, <2>10, QuietTaskSteps DEF TaskStep, Promise!Next
  <2>11. CASE Upset
    BY <2>1, <2>11, QuietSteps, QuietTaskSteps DEF Upset
  <2> QED
    BY <1>2, <2>2, <2>7, <2>8, <2>9, <2>10, <2>11 DEF Next, WorkerStep
<1> QED
  BY <1>1, <1>2, InductiveInvariant, PTL DEF SafeSpec, CollectsFaithfully, Promise!Spec

\* The boundary is captured once, completion is final and the live checkpoint only
\* advances (the conditions of capture_boundary and complete_backfill, store.py).
THEOREM CapturedOnceHolds == SafeSpec => CapturedOnce
<1> DEFINE Step == /\ boundary # Unset => boundary' = boundary
                   /\ complete => complete'
                   /\ live' >= live
<1>1. ASSUME IInv, [Promise!Next]_(Promise!collectionVars)
      PROVE  Step
  <2> USE DEF Promise!Unset, Unset
  <2>1. live \in Int /\ boundary \in Int /\ (complete <=> live # Unset)
        /\ (complete => boundary <= live) /\ live >= -1 /\ boundary >= -1
    BY <1>1, SourceAssumption DEF IInv, TypeOK, Control, Bounded
  <2>2. CASE Promise!Follow
    BY <2>1, <2>2 DEF Promise!Follow
  <2>3. CASE Promise!FinishHistory
    BY <2>1, <2>3 DEF Promise!FinishHistory
  <2>4. CASE Promise!CaptureBoundary \/ Promise!Collect \/ Promise!SourceMoves
    BY <2>1, <2>4 DEF Promise!CaptureBoundary, Promise!Collect, Promise!SourceMoves
  <2>5. CASE UNCHANGED Promise!collectionVars
    BY <2>1, <2>5 DEF Promise!collectionVars
  <2> QED
    BY <1>1, <2>2, <2>3, <2>4, <2>5 DEF Promise!Next
<1>2. ASSUME IInv, [Promise!Next]_(Promise!collectionVars)
      PROVE  [Step]_vars
  BY <1>1, <1>2
<1> HIDE DEF Step
<1>3. SafeSpec => [][Step]_vars
  BY <1>2, InductiveInvariant, Refinement, PTL DEF CollectsFaithfully, Promise!Spec
<1> QED
  BY <1>3 DEF CapturedOnce, Step

=============================================================================
