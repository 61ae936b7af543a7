------------------------------- MODULE Backup -------------------------------
(***************************************************************************)
(* `panel backup`, run by its timer and by hand: each run copies the       *)
(* database beside the others and beside the worker's commits, publishes   *)
(* the copy under the moment it began, and removes all but the newest.  A  *)
(* run may be killed or fail at any of its steps.                          *)
(***************************************************************************)
EXTENDS Integers, FiniteSets, FiniteSetsExt

CONSTANTS Takers,     \* who runs it: the timer, the operator
          Keep,       \* backup_keep
          Torn,       \* a file that holds part of a copy
          Absent,     \* no file of that name
          MaxCommits, \* bound: states the database comes to be in
          MaxStamp,   \* bound: backups begun
          MaxFailures \* bound: runs that are killed or fail

ASSUME BackupAssumption ==
  /\ Keep \in Nat \ {0}
  /\ MaxCommits \in Nat /\ MaxStamp \in Nat /\ MaxFailures \in Nat
  /\ Torn \notin Nat /\ Absent \notin Nat /\ Torn # Absent

VARIABLES db,       \* the committed state, by number
          clock,    \* the moment the last backup began; no two begin in the same one
          pc,       \* where a run is: idle, begun, copying, copied, listing, pruning
          stamp,    \* the moment in the name of a run's target
          snapshot, \* the state a run's copy is of
          left,     \* what a run has still to unlink
          files,    \* the published backups, by stamp
          partials, \* the copies not yet published, by stamp
          ever,     \* history: the stamps ever published
          since,    \* history: the state committed when a run began
          alone,    \* history: no other run was under way since a run began
          failures

vars == <<db, clock, pc, stamp, snapshot, left, files, partials, ever, since, alone, failures>>

Stamps == 1 .. MaxStamp

\* The names are of equal length, so they sort as their moments do.
StoredBackups == {s \in Stamps : files[s] # Absent}

Newer(s, stamps) == {n \in stamps : n > s}

\* Mutant: one more than `keep` is kept.
OlderThanMore(stamps) == {s \in stamps : Cardinality(Newer(s, stamps)) > Keep}

\* Mutant: the oldest are kept, stored_backups(directory)[keep:].
AfterTheOldest(stamps) == {s \in stamps : Cardinality({n \in stamps : n < s}) >= Keep}

\* stored_backups(directory)[:-keep]: nothing when there are no more than `keep`.
Prunable(stamps) == {s \in stamps : Cardinality(Newer(s, stamps)) >= Keep}

Init ==
  /\ db = 0
  /\ clock = 0
  /\ pc = [t \in Takers |-> "idle"]
  /\ stamp = [t \in Takers |-> 0]
  /\ snapshot = [t \in Takers |-> 0]
  /\ left = [t \in Takers |-> {}]
  /\ files = [s \in Stamps |-> Absent]
  /\ partials = [s \in Stamps |-> Absent]
  /\ ever = {}
  /\ since = [s \in Stamps |-> 0]
  /\ alone = [t \in Takers |-> FALSE]
  /\ failures = 0

-----------------------------------------------------------------------------

\* The worker commits, whatever backups are under way.
Commit ==
  /\ db < MaxCommits
  /\ db' = db + 1
  /\ UNCHANGED <<clock, pc, stamp, snapshot, left, files, partials, ever, since, alone, failures>>

\* The run reads the clock for its target's name.
Begin(t) ==
  /\ pc[t] = "idle"
  /\ clock < MaxStamp
  /\ clock' = clock + 1
  /\ pc' = [pc EXCEPT ![t] = "begun"]
  /\ stamp' = [stamp EXCEPT ![t] = clock']
  /\ since' = [since EXCEPT ![clock'] = db]
  /\ alone' = [other \in Takers |-> other = t /\ \A u \in Takers : pc[u] = "idle"]
  /\ UNCHANGED <<db, snapshot, left, files, partials, ever, failures>>

\* Mutant: the copy is written under its final name.
OpenCopyInPlace(t) ==
  /\ pc[t] = "begun"
  /\ pc' = [pc EXCEPT ![t] = "copying"]
  /\ snapshot' = [snapshot EXCEPT ![t] = db]
  /\ files' = [files EXCEPT ![stamp[t]] = Torn]
  /\ ever' = ever \cup {stamp[t]}
  /\ UNCHANGED <<db, clock, stamp, left, partials, since, alone, failures>>

\* SQLite's backup begins a read transaction and writes the pages it sees to the partial.
OpenCopy(t) ==
  /\ pc[t] = "begun"
  /\ pc' = [pc EXCEPT ![t] = "copying"]
  /\ snapshot' = [snapshot EXCEPT ![t] = db]
  /\ partials' = [partials EXCEPT ![stamp[t]] = Torn]
  /\ UNCHANGED <<db, clock, stamp, left, files, ever, since, alone, failures>>

\* Both connections are closed over the last page.
EndCopy(t) ==
  /\ pc[t] = "copying"
  /\ pc' = [pc EXCEPT ![t] = "copied"]
  /\ partials' = [partials EXCEPT ![stamp[t]] = snapshot[t]]
  /\ UNCHANGED <<db, clock, stamp, snapshot, left, files, ever, since, alone, failures>>

\* partial.replace(target).
Publish(t) ==
  /\ pc[t] = "copied"
  /\ pc' = [pc EXCEPT ![t] = "listing"]
  /\ files' = [files EXCEPT ![stamp[t]] = partials[stamp[t]]]
  /\ partials' = [partials EXCEPT ![stamp[t]] = Absent]
  /\ ever' = ever \cup {stamp[t]}
  /\ UNCHANGED <<db, clock, stamp, snapshot, left, since, alone, failures>>

\* prune settles what it removes before it removes the first.
List(t) ==
  /\ pc[t] = "listing"
  /\ pc' = [pc EXCEPT ![t] = "pruning"]
  /\ left' = [left EXCEPT ![t] = Prunable(StoredBackups)]
  /\ UNCHANGED <<db, clock, stamp, snapshot, files, partials, ever, since, alone, failures>>

\* The oldest first.  The name is gone already when another run has removed it: unlink
\* raises, and the run is over with the rest of its list still there.
Unlink(t) ==
  /\ pc[t] = "pruning"
  /\ left[t] # {}
  /\ LET oldest == Min(left[t])
     IN  IF files[oldest] = Absent
           THEN /\ pc' = [pc EXCEPT ![t] = "idle"]
                /\ left' = [left EXCEPT ![t] = {}]
                /\ UNCHANGED files
           ELSE /\ files' = [files EXCEPT ![oldest] = Absent]
                /\ left' = [left EXCEPT ![t] = @ \ {oldest}]
                /\ UNCHANGED pc
  /\ UNCHANGED <<db, clock, stamp, snapshot, partials, ever, since, alone, failures>>

\* The run ends well.
Return(t) ==
  /\ pc[t] = "pruning"
  /\ left[t] = {}
  /\ pc' = [pc EXCEPT ![t] = "idle"]
  /\ UNCHANGED <<db, clock, stamp, snapshot, left, files, partials, ever, since, alone, failures>>

\* The process is killed, or a step raises (no room, a database locked for too long): what
\* it has written stays as it is, a partial copy among it.
Fail(t) ==
  /\ pc[t] # "idle"
  /\ failures < MaxFailures
  /\ failures' = failures + 1
  /\ pc' = [pc EXCEPT ![t] = "idle"]
  /\ left' = [left EXCEPT ![t] = {}]
  /\ UNCHANGED <<db, clock, stamp, snapshot, files, partials, ever, since, alone>>

TakeBackup(t) ==
  \/ Begin(t) \/ OpenCopy(t) \/ EndCopy(t) \/ Publish(t)
  \/ List(t) \/ Unlink(t) \/ Return(t) \/ Fail(t)

Next == Commit \/ \E t \in Takers : TakeBackup(t)

Spec == Init /\ [][Next]_vars

-----------------------------------------------------------------------------
(* Properties.                                                             *)

\* The files, and of every run where it is and what it has to unlink.
TypeOK ==
  /\ db \in Nat /\ clock \in 0 .. MaxStamp /\ failures \in Nat
  /\ pc \in [Takers -> {"idle", "begun", "copying", "copied", "listing", "pruning"}]
  /\ stamp \in [Takers -> 0 .. MaxStamp]
  /\ snapshot \in [Takers -> Nat]
  /\ left \in [Takers -> SUBSET Stamps]
  /\ files \in [Stamps -> Nat \cup {Torn, Absent}]
  /\ partials \in [Stamps -> Nat \cup {Torn, Absent}]
  /\ ever \subseteq Stamps
  /\ since \in [Stamps -> Nat]
  /\ alone \in [Takers -> BOOLEAN]

\* What lies under the name of a backup is always a whole committed state, no older than
\* the moment in its name, wherever a run was killed and whatever was committed while it
\* copied (copy_database: "publishing it only once it is complete").
WholeCopies ==
  \A s \in StoredBackups : files[s] # Torn /\ files[s] \in since[s] .. db

\* The newest backups ever published are all there, though runs prune beside each other
\* from lists that grow old and stop half-way (prune: "all but the newest keep").
NewestSurvive ==
  \A s \in ever : Cardinality(Newer(s, ever)) < Keep => files[s] # Absent

\* A run that ends well with no other beside it leaves its own backup and no more than
\* `keep` in all, whatever killed or failed runs had left behind (take_backup).
AloneCleansUp ==
  [][\A t \in Takers :
       pc[t] = "pruning" /\ left[t] = {} /\ pc'[t] = "idle" /\ alone[t] =>
         stamp[t] \in StoredBackups' /\ Cardinality(StoredBackups') <= Keep]_vars

=============================================================================
