---------------------------- MODULE VersionFeed ----------------------------
(***************************************************************************)
(* The API process's watch on the data version: one task polls the         *)
(* database and publishes what it reads to every /events connection, no    *)
(* more often than the interval allows.  The database is the worker's:     *)
(* versions are committed to it at any time.                               *)
(***************************************************************************)
EXTENDS Integers, Sequences

CONSTANTS MaxVersion, \* bound: the data version
          MaxUpsets   \* bound: failures

ASSUME FeedAssumption == MaxVersion \in Nat /\ MaxUpsets \in Nat

VARIABLES version,   \* the committed data version
          published, \* VersionFeed.version
          watch,     \* where the watching task is
          current,   \* the version the task has read and not yet published
          upsets     \* failures so far

\* No version: Python's None, the browser's undefined.
None == -1

Versions == 0 .. MaxVersion

feedVars == <<version, published, watch, current, upsets>>

FeedInit ==
  /\ version = 0 /\ published = None
  /\ watch = "polling" /\ current = None
  /\ upsets = 0

\* The worker commits a transaction that changes call data.
Commit ==
  /\ version < MaxVersion
  /\ version' = version + 1
  /\ UNCHANGED <<published, watch, current, upsets>>

\* A version that is not the published one is published now, or when the interval since
\* the last publication is over.
ReadVersion ==
  /\ watch = "polling" /\ version # published
  /\ current' = version
  /\ watch' \in {"publishing", "spacing"}
  /\ UNCHANGED <<version, published, upsets>>

\* What was committed during the wait is published with it.
ReadAgain ==
  /\ watch = "spacing"
  /\ current' = version
  /\ watch' = "publishing"
  /\ UNCHANGED <<version, published, upsets>>

PublishVersion ==
  /\ watch = "publishing"
  /\ published' = current
  /\ watch' = "polling"
  /\ UNCHANGED <<version, current, upsets>>

\* Mutant: a database that cannot be read ends the loop.
ReadFailsForGood ==
  /\ watch \in {"polling", "spacing"} /\ upsets < MaxUpsets
  /\ watch' = "ended"
  /\ upsets' = upsets + 1
  /\ UNCHANGED <<version, published, current>>

\* The database cannot be read: the task polls again later.
ReadFails ==
  /\ watch \in {"polling", "spacing"} /\ upsets < MaxUpsets
  /\ watch' = "polling"
  /\ upsets' = upsets + 1
  /\ UNCHANGED <<version, published, current>>

WatchStep == ReadVersion \/ ReadAgain \/ PublishVersion

FeedTypeOK ==
  /\ version \in Versions
  /\ published \in Versions \cup {None}
  /\ watch \in {"polling", "spacing", "publishing"}
  /\ current \in Versions \cup {None}
  /\ upsets \in 0 .. MaxUpsets

=============================================================================
