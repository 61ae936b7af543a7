# A verified model of the Nashville public safety data panel

The panel collects the calls Metro Nashville's police publish in one ArcGIS layer into SQLite
and shows them on a public dashboard. This directory specifies, in TLA+, the parts of it whose
correctness depends on order: concurrent collection that is interrupted and resumed,
reconciliation against a source that changes meanwhile, pagination over rows that are being
edited, events that race with the answers they make stale, the status the public is shown, the
budget of requests, the snapshot a request reads, the limits on what it may ask, the days a reader
means, and the backups. TLC checks the modules on small instances; TLAPS proves their
safety properties, every one, for every value of the constants.

Paths below are relative to `src/`; `worker.py`, `store.py`, `ingest.py` and the like are in
`backend/panel/`, `monitor.tsx` and `events.ts` in `frontend/src/`.

- [The system](#the-system)
- [The modules](#the-modules)
- [What the runs check](#what-the-runs-check)
- [What is proved](#what-is-proved)
- [Where code and text disagree](#where-code-and-text-disagree)
- [Bounds](#bounds), [fairness](#fairness), [what is left out](#what-is-left-out)
- [Plan](#plan)

## The system

Three processes share one SQLite file (WAL): the **worker** writes it, the **API** reads it, a
**backup** timer copies it. Browsers talk to the API: GraphQL for data, one server-sent event
stream for the number of the latest data version.

| Component | State | Operations | Interacts with | What makes it correct |
|---|---|---|---|---|
| Backfill (`worker.py` 203-257, `store.py` 196-353, `ingest.py` `partition`) | ranges with cursors, captured boundary, completion, live cursor (durable); one asyncio task per range, a semaphore, a write lock, transactions in threads (volatile) | capture the boundary, plan ranges, fetch a page, commit a page, complete, resume | source by HTTP, store by transaction, signal handler | no checkpoint passes a record that is not stored; history is complete when it says so; it ends |
| Polling and reconciliation (`worker.py` 259-317, `store.py` 355-393) | live cursor, presence of each row (durable); pass with its scope, cursor and identifiers seen (volatile) | poll, due pass, pass page, finish, mark removed | source, store | no published record is taken for a removed one; the database converges |
| Lifecycle (`worker.py` 84-200, 319-375) | generation, time of the last check, retry state; status row, schema snapshots (durable) | check source, start a generation, check identifiers, block, degrade, pause, stop | source, store, everything that raises | one generation per dataset, nothing collected after a conflict, an honest status, recovery |
| Store (`store.py`, `tables.py`) | generations, ranges, calls with first and changed version, status, one `data_version` | one transaction per operation | worker, API by snapshot | what belongs together is one transaction; every change has a version |
| Transport and pacer (`ingest.py` 34-241) | rate, next start, cooldown, two locks | enter, leave, fail, five attempts | source | the source's rate is respected, every request ends |
| Schema check (`schema.py`) | none | compare fields, check rows | lifecycle | a comparison; it decides conflicts |
| Version feed (`api/events.py`) | published version, an event, connections with what each was told | read the version, publish, wait, stream | store, browsers | no version is left unpublished, no client waits for ever |
| Snapshot (`api/snapshot.py`) | an executor of one thread, a pooled connection, its transaction | run, close | event loop, pool, store | all queries of a request see one state; the connection goes back; the request ends |
| Queries and GraphQL (`api/queries.py`, `api/schema.py`) | none; a cursor travels with the client | feed page, new-call count, map, summary, facets, status, version | snapshot | a pinned list is stable; numbers shown together agree |
| Limits (`api/limits.py`, the checks of `api/schema.py`) | none | walk a document, check sizes and ranges | graphql-core's rules and executor | an accepted document returns no more than it was reckoned to |
| Event connection (`frontend/src/api/events.ts`) | an EventSource, last version | open, fail, reopen, deliver | version feed, dashboard | every commit reaches the page |
| Dashboard (`monitor.tsx`, `frontend/src/api/queries.ts`) | anchor version, live or frozen time, pause, filters, a query cache | refresh, pause, resume, show new calls, change filters | API | never at rest on old data; still while paused |
| Presentation (`frontend/src/components/*`) | selection, open panels | render | dashboard | - |
| Time windows (`time.ts`, `filters.ts`, `filter-bar.tsx`, `activity.ts`) | the range in the form | choose a preset or dates, ask, bucket the answer | dashboard, API | a day in Chicago is that day, clock changes included; what the form accepts the API accepts; the bars hold every call |
| Backup (`backup.py`) | published files, partial copies | copy, rename, prune, several at a time | SQLite, its timer, the operator | only complete backups, the newest are kept |
| Command line, settings, migrations | stop signal | ingest, api, migrate, backup | all | a stop ends the process |
| Containers, edge, guest, CI (`containers/`, `infra/`, `.github/`) | configuration | restart the worker, proxy, ban | all | the worker comes back |

What is hard in it: several range tasks answer in any order and one that fails cancels the
others while a transaction of theirs is still running in a thread; the process may die between
any two transactions; the source grows, edits, withdraws and republishes records, and is replaced
as a whole, between any two pages; OBJECTIDs can become visible out of order; a reader pages through rows
that change; events, answers and gestures interleave in the browser; streams break and the API
restarts; the queries of one request run one by one while the worker commits, and some go on after
another has failed the request; two backups prune the same directory. The hazards in `PROJECT.json` name each with its line and the properties that would
catch it going wrong.

## The modules

Arrows are EXTENDS or INSTANCE.

```
Source <- Collection <- (refined by) Backfill -> Partition        BackfillProofs
                                     Reconcile                    ReconcileProofs
                                     Lifecycle                    LifecycleProofs
                        Records <-   PinnedFeed                   PinnedFeedProofs
                        VersionFeed <- LiveUpdates                  DashboardProofs
                                     Pacer                        PacerProofs
Reading <- (refined by) Snapshot -> Queries                       SnapshotProofs
               Windows <- RangeForm <- Admission -> Execution -> Limits   DashboardProofs
                                     Backup                       BackupProofs
```

Each detailed module has an `MC...` module that TLC runs, one `.cfg` for each question.

**Partition** is `ingest.partition`: ranges of equal width from 0 to a boundary, the last one
cut off. **Source** is the layer as far as collecting can tell: OBJECTIDs published in order or
late (`late` marks one that appeared below a greater one), withdrawn, and what a page of a range
may answer (`Pages`: the matching records from a cursor, the most the page size allows and the
flag that says whether there are more).

**Collection** is the abstract specification of collecting: capture a boundary once, store
records, declare history complete only when it is, then move a live frontier that never passes a
record that was not stored.

**Backfill** is the worker collecting one generation, as it runs. `pc` is where `run`'s loop is;
`tasks` are the range tasks of `_backfill`, each waiting for room, fetching, holding a page,
writing, done or failed; the database's variables change only by the action of a transaction.
A failing task makes `_backfill` cancel the others: those with a transaction in a thread become
`orphans`, whose commit may still come at any later time (`OrphanCommit`). That overstates the
code a little: a thread ends within SQLite's busy timeout, the model lets it end whenever it
likes, and so proves more. A stop request is looked at where the code looks at it; a crash loses
everything volatile, orphans included.

**Reconcile** is what comes after history: polls, a window pass every few minutes, a nightly
pass over everything. A record's OBJECTID is published with a Call_Received that the source may change,
withdraw or bring back (`published`); a pass keeps the OBJECTIDs seen and ends by marking removed
what is stored in its scope (`InScope`) and was not seen (`Finish`). The request names whole
seconds and the scope milliseconds (`FloorToSecond`). A ghost `witness` records for each OBJECTID
whether it left the scope or the source since the pass began.

**Lifecycle** is `run`, `_cycle`, `_resolve`, `_check_source`, `_check_identifiers`, `_block`
and `_degrade`: generations, schema conflicts and the status row, with collecting reduced to its
pages. A page is fetched in one step (`FetchPage`) and committed in another (`CommitPage`), the
source being replaced or a sibling failing in between; `pages` are those tasks hold. When a task
meets a conflict or fails, `Abandon` cancels the others; of the pages one may be in a transaction,
which runs on in its thread (`orphans`) and commits at any later time (`OrphanCommit`), as in
Backfill. A page is the dataset its records came from and the generation they are stored for; how
far the ranges have come is Backfill's, so the backfill here ends when it ends (`LastPage`, then
`CompleteBackfill` once every page is stored). Each step that writes the status names the fields it
writes, so that what one leaves behind another shows.

**Records** is the calls table under the two transactions that change it, with the versions of
each row (`commit_page`, `mark_removed`). **PinnedFeed** is a reader of it: `_conditions` with
and without `as_of` (`Pinned`, `Current`), the keyset of `call_page`, a walk page by page while
the worker commits, and `new_call_count`. One page is read in one step: the snapshot the API
takes for a request makes it so.

**VersionFeed** is the task that watches the version and what it publishes; **LiveUpdates** adds
one connection and one page: the event stream with its Last-Event-ID, losses and restarts, the
anchor query, the views' query with react-query's rules (a fetch under way is restarted by an
invalidation if there is data already, joined if not; failures are tried again), and the
reader's gestures. `Sliding` says whether the range is a preset, whose window moves with every
refresh, or custom, whose does not.

**Pacer** is the request budget: `enter` with its locks and its sleep, `leave`, `fail`, and
`request`'s attempts. Moments on the monotonic clock are kept as the time left until them, so
the state space is finite without bounding time. `backfill` is the pacer's mode; both are in
every run and every theorem.

**Queries** are the queries of the map and the summary as functions of a table of calls:
`_conditions`, the counts, the types with the rest, the hours, the newest calls for the map.
**Reading** is the abstract specification of a request: it reads one committed state, all its
answers are of it, and nothing is added once they are sent. **Snapshot** is how the API does it:
each request's resolvers hand calls to its executor (`queue`), whose one thread takes a connection
from the pool for the first (`conn`) and runs their queries (`running`) in a transaction whose
state is settled by the first read (`view`), not by connecting. When the summary has come back its
resolver asks for types and hours; the event loop does that even if the response has been made
because another resolver failed. `close` hands `_close` to the thread and then waits for the
thread in the event loop itself (`phase` draining), so that no other request moves meanwhile. Refused
input, a pool that gives up, and a query the database refuses are there. That a connection opened
after `_close` goes back when its objects are collected (`Reclaim`) is graphql-core's and
SQLAlchemy's part, as is the pool.

**Windows** are the pure functions from dates to hours and from hours to bars: Chicago's clock
with its changes (`Summers`), `customWindow`, `presetWindow`, `rangeProblem`'s and `date_range`'s
lengths, `activityBuckets`. Instants are ticks of five minutes, in which an hour, a day and the
window's allowance for skew are whole. **RangeForm** is the filter bar's range over time: presets,
"Custom dates", dates entered one after the other of which only a usable pair is applied, and the
window the next request carries.

**Limits** is `_Walk`. A document is a table of selections numbered in the order of its text, each
naming the first selection of its own set and the one after it (`IsDocument`); the walk is a
recursive function on visits (`Visits`: a selection, the type its set is of, its level, the
fragments spread on the way), one call of `cost` for each set and one round of its loop for each
selection. `After` and `Inside` are the two ways on: what follows in a set knows the fragments spread
before it in the same set, not those spread within them, as the loop's `spread` is a local variable.
Sizes are literals and variables (sent, sent as a float, defaulted, absent). Of the schema all
object types are there, with every field that returns one and a few scalars of each. The fields of
introspection (`IsMeta`) are on no type: the walk passes over them and what is selected in them.

**Execution** is what graphql-core makes of the same document: the selections it collects for an
object (`Met`), fields of one response key merged (`SameKey`, `Child`), its own rules for every
object that can be reached (`StandardRules`), the sizes resolvers get (`Coerced`) and check
(`CheckRange`), and the fields of the schema an answer holds at most, with their levels
(`AnswerTo`). `__typename` is answered of any object, `__schema` and `__type` of the query; what is
selected in the schema's description is taken to be valid, which lets more documents through than
the rules do. None of it counts in `AnswerTo`.

**Admission** puts them together: a request with the form's window and some client's document is
validated (the rules and the limits), resolved (each field checks its size and its range) and
answered. What clients other than the dashboard send is in `Documents`.

**Backup** is `take_backup`, by any number of takers beside each other and beside the worker:
naming a target by the clock, SQLite's copy into a partial file, the rename, the list of what to
prune, and each unlink. A run may be killed or fail at any of its steps.

`PROJECT.json` maps every definition to its lines.

## What the runs check

| Run | Instance | Shows |
|---|---|---|
| `backfill` | 3 OBJECTIDs, 2 ranges (one of two pages), concurrency 2, 2 upsets | `NoGap`: neither a range's cursor nor the live one has a missing record behind it, whatever fails, stops, crashes or commits late. `HistoryHonest`: complete means complete. `CollectsFaithfully`: Backfill implements Collection, whatever the order of answers, failures and late commits. `EventuallyCollected`: what is published in order is stored in the end. `StopEndsTheProcess`: from wherever it arrives |
| `reconcile` | 2 OBJECTIDs, 3 moments in two seconds, 2 changes, 1 upset | `RemovalJustified`: a record is marked removed only if it left the pass's scope during the pass. `Converges`: once the source rests, the database agrees with it |
| `lifecycle` | 2 services, OBJECTIDs to 1, one page at a time, 2 changes of the source, 2 upsets | `RetiredUntouched`: nothing is written to a retired generation. `BlockedCollectsNothing`: not a page between a conflict and a compatible schema. Both but for a transaction that was running in a thread when its task was cancelled, which may still commit what it has. `LiveIsClean`: LIVE carries no detail, outage or retry time of before. `EventuallyLive`: whatever the source did and however often the worker failed, it is LIVE again once the source rests and fits |
| `pinned_feed` | 3 records, 2 times, 2 contents, 3 versions, pages of one row | `NoneSkipped`, `NoneRepeated`: a walk misses no member it began with and meets none twice unless the source edited it. `PinnedNeverLoses`, `ChangesAreVersioned`: why |
| `live_updates` | 2 versions, 2 gestures, 1 upset, a preset range | `QuietMeansCurrent`: when nothing is on its way, the page shows the committed version, once it has acted on one event (before its first event it may rest on the data it was opened with). `PausedStandsStill`. `EventuallyCurrent`: commits reach the page |
| `pacer` | 3 requests at a time, 2 attempts, both modes | `Spaced`: starts keep the spacing in force, live ones the gap after a response. `LiveCooldownKept`: in live polling no request starts in a cooldown. `OneEarlyAtMost`: in a backfill one may, and no more. `RequestsEnd`: nobody keeps a lock, nothing is retried for ever |
| `admission` | a week with both clock changes, ranges of at most 4 days, 126 documents | `AskedWholeDays`: a window for custom dates holds exactly the calls of those dates. `AskedIsServed`: nothing the form can be brought to is refused for its range. `EveryCallHasABar`: the chart adds up to the total. `AcceptedIsBounded`: an answered document returned no more of the schema's own fields than its cost, and none deeper than the limit, whatever introspection it asked for besides |
| `snapshot` | 2 requests, a pool of one, 3 states of the table, 1 commit, 1 upset | `ReadsOneState`: Snapshot implements Reading. `AnswersAgree`: total, types, hours and map agree. `NothingHeld`: a request that ended well holds nothing. `RequestsEnd`: every request ends |
| `backup` | 2 takers, 5 backups, 2 kept, 1 commit, 2 kills or failures | `WholeCopies`: a backup's name stands for a whole state no older than the name. `NewestSurvive`: stale lists never prune one of the newest. `AloneCleansUp`: a run by itself leaves no more than it should, whatever was left behind |

Three more runs find a violation, see [below](#where-code-and-text-disagree). Every property of a
passing run has at least one mutant in `PROJECT.json`: an operator in the module that changes a
definition as a plausible bug would, and breaks the property.

### Bounds

MaxId, MaxTime, MaxVersion, Bodies, Services and Requesters are the sizes of the instance. MaxUpsets
(failures, crashes, stops), MaxMoves and MaxChanges (changes of the source) and MaxGestures bound
how often something may happen, so that TLC ends; the theorems hold whatever they are. The
instances are the smallest in which what the properties fear can happen: two ranges of which one
has two pages (resuming in the middle, one failing beside another that writes), three records (a
late one between two others), pages of one row (every page boundary), two changes of a service
(replaced and put back, broken and mended), one page at a time (held by a task when its sibling
meets a conflict, or left in a thread), three requesters (one fails, one sleeps, one waits), a pool smaller than the requests (one waits for
a connection that another holds, and gives up), a list limit of one with two types (a rest beside
the list), backups enough that two runs prune from lists of different age. In `admission` the week
begins before the clock goes forward and ends after it goes back, `Dates` are on both sides of
each change and on it, and `Clock` is two moments at odd minutes; the chart's hourly bars end at
one day (`HourlyDays`), so that both kinds are met. Sizes of 2 and 3 tell a default from a worst case,
and a cost limit of 24 lies between documents that differ in one argument. Of the 126 documents
the rules let 114 through, the limits 83 and the sizes 58, so that every way a request can end is
taken; among them are aliases, fields merged from several fragments, a fragment spread twice, a
fragment in a fragment, one that spreads itself, `__typename` in nested sets, the schema's
description deeper than the limit, alone and beside calls (both answered), and introspection where
it is not valid.
A behaviour of `lifecycle` starts with values of the right types (`MCInit`): wrong ones come with a
change, as a source that had them before is one that changed before the worker looked. Two upsets
allow a crash during the recovery from a failure. One upset is enough where recovery
has no state of its own. The code's PAGES_PER_RANGE is 8, its page size 2000 and its attempts 5;
nothing compares them with anything but what the small values are compared with. The same holds of
max_range_days and the form's own limit (92 days each), the presets (24h, 7d and 30d), the page
sizes, max_cost and backup_keep. The form's limit is a constant of its own (`FormDays`) and assumed
to be no greater than the setting (`WindowsAssumption`): so it is by default, and with a smaller
setting the API refuses ranges the form finds usable. MaxUpsets below
react-query's number of retries stands for a query that is tried again until it is answered.

### Fairness

- Backfill, Lifecycle: weak fairness of the worker's step as a whole. The event loop runs what is
  ready, a request is answered or fails within its attempts (`RequestsEnd`), a thread ends, and
  the unit restarts the process (`Restart=always`). Which answer comes is not constrained;
  failures are, by MaxUpsets. In Lifecycle also of `LastPage`: that a backfill in which nothing
  fails has a last page is `EventuallyCollected` of Backfill. Nothing is owed to an orphan there.
- Reconcile: also strong fairness of starting a nightly pass. A window pass is not due for some
  minutes after one has ended, so it cannot take the nightly one's turn for ever; the model has
  no clock to say so.
- LiveUpdates: weak fairness of the watching task, of each of the two queries and of the stream.
  Commits, gestures and failures owe nothing.
- Snapshot: weak fairness of the event loop, of each thread, and of connecting or giving up: the
  pool waits thirty seconds and no longer. Whether a request is made, the database refuses a
  query, the worker commits or a garbage collector runs is owed to nobody.
- Pacer: weak fairness of time, of waking and of answers; strong fairness of acquiring each lock,
  as `asyncio.Lock` is first come, first served.

## What is proved

All for every value of the constants their module's ASSUME admits, and for behaviours of any
length with any number of failures.

| Module | Theorems | The invariant that carries them |
|---|---|---|
| BackfillProofs, of Partition | `RangesCover`, `RangesDisjoint`: for every boundary and number of parts | arithmetic of the width, rounded up |
| BackfillProofs, of Backfill | `TypeInvariant`, `NoGapHolds`, `HistoryHonestHolds`, `CapturedOnceHolds`, `Refinement` | `Control` (what each place in the loop implies about boundary, ranges and tasks), `Bounded` (cursors stay inside their range, the live one at or above the boundary), `Covered` (the ranges cover the history), `NoGap`, and `HeldCovers`: a page held by a task, by the loop or by an orphan covers the interval from the cursor it was asked for to the one it will set. The last is what makes a late transaction harmless: an orphan that commits after its range went on sets a cursor no record is missing behind |
| ReconcileProofs | `TypeInvariant`, `RemovalJustifiedHolds`, `FullRemovalJustifiedHolds` | `WitnessSound` (the witness of an OBJECTID says what the source published for it since the pass began) and `SeenSoFar` (what stayed in scope and is at or below the pass's cursor, or on the page held, has been seen), with a lemma that rounding down to the second excludes nothing |
| LifecycleProofs | `TypeInvariant`, `LiveIsCleanHolds`, `RetiredUntouchedHolds`, `BlockedCollectsNothingHolds` | `Held` (only a backfill holds pages, and they are for the generation it works on; so what is left in a thread is of a generation that is or was active), `AtWork` (what the loop works on, or checks, is the active generation), `Outlived` (a loop that still holds a retired generation, which it does while its successor is in conflict, has its metadata due and a successor that is not complete, so it reaches no transaction before it takes the successor up) and `Due` (from a conflict to a compatible schema the metadata is due, unless the next conflict has been met) |
| PinnedFeedProofs | `TypeInvariant`, `VersionsConsistentHolds`, `NoneSkippedHolds`, `NoneRepeatedHolds`, `ShownIsNotNewHolds`, `ChangesAreVersionedHolds`, `PinnedNeverLosesHolds` | `StillToCome` (an unedited member the walk began with has been shown or lies beyond the cursor) and `BehindTheCursor` (what has been shown and not edited lies before it) |
| PacerProofs | `TypeInvariant`, `SpacedHolds`, `LiveCooldownKeptHolds`, `OneEarlyAtMostHolds`, `OneAtATimeHolds` | `LocksHeld`, `OwedIsWaitedFor` (what the next start owes is never more than what it will wait for) and `CooldownIsSleptOut` (a sleep begun since the last failure outlasts the cooldown) |
| DashboardProofs, of LiveUpdates | `LiveUpdatesTypes`, `PausedStandsStillHolds`, for a range of either kind; `QuietMeansCurrentHolds`, for a preset | `StreamInOrder` (an open stream ends with what its handler sent last), `LastIsTold` (what was told was acted upon), `AtMostCommitted`, `AnswersSound` (an answer on its way is no older than what is shown) and `ViewsFollow` (the views have what was last acted upon, or a request for it is under way, or the anchor that will move the window is asked for) |
| DashboardProofs, of Windows and RangeForm | `WholeDays`, `BarsCover`, `UsableIsAccepted`, `FormInvariant`, `AskedWholeDaysHolds`, `AskedIsServedHolds`, `EveryCallHasABarHolds` | `FromMidnight`: an instant is at or after a date's midnight exactly if Chicago's clock shows that date or a later one. The offset is looked up at six hours UTC, which is midnight or one o'clock in Chicago; the clock changes at two. Then `Sound`: the range in the form has a window the API accepts, whatever time it is |
| DashboardProofs, of Limits, Execution and Admission | `RequestInvariant`, `AcceptedIsBoundedHolds`, `RequestKeepsForm`, `RequestsAreServed`, `RefusedForItsSizes` | `RequestInv` (what a request has behind it at each stage) and `AnswerIsBounded`, a lemma of every document; see below |
| SnapshotProofs | `TypeInvariant`, `NothingHeldHolds`, `AnswersAgreeHolds`, `Refinement` | `OfOneState` (whatever a request was answered is of one state of the table, the one its transaction sees while it is open), `Course` (what each phase of a request implies about its queue, its thread and its connection; a queue holds "close" at most once, and only while closing) and `WellEnded` (without a failure nothing else is queued by then, and nothing is left later) |
| BackupProofs | `TypeInvariant`, `WholeCopiesHolds`, `NewestSurviveHolds`, `AloneCleansUpHolds` | `Named` (stamps under way are apart), `Copying` (what a copy holds), `Outdated` (of whatever is on a list, however old, `Keep` newer backups have been published: a list only grows safer) and `Undisturbed` (a run by itself has an exact list). Counting rests on `LeastStamp` and `PruneKeeps`: pruning leaves the `Keep` greatest of a finite set |

Some of these state what no run checks, as it follows from what the runs do check or is a lemma in
its own right: `CapturedOnceHolds`, `FullRemovalJustifiedHolds`, `VersionsConsistentHolds`,
`ShownIsNotNewHolds`, `OneAtATimeHolds`, `RefusedForItsSizes`, and of Windows' functions `WholeDays`, `BarsCover`, `UsableIsAccepted`.

`Refinement` of Backfill maps states by name: the variables of Collection are variables of Backfill,
and each action of Backfill is a step of Collection or leaves them alone. That of Snapshot forgets
the state seen once a response is made: the calls that still run then answer nobody.

`AnswersAgreeHolds` is about what the queries compute as well as about when they run: `TypesAddUp`
(the types listed and the rest beside them), `HoursAddUp` and `MapIsFull` are lemmas of Queries'
operators, each from counting the disjoint parts of a finite set (`SumOfClasses`). They assume of
a state of the table what its primary key gives, `IsTable`: finitely many calls, no two with one
identifier. That a sum of counts is the size of what they count side by side is the definition of
`SumOf`, so these lemmas are about which calls are counted where, not about adding.

`QuietMeansCurrentHolds` is for presets only, and the run `live_updates_ignored` shows why: with a
custom range the views may rest on old data.

The theorems of RangeForm are about `FormSpec`; `RequestKeepsForm` shows that Admission implements it,
so that they hold of its requests as well (`RequestsAreServed`), and `RefusedForItsSizes` that a
document the rules and the limits let through is never refused for the dates the dashboard put in.

`AcceptedIsBoundedHolds` compares two recursions over one document that visit different things: the
walk goes from selection to selection and skips a fragment that was spread on the way, the executor
collects each selection of an object once and merges fields of one key from sets far apart. The
argument, in the order of the sections of DashboardProofs:

1. *Recursive functions.* What `f[x \in S] == ...` promises is only a choice of some function that
   satisfies the equation. `RecursiveFunctionExists` shows there is one whenever a body looks at
   points of a lesser measure only, and `MeasureInduction` is the induction to go with it. Both are
   stated of sets and functions rather than of operators; they come from `LeastNatural`, which
   rests on the library's theorem that strict inclusion of finite sets is well founded.
2. *Measures.* `Ahead` counts, for a visit, the fragments not yet spread and then the selections to come:
   the walk and the collecting end on every document, fragment cycles included. `Rank` orders the
   types of the schema, none of which leads back to itself (`SchemaIsSensible`): so do
   reaching and answering.
3. *The walk misses nothing* (`WalkCovers`). A walk and a collecting of one set go `Together`: they differ
   at most in fragments spread above the set. A walk that comes by the rules is `Clean`: what was spread
   on its way is of this set's own type, and then was spread in it, or of a type of higher rank, and
   then cannot be spread in it. So what the walk skips it has counted in this set.
4. *Sets and fields.* One field's set may be walked at several places, with different fragments spread
   on the way. `LeastCost` is the least the walk makes of it at any entry; `Costing` is what
   each field then costs at least, and `ObjectCost` bounds the fields of an object by its sets,
   `SubsCost` the sets below one response key by its fields.
5. *The answer* (`ObjectIsBounded`, `AnswerIsBounded`). `LengthIsCounted` says that the length of a list times
   the size passed on to the list inside is no more than the size got times what the walk multiplies by,
   provided `check_range` let the size through. By induction on rank an object's answer is no
   larger than its size times what its sets cost, key by key (`KeyIsBounded`), and no deeper.
6. *The request* (`RequestInvariant`). By the time a document is answered every rule, both limits and every
   size have been looked at.

It assumes of a document what parsing gives (`IsDocument`: one operation, its fragments) and of the
settings that they are natural numbers. `NoFragmentCycles` is not needed: with a cycle or without,
a walk enters a fragment once on its way and a collecting meets a selection once.

Every invariant and every action property of a passing run is stated by a theorem. Only
model-checked are:

- Liveness, for which the prover has no rule: `EventuallyCollected`, `StopEndsTheProcess`,
  `Converges`, `EventuallyLive`, `EventuallyCurrent`, and `RequestsEnd` of Pacer and of Snapshot.
- What the violation runs show: a counterexample of one instance is proof enough.

## Where code and text disagree

Each row is a run in which TLC finds the disagreement; `PROJECT.json` quotes the text.

| Run | The code |
|---|---|
| `pacer_cooldown` | computes a request's delay before its sleep, and a failure does not reach the sleeper: a backfill request asleep when another fails starts in the cooldown, though "a failure pauses every request until its retry delay has passed". It is one at most (`OneEarlyAtMost`) |
| `lifecycle_reset` | takes a highest OBJECTID below the live cursor for restarted identifiers; withdrawing the newest record lowers it too, and all of history is collected again into a new generation |
| `live_updates_ignored` | ignores an event for the anchor's version, though the views may have been read before it; with a custom range they stay old until the next commit |

One more is plain from the module, and has no run: worker.py:8-9 says of the backfill that "no more
pages are in flight than the configured concurrency allows". The code lets go of the semaphore when a
page has answered, before it waits for the write lock (worker.py:242-245; `EnterRoom`, `PageAnswer` and
`BeginWrite` of Backfill), so that with a concurrency of one two ranges may hold a page: the pages held are
bounded by the number of ranges only.

Other things the models show, which no text contradicts:

- A cancelled range task gives up the write lock while its transaction runs on in a thread, so
  two transactions may be under way; SQLite's own lock keeps them apart, and `NoGap` and the rest
  hold regardless (`OrphanCommit`). One that was waiting for that lock, or was slow, may commit its
  page after a sibling's conflict has been recorded, which is why `BlockedCollectsNothing` and
  `RetiredUntouched` except it. For the second it would have to outlive the pause of at least
  sixty seconds and the next look at the metadata, SQLite's busy timeout being five seconds; but no
  code waits for it.
- A window pass marks a record removed when the source moved its Call_Received out of the window;
  the nightly pass brings it back. `RemovalJustified` is about the scope for that reason.
- A record removed and published again enters a list pinned before its return; only losing members
  is excluded (`PinnedNeverLoses`).
- A replaced service is collected into the old generation until its description is next looked at.
- A schema conflict is stored as a snapshot without fields, so each look at a source that stays
  incompatible stores two.
- The status row names the generation before the identifiers are checked; a reset found right
  after leaves it naming the retired generation for the whole backfill.
- Each failure sets `degraded_since` anew, so the row says how long ago the last attempt failed.
- On resuming, the page refreshes with the pause of the render before: with a custom range nothing
  is fetched until the next event.
- Custom dates whose days include the autumn change are an hour longer than their count: 92 of them
  are 92 days and one hour, which form and API refuse alike, the form with "Choose a range of 92
  days or fewer." `UsableIsAccepted` says that they never differ.
- `hourly` has no size and is reckoned at UNSIZED_LIST = 100 entries; a long window really holds
  more. `AcceptedIsBounded` takes the estimate for the length.
- `__typename`, `__schema` and `__type` cost nothing and are answered at any number and depth, the
  schema's description above the limits included, as a test asserts (test_api_graphql.py:497-508).
  "Every field costs one" (limits.py:3) is of the schema's own fields, and so is
  `AcceptedIsBounded`.
- A resolver that goes on after the response was made may submit a call after `_close`, and that
  opens a connection again. It goes back when its objects are collected, not when the request
  ends: hence "ended well" in `NothingHeld`. While such a call waits for the pool, `shutdown()` waits
  for it in the event loop, and the pool's timeout is what ends that.
- Two backups at a time may prune from the same list: the second's unlink then fails, and one more
  than `backup_keep` may stay until the next run. `.partial` files of killed runs stay for good.

## What is left out

- **Two writers' transactions inside SQLite**: a transaction is one step. That SQLite keeps them
  apart and a reader's snapshot whole is assumed.
- **The clock**: passes, checks and pauses come when they may, rather than at their time. What
  depends on a length of time (how long an outage seems, how soon a check) is not stated. Pacer
  is the exception.
- **The HTTP client and ArcGIS**: a request answers what `Source` allows, or fails. Bodies that
  are not JSON, error objects and wrong types are failures.
- **The schema comparison and the parsing of rows** are a Boolean of the source.
- **Facets, statuses and the source status** are single reads over the request's snapshot, like
  those in Queries; in LiveUpdates a view stands for all of them. The feed's page is read in one
  step in PinnedFeed, which `ReadsOneState` justifies.
- **graphql-core and SQLAlchemy**: documents are merged and sizes coerced as the GraphQL
  specification says; the pool gives out a fixed number of connections and waits for a fixed
  time; a connection no longer referred to goes back to it.
- **The limits on aliases and tokens**, which count what a document's text holds, and the refusals
  of `calls` and of its filter other than the size and the range (a bad cursor, version or value):
  they refuse more documents than the model does, and change nothing.
- **Where the page's window stands**: LiveUpdates knows whether a sliding window follows the clock
  or the anchor (`MoveWindow`, `live`), not by how much; the time of the anchor's last answer while
  another is under way (`anchor.dataUpdatedAt`) is part of what is left out.
- **Time going back** between backups, or two begun in the same millisecond: `clock` only rises.
- **Presentation, configuration, deployment and tests**: no state, or no code of their own.
- The fields of the status row are kept as set or not set, and its times left out.

## Plan

Done, in this order: Partition, Source, Collection, Backfill, Reconcile, Lifecycle, Records,
PinnedFeed, VersionFeed, LiveUpdates and Pacer (what may lose or falsify data first, then what the
public is shown, then the budget), then Queries, Reading and Snapshot, Windows, RangeForm, Limits and
Admission, and Backup; then the proofs of what the runs check,
the walk over documents last.

To come:

1. Pacer composed with the main loop: how long a stop request may wait for a request in its
   retries.
