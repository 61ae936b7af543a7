----------------------------- MODULE PinnedFeed -----------------------------
(***************************************************************************)
(* A reader of the call feed while the worker writes.  The first page pins *)
(* the data version; the following ones ask for what was a member then,    *)
(* after the last call read.  Each page is one request with its own        *)
(* snapshot, so any number of transactions may commit between two.         *)
(***************************************************************************)
EXTENDS Records

CONSTANTS Since, Until,   \* the filter's bounds on Call_Received: [Since, Until)
          Selected,       \* the filter's values for the other attributes
          IncludeRemoved, \* the filter asks for removed calls too
          PageRows        \* calls on a page

ASSUME FeedAssumption ==
  /\ Since \in Int /\ Until \in Int /\ IncludeRemoved \in BOOLEAN /\ PageRows \in Nat \ {0}

VARIABLES reading, \* a walk is under way or finished
          asOf,    \* the version it is pinned to
          after,   \* the key of the last call read, or Start
          shown,   \* the calls it has shown
          done,    \* the last page said that none follows
          opened,  \* history: the members when it began
          edited,  \* history: calls whose content has changed since
          repeated \* history: calls shown by more than one page

reader == <<reading, asOf, after, shown, done, opened, edited, repeated>>
vars   == <<rows, version, reader>>

\* The feed is ordered newest first: a key is a call's time and identifier.
Key(id) == <<rows[id].content.time, id>>

\* Mutant: the keyset comparison includes the key itself.
AtOrAbove(j, k) == j[1] > k[1] \/ (j[1] = k[1] /\ j[2] >= k[2])

Above(j, k) == j[1] > k[1] \/ (j[1] = k[1] /\ j[2] > k[2])

\* Before the first page every call is still to come.
Start == <<MaxTime + 1, 0>>

Wanted(content) ==
  Since <= content.time /\ content.time < Until /\ content.body \in Selected

\* Mutant: a call that was removed is no longer a member.
PinnedPresent(v) ==
  {id \in Stored :
     /\ Wanted(rows[id].content)
     /\ rows[id].first <= v
     /\ IncludeRemoved \/ rows[id].present}

\* Members at a version: seen by then, and present or removed only later.
Pinned(v) ==
  {id \in Stored :
     /\ Wanted(rows[id].content)
     /\ rows[id].first <= v
     /\ IncludeRemoved \/ rows[id].present \/ rows[id].changed > v}

\* What the map, the summaries and an unpinned count work on.
Current ==
  {id \in Stored : Wanted(rows[id].content) /\ (IncludeRemoved \/ rows[id].present)}

\* The calls counted as new to a reader pinned at v.
NewCalls(v) == {id \in Current : rows[id].first > v}

Remaining(v, k) == {id \in Pinned(v) : Above(k, Key(id))}

\* ORDER BY key DESC LIMIT PageRows.
IsPage(all, page) ==
  /\ \A id \in page, other \in all : Above(Key(other), Key(id)) => other \in page
  /\ Cardinality(page) <= PageRows
  /\ page # all => Cardinality(page) = PageRows

\* The key the next page starts after, given this one.
LastKey(page, k) ==
  IF page = {} THEN k
  ELSE Key(CHOOSE id \in page : \A other \in page \ {id} : Above(Key(other), Key(id)))

Init ==
  /\ RecordsInit
  /\ reading = FALSE /\ asOf = 0 /\ after = Start /\ shown = {} /\ done = FALSE
  /\ opened = {} /\ edited = {} /\ repeated = {}

\* The worker commits between two pages.
Write ==
  /\ Commits \/ Removals
  /\ edited' = IF reading
                 THEN edited \cup {id \in Stored : rows'[id].content # rows[id].content}
                 ELSE edited
  /\ UNCHANGED <<reading, asOf, after, shown, done, opened, repeated>>

ReadPage(v, k, already) ==
  LET all == Remaining(v, k)
  IN  \E page \in SUBSET all :
        /\ IsPage(all, page)
        /\ shown' = already \cup page
        /\ repeated' = IF already = {} THEN {} ELSE repeated \cup (already \cap page)
        /\ after' = LastKey(page, k)
        /\ done' = (page = all)

\* Mutant: the version pinned is the one the next write will make.
OpenAhead ==
  /\ reading' = TRUE
  /\ asOf' = version + 1
  /\ opened' = Pinned(version)
  /\ edited' = {}
  /\ ReadPage(version + 1, Start, {})
  /\ UNCHANGED <<rows, version>>

\* A walk begins, or begins again, at the current version.
Open ==
  /\ reading' = TRUE
  /\ asOf' = version
  /\ opened' = Pinned(version)
  /\ edited' = {}
  /\ ReadPage(version, Start, {})
  /\ UNCHANGED <<rows, version>>

More ==
  /\ reading /\ ~done
  /\ ReadPage(asOf, after, shown)
  /\ UNCHANGED <<rows, version, reading, asOf, opened, edited>>

Next == Write \/ Open \/ More

Spec == Init /\ [][Next]_vars

-----------------------------------------------------------------------------
(* Properties.                                                             *)

TypeOK ==
  /\ Stored \subseteq Ids
  /\ rows \in [Stored -> Rows]
  /\ version \in 0 .. MaxVersion
  /\ reading \in BOOLEAN
  /\ asOf \in 0 .. version
  /\ after \in (0 .. MaxTime + 1) \X (0 .. MaxId)
  /\ shown \subseteq Ids
  /\ done \in BOOLEAN
  /\ opened \subseteq Stored
  /\ edited \subseteq Stored
  /\ repeated \subseteq shown

\* No row is stamped with a version the readers cannot have yet, and none was changed
\* before it was first seen (commit_page, mark_removed).
VersionsConsistent ==
  \A id \in Stored : 1 <= rows[id].first /\ rows[id].first <= rows[id].changed
                     /\ rows[id].changed <= version

\* A reader's version is enough to know that something changed: a transaction that
\* changes any row makes a new version current and stamps the row with it.
ChangesAreVersioned ==
  [][/\ version' >= version
     /\ \A id \in Stored' :
          (id \in Stored => rows'[id] # rows[id]) =>
            version' = version + 1 /\ rows'[id].changed = version']_vars

\* A pinned list never loses a member to an arrival, a removal or a reappearance: a call
\* leaves it only when the source changes the call so that the filter no longer matches
\* (_conditions).
PinnedNeverLoses ==
  [][\A v \in 0 .. version : \A id \in Pinned(v) :
       Wanted(rows'[id].content) => id \in Pinned(v)']_vars

\* A call the reader has been shown is never announced to it as new, whatever happens to
\* the call afterwards (new_call_count against call_page).
ShownIsNotNew == reading => NewCalls(asOf) \cap shown = {}

\* Page by page, whatever commits in between, a finished walk has shown every member it
\* began with whose content has not changed since (call_page's keyset and as_of).
NoneSkipped == reading /\ done => opened \ edited \subseteq shown

\* Only a call whose content has changed can be shown by two pages of a walk.
NoneRepeated == reading => repeated \subseteq edited

=============================================================================
