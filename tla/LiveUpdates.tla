---------------------------- MODULE LiveUpdates ----------------------------
(***************************************************************************)
(* One browser's dashboard kept up to date by the API's version feed: the  *)
(* /events connection with its handler at the API, the anchor that gives   *)
(* the page its clock and pins the list, and the views that show current   *)
(* data (map and summaries), which stand here for one query.               *)
(*                                                                         *)
(* A query is the data of its key.  With a preset range the views' key     *)
(* holds the sliding window and changes whenever the window moves; with a  *)
(* custom range it changes only with the filters.  An answer carries the   *)
(* version its snapshot was read at.                                       *)
(***************************************************************************)
EXTENDS VersionFeed

CONSTANTS Sliding,     \* the range is a preset
          MaxGestures  \* bound: what the reader does to the page

ASSUME PageAssumption == Sliding \in BOOLEAN /\ MaxGestures \in Nat

VARIABLES linked,      \* the event stream is open
          interrupted, \* events.ts: wasInterrupted
          told,        \* the id of the last event received, sent when reconnecting
          seen,        \* the connection's handler: the last version it sent
          wire,        \* versions sent and not yet received
          anchor,      \* the data version of the anchor
          anchorAsk,   \* the anchor's request: "idle", "asked", "read"
          anchorGot,   \* what that request read
          lastVersion, \* the last version acted upon
          live,        \* liveAt is set
          paused,      \* frozenAt is set
          view,        \* the version of the views' data
          fetch,       \* the views' request: "idle", "asked", "read"
          got,         \* what that request read
          gestures     \* what the reader has done so far

link == <<linked, interrupted, told, seen, wire>>
page == <<anchor, anchorAsk, anchorGot, lastVersion, live, paused, view, fetch, got, gestures>>
vars == <<feedVars, link, page>>

Init ==
  /\ FeedInit
  /\ linked = FALSE /\ interrupted = FALSE /\ told = None /\ seen = None /\ wire = <<>>
  /\ anchor = None /\ anchorAsk = "asked" /\ anchorGot = None
  /\ lastVersion = None /\ live = FALSE /\ paused = FALSE
  /\ view = None /\ fetch = "idle" /\ got = None
  /\ gestures = 0

\* The dashboard is on the page once an anchor has answered.
Mounted == anchor # None

-----------------------------------------------------------------------------
(* The page.                                                               *)

\* Mutant: a request under way is taken to be good enough.
RefetchJoining(pausedThen, pausedNow) ==
  fetch' = IF ~Mounted \/ pausedNow \/ fetch # "idle" THEN fetch ELSE "asked"

\* Mutant: the pause is not looked at.
RefetchAlways(pausedThen, pausedNow) == fetch' = IF Mounted THEN "asked" ELSE fetch

\* The views' request after `refresh`, which ran with the pause of the last rendering.
\* A moved window is a new key.  A key that stays is invalidated unless paused: its request
\* starts again, except that the first one of a key runs on.
Refetch(pausedThen, pausedNow) ==
  LET restart == IF Sliding THEN ~pausedNow
                            ELSE ~pausedThen /\ (fetch = "idle" \/ view # None)
  IN  fetch' = IF Mounted /\ restart THEN "asked" ELSE fetch

\* Until the anchor answers there is no clock to move the window by.
MoveWindow == live' = (live \/ Mounted)

Gesture == gestures < MaxGestures /\ gestures' = gestures + 1

Pause ==
  /\ Mounted /\ ~paused /\ Gesture
  /\ paused' = TRUE
  /\ UNCHANGED <<feedVars, link, anchor, anchorAsk, anchorGot, lastVersion, live, view, fetch, got>>

\* `refresh` still sees the page paused.
Resume ==
  /\ paused /\ Gesture
  /\ paused' = FALSE
  /\ MoveWindow
  /\ Refetch(TRUE, FALSE)
  /\ UNCHANGED <<feedVars, link, anchor, anchorAsk, anchorGot, lastVersion, view, got>>

Reanchor == anchorAsk' = "asked" /\ live' = FALSE

\* The new calls are shown.  Without liveAt a sliding window falls back to where the old
\* anchor put it, whose answer of any age may be at hand, until the new anchor answers.
ShowNew ==
  /\ Mounted /\ Gesture
  /\ Reanchor
  /\ IF Sliding /\ live /\ ~paused
       THEN view' \in 0 .. version /\ fetch' \in {"idle", "asked"}
       ELSE UNCHANGED <<view, fetch>>
  /\ UNCHANGED <<feedVars, link, anchor, anchorGot, lastVersion, paused, got>>

ChangeFilters ==
  /\ Mounted /\ Gesture
  /\ Reanchor
  /\ view' = None /\ fetch' = "asked"
  /\ UNCHANGED <<feedVars, link, anchor, anchorGot, lastVersion, paused, got>>

\* The API reads the anchor in a snapshot.
AnchorRead ==
  /\ anchorAsk = "asked"
  /\ anchorAsk' = "read" /\ anchorGot' = version
  /\ UNCHANGED <<feedVars, link, anchor, lastVersion, live, paused, view, fetch, got, gestures>>

\* The first answer puts the dashboard on the page; a later one moves a window that follows
\* the anchor.
AnchorAnswer ==
  /\ anchorAsk = "read"
  /\ anchor' = anchorGot /\ anchorAsk' = "idle"
  /\ fetch' = IF ~Mounted \/ (Sliding /\ ~live /\ ~paused) THEN "asked" ELSE fetch
  /\ UNCHANGED <<feedVars, link, anchorGot, lastVersion, live, paused, view, got, gestures>>

\* The API reads the views' data in a snapshot.
ViewRead ==
  /\ fetch = "asked"
  /\ fetch' = "read" /\ got' = version
  /\ UNCHANGED <<feedVars, link, anchor, anchorAsk, anchorGot, lastVersion, live, paused, view, gestures>>

ViewAnswer ==
  /\ fetch = "read"
  /\ fetch' = "idle" /\ view' = got
  /\ UNCHANGED <<feedVars, link, anchor, anchorAsk, anchorGot, lastVersion, live, paused, got, gestures>>

\* A request fails and is sent again, as often as failures are bounded.
RequestFails ==
  /\ upsets < MaxUpsets /\ upsets' = upsets + 1
  /\ \/ fetch = "read" /\ fetch' = "asked" /\ UNCHANGED anchorAsk
     \/ anchorAsk = "read" /\ anchorAsk' = "asked" /\ UNCHANGED fetch
  /\ UNCHANGED <<version, published, watch, current, link, anchor, anchorGot, lastVersion, live,
                 paused, view, got, gestures>>

-----------------------------------------------------------------------------
(* The event stream.                                                       *)

\* The stream opens: the handler takes up the last event id.  After an interruption the
\* page refreshes.
Opened ==
  /\ ~linked
  /\ linked' = TRUE /\ interrupted' = FALSE
  /\ seen' = told /\ wire' = <<>>
  /\ IF interrupted THEN MoveWindow /\ Refetch(paused, paused) ELSE UNCHANGED <<live, fetch>>
  /\ UNCHANGED <<feedVars, told, anchor, anchorAsk, anchorGot, lastVersion, paused, view, got,
                 gestures>>

\* wait_for_change returns.
Send ==
  /\ linked /\ published \notin {None, seen}
  /\ seen' = published
  /\ wire' = Append(wire, published)
  /\ UNCHANGED <<feedVars, linked, interrupted, told, page>>

\* The version the page takes itself to be showing.
Known == IF lastVersion = None THEN anchor ELSE lastVersion

Deliver ==
  /\ linked /\ wire # <<>>
  /\ told' = Head(wire) /\ wire' = Tail(wire)
  /\ IF Head(wire) = Known
       THEN UNCHANGED <<lastVersion, live, fetch>>
       ELSE lastVersion' = Head(wire) /\ MoveWindow /\ Refetch(paused, paused)
  /\ UNCHANGED <<feedVars, linked, interrupted, seen, anchor, anchorAsk, anchorGot, paused, view,
                 got, gestures>>

\* The stream fails.  The browser reconnects by itself, or gives up and a new one is opened
\* after a delay, which knows of no event.
StreamFails ==
  /\ linked' = FALSE /\ interrupted' = TRUE /\ seen' = None /\ wire' = <<>>
  /\ told' \in {told, None}
  /\ upsets < MaxUpsets /\ upsets' = upsets + 1

Interrupt ==
  /\ StreamFails
  /\ UNCHANGED <<version, published, watch, current, page>>

\* The API process restarts: its feed has no version until it reads one.
RestartApi ==
  /\ StreamFails
  /\ published' = None /\ watch' = "polling" /\ current' = None
  /\ UNCHANGED <<version, page>>

-----------------------------------------------------------------------------

FeedStep == WatchStep /\ UNCHANGED <<link, page>>

PageStep == AnchorRead \/ AnchorAnswer \/ ViewRead \/ ViewAnswer

StreamStep == Opened \/ Send \/ Deliver

Next ==
  \/ (Commit \/ ReadFails) /\ UNCHANGED <<link, page>>
  \/ FeedStep \/ PageStep \/ StreamStep
  \/ Pause \/ Resume \/ ShowNew \/ ChangeFilters
  \/ RequestFails \/ Interrupt \/ RestartApi

\* The watching task, the stream and both requests get on; the worker, the reader and
\* failures owe nothing.
Fairness ==
  /\ WF_vars(FeedStep)
  /\ WF_vars(AnchorRead \/ AnchorAnswer)
  /\ WF_vars(ViewRead \/ ViewAnswer)
  /\ WF_vars(StreamStep)

SafeSpec == Init /\ [][Next]_vars
Spec     == SafeSpec /\ Fairness

-----------------------------------------------------------------------------
(* Properties.                                                             *)

Steps == {"idle", "asked", "read"}

TypeOK ==
  /\ FeedTypeOK
  /\ linked \in BOOLEAN /\ interrupted \in BOOLEAN /\ live \in BOOLEAN /\ paused \in BOOLEAN
  /\ {told, seen, anchor, anchorGot, lastVersion, view, got} \subseteq Versions \cup {None}
  /\ wire \in Seq(Versions)
  /\ anchorAsk \in Steps /\ fetch \in Steps
  /\ gestures \in 0 .. MaxGestures

\* Nothing is on its way to the page any more.
Quiet ==
  /\ linked /\ published = version /\ seen = version /\ wire = <<>>
  /\ anchorAsk = "idle" /\ fetch = "idle"

\* Once a page with a sliding window has acted on one event, it never comes to rest on old
\* data: whatever was interrupted, restarted, paused or asked again, when nothing is on its
\* way the views show the committed version (useDataVersion, refresh).
QuietMeansCurrent == Quiet /\ lastVersion # None /\ ~paused => view = version

\* And it does come to rest: commits reach the page.
EventuallyCurrent == <>[](lastVersion # None /\ ~paused => view = version)

\* A paused page's views stand still, whatever arrives, unless the reader changes the
\* filters (refresh).
PausedStandsStill ==
  [][paused /\ paused' /\ fetch = "idle" /\ view' # None =>
       view' = view /\ fetch' = "idle"]_vars

\* "ignores a notification for the version already shown" (monitor.test.tsx): what is
\* ignored is shown, or about to be.
IgnoredIsShown ==
  [][linked /\ wire # <<>> /\ wire' = Tail(wire) /\ linked' /\ Head(wire) = Known /\ ~paused =>
       \/ view >= Head(wire)
       \/ fetch = "asked"
       \/ fetch = "read" /\ got >= Head(wire)]_vars

=============================================================================
