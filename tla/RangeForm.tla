----------------------------- MODULE RangeForm -----------------------------
(***************************************************************************)
(* The date range of the dashboard's filter bar, and the window its next   *)
(* request carries.  Dates that are no usable range stay in the form and   *)
(* are not applied, so any two dates may be entered one after the other.   *)
(***************************************************************************)
EXTENDS Windows

CONSTANTS Clock,    \* bound: the instants at which the reader acts
          Instants, \* bound: the instants at which calls are received
          Dates     \* bound: the dates the reader enters

ASSUME RangeFormAssumption ==
  Clock \subseteq Int /\ Clock # {} /\ Instants \subseteq Int /\ Dates \subseteq Int

VARIABLES now,   \* the dashboard's live time
          range, \* filters.range
          asked  \* the window a request under way carries, with its range, or Nothing

formVars == <<now, range, asked>>

Preset(days) == [kind |-> "preset", days |-> days]

Custom(first, last) == [kind |-> "custom", first |-> first, last |-> last]

WindowFor(r, t) == IF r.kind = "preset" THEN PresetWindow(r.days, t) ELSE CustomWindow(r.first, r.last)

Nothing == [kind |-> "none"]

FormInit ==
  /\ now \in Clock
  /\ range \in {Preset(days) : days \in PresetDays}
  /\ asked = Nothing

\* Time passes; the live time follows it.
Tick ==
  /\ now' \in {t \in Clock : t > now}
  /\ UNCHANGED <<range, asked>>

ChoosePreset ==
  /\ \E days \in PresetDays : range' = Preset(days)
  /\ UNCHANGED <<now, asked>>

ChooseCustom ==
  /\ range' = Custom(TodayInChicago(now) - (CustomDays - 1), TodayInChicago(now))
  /\ UNCHANGED <<now, asked>>

\* Mutant: whatever was entered is applied.
ChangeDatesUnchecked ==
  /\ range.kind = "custom"
  /\ \E first \in Dates, last \in Dates : range' = Custom(first, last)
  /\ UNCHANGED <<now, asked>>

ChangeDates ==
  /\ range.kind = "custom"
  /\ \E first \in Dates, last \in Dates :
       /\ UsableRange(first, last, TodayInChicago(now))
       /\ range' = Custom(first, last)
  /\ UNCHANGED <<now, asked>>

\* The dashboard's queries are made for the filters and the time it shows.
Ask ==
  /\ asked = Nothing
  /\ asked' = [kind |-> "window", range |-> range, window |-> WindowFor(range, now)]
  /\ UNCHANGED <<now, range>>

\* The request is answered, or refused.
Settle ==
  /\ asked # Nothing
  /\ asked' = Nothing
  /\ UNCHANGED <<now, range>>

Choose == ChoosePreset \/ ChooseCustom \/ ChangeDates

FormNext == Tick \/ Choose \/ Ask \/ Settle

FormSpec == FormInit /\ [][FormNext]_formVars

-----------------------------------------------------------------------------
(* Properties.                                                             *)

RangeType ==
  {Preset(days) : days \in PresetDays} \cup {Custom(first, last) : first \in Int, last \in Int}

\* Of a request for custom dates, the window holds exactly the calls received on the
\* dates the reader chose as Nashville's clock shows them, be there a clock change on
\* one of them or between them (customWindow, chicagoMidnight).
AskedWholeDays ==
  asked # Nothing /\ asked.range.kind = "custom" =>
    \A t \in Instants :
      InWindow(t, asked.window) <=> TodayInChicago(t) \in asked.range.first .. asked.range.last

\* No range the form can be brought to, however long ago it was chosen, makes the API
\* refuse the request (rangeProblem and presetLength against date_range).
AskedIsServed == asked # Nothing => DateRange(asked.window)

\* Every call in the window is counted in a bar of the chart, so the bars add up to the
\* total shown beside them, whatever the hour the window starts at and the clock
\* changes in it (activityBuckets against hourly).
EveryCallHasABar ==
  asked # Nothing =>
    \A t \in Instants : InWindow(t, asked.window) => BarOf(t, asked.window) \in Bars(asked.window)

=============================================================================
