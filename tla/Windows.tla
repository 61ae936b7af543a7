------------------------------ MODULE Windows ------------------------------
(***************************************************************************)
(* From the days a reader names to the hours the API is asked for, and     *)
(* from the hours it answers with to the bars of the activity chart.       *)
(* Instants are counted in ticks of five minutes, calendar dates in days   *)
(* since the epoch; a window is the pair of instants [since, until).       *)
(* Nashville's clock is six hours behind UTC, and five in its summers.     *)
(***************************************************************************)
EXTENDS Integers

CONSTANTS Summers,      \* the pairs <<first, last>> of dates on which the clock changes
          MaxRangeDays, \* settings.max_range_days
          FormDays,     \* MAX_RANGE_MS of the dashboard in days
          HourlyDays,   \* HOURLY_LIMIT in days
          PresetDays,   \* the lengths of the presets in days
          CustomDays    \* how many days "Custom dates" starts with

\* The setting is no less than what the dashboard has built in.  They are equal by default;
\* with a smaller setting the API refuses ranges that the form finds usable.
ASSUME WindowsAssumption ==
  /\ Summers \subseteq Int \X Int
  /\ MaxRangeDays \in Nat /\ FormDays \in Nat \ {0} /\ FormDays <= MaxRangeDays
  /\ HourlyDays \in Nat
  /\ PresetDays \subseteq 1 .. (FormDays - 1)
  /\ CustomDays \in 1 .. (FormDays - 1)

Hour == 12
Day == 24 * Hour
SkewAllowance == 1

InWindow(t, window) == window.since <= t /\ t < window.until

FloorToHour(t) == Hour * (t \div Hour)

-----------------------------------------------------------------------------
(* Chicago's calendar.                                                     *)

\* The clock goes forward at 2 AM of winter time and back at 2 AM of summer time.
IsSummer(t) == \E s \in Summers : s[1] * Day + 8 * Hour <= t /\ t < s[2] * Day + 7 * Hour

ChicagoOffset(t) == IF IsSummer(t) THEN -(5 * Hour) ELSE -(6 * Hour)

\* Mutant: the offset of the date's noon.
MidnightByNoon(date) == date * Day - ChicagoOffset(date * Day + 18 * Hour)

ChicagoMidnight(date) == date * Day - ChicagoOffset(date * Day + 6 * Hour)

TodayInChicago(t) == (t + ChicagoOffset(t)) \div Day

-----------------------------------------------------------------------------
(* The windows the dashboard asks for, and what the API accepts.           *)

PresetWindow(days, now) == [since |-> now - days * Day, until |-> now + SkewAllowance]

\* Mutant: the last day is not included.
CustomWithoutLast(first, last) ==
  [since |-> ChicagoMidnight(first), until |-> ChicagoMidnight(last)]

CustomWindow(first, last) ==
  [since |-> ChicagoMidnight(first), until |-> ChicagoMidnight(last + 1)]

\* Mutant: the length is counted in dates, which an autumn range exceeds by an hour.
UsableByDates(first, last, today) ==
  first <= last /\ last <= today /\ last + 1 - first <= FormDays

\* rangeProblem finds nothing wrong with the dates.
UsableRange(first, last, today) ==
  /\ first <= last
  /\ last <= today
  /\ LET window == CustomWindow(first, last)
     IN  window.until - window.since <= FormDays * Day

\* date_range raises no InputError.
DateRange(window) ==
  /\ window.since < window.until
  /\ window.until - window.since <= MaxRangeDays * Day

-----------------------------------------------------------------------------
(* The chart's bars: an hour each, or a Chicago date each in long windows. *)

ByHour(window) == window.until - window.since <= HourlyDays * Day

\* Mutant: the days are listed from UTC dates.
BarsByUtc(window) ==
  IF ByHour(window)
    THEN {h \in FloorToHour(window.since) .. (window.until - 1) : h % Hour = 0}
    ELSE (window.since \div Day) .. ((window.until - 1) \div Day)

Bars(window) ==
  IF ByHour(window)
    THEN {h \in FloorToHour(window.since) .. (window.until - 1) : h % Hour = 0}
    ELSE TodayInChicago(window.since) .. TodayInChicago(window.until - 1)

\* The bar in which a call received at t is counted: by the start of the hour that
\* the API's hourly query counts it in.
BarOf(t, window) ==
  IF ByHour(window) THEN FloorToHour(t) ELSE TodayInChicago(FloorToHour(t))

=============================================================================
