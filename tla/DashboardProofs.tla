--------------------------- MODULE DashboardProofs ---------------------------
(***************************************************************************)
(* Theorems of the dashboard and of its requests: of Windows and           *)
(* RangeForm, for every date, every instant, every set of clock changes    *)
(* and every limit; of Admission, for every document, every size and every *)
(* limit; and of LiveUpdates, for any number of versions, failures and     *)
(* gestures.                                                               *)
(***************************************************************************)
EXTENDS Admission, LiveUpdates, FiniteSetTheorems, SequenceTheorems, WellFoundedInduction, TLAPS

-----------------------------------------------------------------------------
(* Windows.                                                                *)

LEMMA OffsetType == \A t \in Int : ChicagoOffset(t) \in {-60, -72}
BY DEF ChicagoOffset, Hour

\* No clock change falls between a midnight in Chicago and any way of counting it:
\* an instant is on a date or a later one exactly if it is not before its midnight.
LEMMA FromMidnight ==
  ASSUME NEW t \in Int, NEW date \in Int
  PROVE  ChicagoMidnight(date) <= t <=> date <= TodayInChicago(t)
<1> DEFINE early == date * Day + 6 * Hour
<1>1. date <= TodayInChicago(t) <=> date * 288 <= t + ChicagoOffset(t)
  BY OffsetType DEF TodayInChicago, Day, Hour
<1>2. ChicagoMidnight(date) <= t <=> date * 288 <= t + ChicagoOffset(early)
  BY OffsetType DEF ChicagoMidnight, Day, Hour
<1>3. CASE IsSummer(t) = IsSummer(early)
  BY <1>1, <1>2, <1>3 DEF ChicagoOffset
<1>4. CASE IsSummer(t) /\ ~IsSummer(early)
  <2>1. PICK s \in Summers : s[1] * 288 + 96 <= t /\ t < s[2] * 288 + 84
    BY <1>4 DEF IsSummer, Day, Hour
  <2>2. s[1] \in Int /\ s[2] \in Int
    BY WindowsAssumption
  <2>3. ~(s[1] * 288 + 96 <= date * 288 + 72 /\ date * 288 + 72 < s[2] * 288 + 84)
    BY <1>4 DEF IsSummer, Day, Hour
  <2>4. ChicagoOffset(t) = -60 /\ ChicagoOffset(early) = -72
    BY <1>4 DEF ChicagoOffset, Hour
  <2> QED BY <1>1, <1>2, <2>1, <2>2, <2>3, <2>4
<1>5. CASE ~IsSummer(t) /\ IsSummer(early)
  <2>1. PICK s \in Summers : s[1] * 288 + 96 <= date * 288 + 72 /\ date * 288 + 72 < s[2] * 288 + 84
    BY <1>5 DEF IsSummer, Day, Hour
  <2>2. s[1] \in Int /\ s[2] \in Int
    BY WindowsAssumption
  <2>3. ~(s[1] * 288 + 96 <= t /\ t < s[2] * 288 + 84)
    BY <1>5 DEF IsSummer, Day, Hour
  <2>4. ChicagoOffset(t) = -72 /\ ChicagoOffset(early) = -60
    BY <1>5 DEF ChicagoOffset, Hour
  <2> QED BY <1>1, <1>2, <2>1, <2>2, <2>3, <2>4
<1> QED BY <1>3, <1>4, <1>5 DEF IsSummer

\* A custom range asks for exactly the instants of its days, on either side of a clock
\* change and on the day of one (time.ts, customWindow).
THEOREM WholeDays ==
  ASSUME NEW first \in Int, NEW last \in Int, NEW t \in Int
  PROVE  InWindow(t, CustomWindow(first, last)) <=> TodayInChicago(t) \in first .. last
<1>1. TodayInChicago(t) \in Int
  BY OffsetType DEF TodayInChicago, Day, Hour
<1>2. ChicagoMidnight(last + 1) \in Int /\ ChicagoMidnight(first) \in Int
  BY OffsetType DEF ChicagoMidnight, Day, Hour
<1>3. ChicagoMidnight(first) <= t <=> first <= TodayInChicago(t)
  BY FromMidnight
<1>4. ChicagoMidnight(last + 1) <= t <=> last + 1 <= TodayInChicago(t)
  BY FromMidnight
<1> QED BY <1>1, <1>2, <1>3, <1>4 DEF InWindow, CustomWindow

\* The clock changes on the hour, so that the start of an instant's hour has its date.
LEMMA HourHasItsDate ==
  ASSUME NEW t \in Int
  PROVE  FloorToHour(t) \in Int /\ TodayInChicago(FloorToHour(t)) = TodayInChicago(t)
<1> DEFINE h == FloorToHour(t)
<1>1. h \in Int /\ h <= t /\ t < h + 12 /\ h = 12 * (t \div 12) /\ t \div 12 \in Int
  BY DEF FloorToHour, Hour
<1>2. ASSUME NEW s \in Summers
      PROVE  (s[1] * 288 + 96 <= h /\ h < s[2] * 288 + 84)
               <=> (s[1] * 288 + 96 <= t /\ t < s[2] * 288 + 84)
  <2>1. s[1] \in Int /\ s[2] \in Int
    BY WindowsAssumption
  <2> QED BY <1>1, <2>1
<1>3. IsSummer(h) <=> IsSummer(t)
  BY <1>2 DEF IsSummer, Day, Hour
<1>4. ChicagoOffset(h) = ChicagoOffset(t)
  BY <1>3 DEF ChicagoOffset
<1>5. (h + ChicagoOffset(t)) \div 288 = (t + ChicagoOffset(t)) \div 288
  BY <1>1, OffsetType
<1> QED BY <1>1, <1>4, <1>5 DEF TodayInChicago, Day, Hour

\* Later instants have no earlier dates.
LEMMA DatesAscend ==
  ASSUME NEW t \in Int, NEW u \in Int, t <= u
  PROVE  TodayInChicago(t) <= TodayInChicago(u)
<1>1. TodayInChicago(t) \in Int /\ TodayInChicago(u) \in Int
  BY OffsetType DEF TodayInChicago, Day, Hour
<1>2. ChicagoMidnight(TodayInChicago(t)) \in Int
  BY <1>1, OffsetType DEF ChicagoMidnight, Day, Hour
<1>3. ChicagoMidnight(TodayInChicago(t)) <= u
  BY <1>1, <1>2, FromMidnight
<1> QED BY <1>1, <1>3, FromMidnight

\* Every call the API counts in a window finds the bar it belongs to on the chart,
\* whatever the window and the clock changes in it, so that the bars add up to the
\* total shown beside them (activity.ts, activityBuckets; queries.py, hourly).
THEOREM BarsCover ==
  ASSUME NEW since \in Int, NEW until \in Int, NEW t \in Int,
         InWindow(t, [since |-> since, until |-> until])
  PROVE  BarOf(t, [since |-> since, until |-> until])
           \in Bars([since |-> since, until |-> until])
<1> DEFINE window == [since |-> since, until |-> until]
<1>1. since <= t /\ t <= until - 1 /\ until - 1 \in Int
  BY DEF InWindow
<1>2. CASE ByHour(window)
  <2>1. FloorToHour(t) \in Int /\ FloorToHour(t) % Hour = 0
    BY DEF FloorToHour, Hour
  <2>2. FloorToHour(since) <= FloorToHour(t) /\ FloorToHour(t) <= t /\ FloorToHour(since) \in Int
    BY <1>1 DEF FloorToHour, Hour
  <2> QED BY <1>1, <1>2, <2>1, <2>2 DEF BarOf, Bars
<1>3. CASE ~ByHour(window)
  <2>1. BarOf(t, window) = TodayInChicago(t)
    BY <1>3, HourHasItsDate DEF BarOf
  <2>2. TodayInChicago(t) \in Int /\ TodayInChicago(since) \in Int /\ TodayInChicago(until - 1) \in Int
    BY <1>1, OffsetType DEF TodayInChicago, Day, Hour
  <2>3. TodayInChicago(since) <= TodayInChicago(t) /\ TodayInChicago(t) <= TodayInChicago(until - 1)
    BY <1>1, DatesAscend
  <2> QED BY <1>3, <2>1, <2>2, <2>3 DEF Bars
<1> QED BY <1>2, <1>3

\* Dates the form lets through make a window the API accepts, the setting being no less
\* than the form's own limit (WindowsAssumption).
THEOREM UsableIsAccepted ==
  ASSUME NEW first \in Int, NEW last \in Int, NEW today \in Int,
         UsableRange(first, last, today)
  PROVE  DateRange(CustomWindow(first, last))
<1>1. ChicagoMidnight(first) \in Int /\ ChicagoMidnight(last + 1) \in Int
  BY OffsetType DEF ChicagoMidnight, Day, Hour
<1>2. ChicagoMidnight(first) < ChicagoMidnight(last + 1)
  BY OffsetType DEF ChicagoMidnight, Day, Hour, UsableRange
<1>3. FormDays * Day <= MaxRangeDays * Day /\ FormDays * Day \in Int /\ MaxRangeDays * Day \in Int
  BY WindowsAssumption DEF Day, Hour
<1> QED BY <1>1, <1>2, <1>3 DEF UsableRange, CustomWindow, DateRange

-----------------------------------------------------------------------------
(* The form.                                                               *)

\* What every range the form can be brought to satisfies, at whatever time.
Sound(r) ==
  /\ r \in RangeType
  /\ r.kind = "custom" => r.first <= r.last /\ DateRange(CustomWindow(r.first, r.last))

AskedSound ==
  asked # Nothing =>
    /\ Sound(asked.range)
    /\ \E t \in Clock : asked.window = WindowFor(asked.range, t)

FormInv ==
  /\ now \in Int
  /\ now \in Clock
  /\ Sound(range)
  /\ AskedSound

\* A preset is a sound range, and the window of a sound range is one the API accepts.
LEMMA PresetSound == \A days \in PresetDays : Sound(Preset(days))
BY DEF Sound, RangeType, Preset

LEMMA CustomSound ==
  ASSUME NEW first \in Int, NEW last \in Int, NEW today \in Int,
         UsableRange(first, last, today)
  PROVE  Sound(Custom(first, last))
<1>1. DateRange(CustomWindow(first, last)) /\ first <= last
  BY UsableIsAccepted DEF UsableRange
<1> QED BY <1>1 DEF Sound, RangeType, Custom

\* The days "Custom dates" starts with are sound without a check.
LEMMA FirstDatesSound ==
  ASSUME NEW today \in Int
  PROVE  Sound(Custom(today - (CustomDays - 1), today))
<1> DEFINE first == today - (CustomDays - 1)
<1>1. CustomDays \in Int /\ MaxRangeDays \in Int /\ 1 <= CustomDays /\ CustomDays + 1 <= MaxRangeDays
  BY WindowsAssumption
<1>2. first \in Int /\ first <= today
  BY <1>1
<1>3. DateRange(CustomWindow(first, today))
  BY <1>1, <1>2, OffsetType DEF DateRange, CustomWindow, ChicagoMidnight, Day, Hour
<1> QED BY <1>2, <1>3 DEF Sound, RangeType, Custom

LEMMA SoundIsServed ==
  ASSUME NEW r, Sound(r), NEW t \in Int
  PROVE  DateRange(WindowFor(r, t))
<1>1. CASE r.kind = "custom"
  BY <1>1 DEF Sound, WindowFor
<1>2. CASE r.kind # "custom"
  <2>1. PICK days \in PresetDays : r = Preset(days)
    BY <1>2 DEF Sound, RangeType, Custom
  <2>2. days \in Int /\ MaxRangeDays \in Int /\ 1 <= days /\ days + 1 <= MaxRangeDays
    BY WindowsAssumption
  <2>3. WindowFor(r, t) = [since |-> t - days * 288, until |-> t + 1]
    BY <2>1 DEF WindowFor, Preset, PresetWindow, Day, Hour, SkewAllowance
  <2> QED BY <2>2, <2>3 DEF DateRange, Day, Hour
<1> QED BY <1>1, <1>2

THEOREM FormInvariant == FormSpec => []FormInv
<1>1. FormInit => FormInv
  BY RangeFormAssumption, PresetSound DEF FormInit, FormInv, AskedSound
<1>2. FormInv /\ [FormNext]_formVars => FormInv'
  <2> SUFFICES ASSUME FormInv, [FormNext]_formVars PROVE FormInv'
    OBVIOUS
  <2>1. CASE Tick
    BY <2>1, RangeFormAssumption DEF FormInv, AskedSound, Tick
  <2>2. CASE ChoosePreset
    BY <2>2, PresetSound DEF FormInv, AskedSound, ChoosePreset
  <2>3. CASE ChooseCustom
    <3>1. TodayInChicago(now) \in Int
      BY OffsetType DEF FormInv, TodayInChicago, Day, Hour
    <3> QED BY <2>3, <3>1, FirstDatesSound DEF FormInv, AskedSound, ChooseCustom
  <2>4. CASE ChangeDates
    <3>1. TodayInChicago(now) \in Int
      BY OffsetType DEF FormInv, TodayInChicago, Day, Hour
    <3>2. PICK first \in Dates, last \in Dates :
            UsableRange(first, last, TodayInChicago(now)) /\ range' = Custom(first, last)
      BY <2>4 DEF ChangeDates
    <3>3. Sound(range')
      BY <3>1, <3>2, RangeFormAssumption, CustomSound
    <3> QED BY <2>4, <3>3 DEF FormInv, AskedSound, ChangeDates
  <2>5. CASE Ask
    <3>1. AskedSound'
      BY <2>5 DEF FormInv, AskedSound, Ask
    <3> QED BY <2>5, <3>1 DEF FormInv, Ask
  <2>6. CASE Settle
    BY <2>6 DEF FormInv, AskedSound, Settle
  <2>7. CASE UNCHANGED formVars
    BY <2>7 DEF FormInv, AskedSound, formVars
  <2> QED BY <2>1, <2>2, <2>3, <2>4, <2>5, <2>6, <2>7 DEF FormNext, Choose
<1> QED BY <1>1, <1>2, PTL DEF FormSpec

\* Whatever dates are entered in whatever order, a request for them holds exactly the
\* calls of those dates (customWindow).
THEOREM AskedWholeDaysHolds == FormSpec => []AskedWholeDays
<1>1. FormInv => AskedWholeDays
  <2> SUFFICES ASSUME FormInv, asked # Nothing, asked.range.kind = "custom", NEW t \in Instants
               PROVE  InWindow(t, asked.window)
                        <=> TodayInChicago(t) \in asked.range.first .. asked.range.last
    BY DEF AskedWholeDays
  <2>1. asked.range \in RangeType /\ \E u \in Clock : asked.window = WindowFor(asked.range, u)
    BY DEF FormInv, AskedSound, Sound
  <2>2. PICK first \in Int, last \in Int : asked.range = Custom(first, last)
    BY <2>1 DEF RangeType, Preset
  <2>3. asked.window = CustomWindow(first, last)
    BY <2>1, <2>2 DEF WindowFor, Custom
  <2> QED BY <2>2, <2>3, WholeDays, RangeFormAssumption DEF Custom
<1> QED BY <1>1, FormInvariant, PTL

\* The form lets no range through that the API refuses (rangeProblem, date_range).
THEOREM AskedIsServedHolds == FormSpec => []AskedIsServed
<1>1. FormInv => AskedIsServed
  BY SoundIsServed, RangeFormAssumption DEF FormInv, AskedSound, AskedIsServed
<1> QED BY <1>1, FormInvariant, PTL

\* The bars add up to the total, for every window the form can ask for (activityBuckets).
THEOREM EveryCallHasABarHolds == FormSpec => []EveryCallHasABar
<1>1. FormInv => EveryCallHasABar
  <2> SUFFICES ASSUME FormInv, asked # Nothing, NEW t \in Instants, InWindow(t, asked.window)
               PROVE  BarOf(t, asked.window) \in Bars(asked.window)
    BY DEF EveryCallHasABar
  <2>1. PICK u \in Clock : asked.window = WindowFor(asked.range, u)
    BY DEF FormInv, AskedSound
  <2>2. \E since, until \in Int : asked.window = [since |-> since, until |-> until]
    <3>1. CASE asked.range.kind = "custom"
      <4>1. PICK first \in Int, last \in Int : asked.range = Custom(first, last)
        BY <3>1 DEF FormInv, AskedSound, Sound, RangeType, Preset
      <4>2. ChicagoMidnight(first) \in Int /\ ChicagoMidnight(last + 1) \in Int
        BY <4>1, OffsetType DEF ChicagoMidnight, Day, Hour
      <4> QED BY <2>1, <4>1, <4>2 DEF WindowFor, Custom, CustomWindow
    <3>2. CASE asked.range.kind # "custom"
      <4>1. PICK days \in PresetDays : asked.range = Preset(days)
        BY <3>2 DEF FormInv, AskedSound, Sound, RangeType, Custom
      <4>2. days \in Int /\ u \in Int
        BY WindowsAssumption, RangeFormAssumption
      <4>3. u - days * Day \in Int /\ u + SkewAllowance \in Int
        BY <4>2 DEF Day, Hour, SkewAllowance
      <4> QED BY <2>1, <4>1, <4>3 DEF WindowFor, Preset, PresetWindow
    <3> QED BY <3>1, <3>2
  <2> QED BY <2>2, BarsCover, RangeFormAssumption
<1> QED BY <1>1, FormInvariant, PTL

-----------------------------------------------------------------------------
(* Recursive functions.                                                    *)

\* A nonempty set of numbers has a least one.
LEMMA LeastNatural ==
  ASSUME NEW T \in SUBSET Nat, T # {}
  PROVE  \E n \in T : \A m \in T : n <= m
<1> DEFINE Upto(x) == 0 .. x
           Segments == {Upto(x) : x \in T}
<1>1. Segments \in SUBSET FiniteSubsetsOf(Nat)
  <2>1. ASSUME NEW x \in T PROVE Upto(x) \in FiniteSubsetsOf(Nat)
    BY FS_Interval DEF FiniteSubsetsOf
  <2> QED BY <2>1
<1>2. PICK segment \in Segments :
        \A other \in Segments : ~ (<<other, segment>> \in StrictSubsetOrdering(Nat))
  <2>1. IsWellFoundedOn(StrictSubsetOrdering(Nat), FiniteSubsetsOf(Nat))
    BY FS_StrictSubsetOrderingWellFounded
  <2>2. Segments # {}
    OBVIOUS
  <2> HIDE DEF Segments
  <2> QED BY <1>1, <2>1, <2>2, WFMin, Zenon
<1>3. PICK x \in T : segment = Upto(x)
  BY <1>2
<1>4. ASSUME NEW y \in T, ~ (x <= y) PROVE FALSE
  <2>1. Upto(y) \in SUBSET Upto(x) /\ x \in Upto(x) /\ x \notin Upto(y)
    BY <1>4
  <2>2. <<Upto(y), Upto(x)>> \in (SUBSET Nat) \X (SUBSET Nat) /\ Upto(y) # Upto(x)
    BY <2>1
  <2>3. <<Upto(y), Upto(x)>> \in StrictSubsetOrdering(Nat)
    BY <2>1, <2>2 DEF StrictSubsetOrdering
  <2> QED BY <1>2, <1>3, <2>3
<1> QED BY <1>4

\* Induction over the numbers, said of a set of them.
LEMMA InductiveSet ==
  ASSUME NEW T, 0 \in T, \A n \in Nat : n \in T => n + 1 \in T
  PROVE  Nat \subseteq T
<1> SUFFICES ASSUME Nat \ T # {} PROVE FALSE
  OBVIOUS
<1>1. PICK n \in Nat \ T : \A m \in Nat \ T : n <= m
  BY LeastNatural
<1>2. n # 0 /\ n - 1 \in Nat /\ n - 1 \in T
  BY <1>1
<1> QED BY <1>1, <1>2

\* Induction over what has a measure, said of a set as well.
LEMMA MeasureInduction ==
  ASSUME NEW S, NEW m \in [S -> Nat], NEW T,
         \A x \in S : (\A y \in S : m[y] < m[x] => y \in T) => x \in T
  PROVE  S \subseteq T
<1> SUFFICES ASSUME S \ T # {} PROVE FALSE
  OBVIOUS
<1> DEFINE measures == {m[x] : x \in S \ T}
<1>1. measures \in SUBSET Nat /\ measures # {}
  OBVIOUS
<1>2. PICK n \in measures : \A k \in measures : n <= k
  <2> HIDE DEF measures
  <2> QED BY <1>1, LeastNatural
<1>3. PICK x \in S \ T : n = m[x]
  BY <1>2
<1>4. ASSUME NEW y \in S, m[y] < m[x] PROVE y \in T
  <2>1. CASE y \notin T
    <3>1. m[y] \in measures /\ m[y] \in Nat /\ m[x] \in Nat
      BY <2>1
    <3>2. m[x] <= m[y]
      BY <1>2, <1>3, <3>1
    <3> QED BY <1>4, <3>1, <3>2
  <2> QED BY <2>1
<1> QED BY <1>3, <1>4

\* body gives the value at a point from a function, of which it looks at what measures
\* less only.
LooksBelow(S, A, m, body) ==
  /\ m \in [S -> Nat]
  /\ body \in [S -> [[S -> A] -> A]]
  /\ \A x \in S : \A f, g \in [S -> A] :
       (\A y \in S : m[y] < m[x] => f[y] = g[y]) => body[x][f] = body[x][g]

\* f has at each point the value that the body gives it from f itself.
Solves(S, f, body) == \A x \in S : f[x] = body[x][f]

\* There is then a function with these values.
LEMMA RecursiveFunctionExists ==
  ASSUME NEW S, NEW A, A # {}, NEW m, NEW body, LooksBelow(S, A, m, body)
  PROVE  \E f \in [S -> A] : Solves(S, f, body)
<1> USE DEF LooksBelow
<1> DEFINE Good(n, f) == \A x \in S : m[x] < n => f[x] = body[x][f]
           T == {n \in Nat : \E f \in [S -> A] : Good(n, f)}
<1>0. \A x \in S : m[x] \in Nat
  OBVIOUS
<1>b. \A x \in S : \A f \in [S -> A] : body[x][f] \in A
  OBVIOUS
<1>1. 0 \in T
  <2>1. PICK a \in A : TRUE
    OBVIOUS
  <2>2. [x \in S |-> a] \in [S -> A] /\ Good(0, [x \in S |-> a])
    BY <1>0, <2>1
  <2> QED BY <2>2
<1>2. ASSUME NEW n \in Nat, n \in T PROVE n + 1 \in T
  <2>1. PICK f \in [S -> A] : Good(n, f)
    BY <1>2
  <2> DEFINE g == [x \in S |-> IF m[x] = n THEN body[x][f] ELSE f[x]]
  <2>2. g \in [S -> A]
    BY <1>b
  <2>3. ASSUME NEW x \in S, m[x] < n + 1 PROVE g[x] = body[x][g]
    <3>1. m[x] \in Nat
      OBVIOUS
    <3>2. \A y \in S : m[y] < m[x] => f[y] = g[y]
      BY <1>0, <2>3, <3>1
    <3>3. body[x][f] = body[x][g]
      <4> HIDE DEF g
      <4> QED BY <2>2, <3>2
    <3>4. g[x] = body[x][f]
      <4>1. m[x] < n \/ m[x] = n
        <5>1. m[x] < n + 1
          BY <2>3
        <5>2. \A a, b \in Nat : a < b + 1 => a < b \/ a = b
          OBVIOUS
        <5> QED BY <5>1, <5>2, <3>1
      <4>2. m[x] < n => f[x] = body[x][f]
        BY <2>1
      <4> QED BY <4>1, <4>2
    <3> QED BY <3>3, <3>4
  <2>4. Good(n + 1, g)
    <3> HIDE DEF g
    <3> QED BY <2>3
  <2> HIDE DEF g, Good
  <2> QED BY <2>2, <2>4
<1>3. \A n \in Nat : \E f \in [S -> A] : Good(n, f)
  <2>1. Nat \subseteq T
    <3> HIDE DEF T
    <3> QED BY <1>1, <1>2, InductiveSet
  <2> QED BY <2>1
<1>4. ASSUME NEW n \in Nat, NEW f \in [S -> A], NEW g \in [S -> A], Good(n, f), Good(n, g)
      PROVE  \A x \in S : m[x] < n => f[x] = g[x]
  <2> DEFINE Same == {x \in S : m[x] < n => f[x] = g[x]}
  <2>1. ASSUME NEW x \in S, \A y \in S : m[y] < m[x] => y \in Same PROVE x \in Same
    <3>1. CASE m[x] < n
      <4>1. \A y \in S : m[y] < m[x] => f[y] = g[y]
        BY <1>0, <2>1, <3>1
      <4>2. body[x][f] = body[x][g]
        BY <4>1
      <4> QED BY <1>4, <3>1, <4>2
    <3> QED BY <3>1
  <2>2. S \subseteq Same
    <3> HIDE DEF Same
    <3> QED BY <2>1, MeasureInduction
  <2> QED BY <2>2
<1> DEFINE h == [n \in Nat |-> CHOOSE f \in [S -> A] : Good(n, f)]
           r == [x \in S |-> h[m[x] + 1][x]]
<1>5. ASSUME NEW n \in Nat PROVE h[n] \in [S -> A] /\ Good(n, h[n])
  BY <1>3
<1>6. r \in [S -> A]
  <2> HIDE DEF h
  <2>1. ASSUME NEW x \in S PROVE h[m[x] + 1][x] \in A
    <3>1. m[x] + 1 \in Nat
      BY <1>0
    <3> QED BY <1>5, <3>1
  <2> QED BY <2>1
<1>7. ASSUME NEW x \in S PROVE r[x] = body[x][r]
  <2> HIDE DEF h
  <2>1. m[x] \in Nat /\ m[x] + 1 \in Nat
    BY <1>0
  <2>2. h[m[x] + 1] \in [S -> A] /\ Good(m[x] + 1, h[m[x] + 1])
    BY <1>5, <2>1
  <2>3. r[x] = body[x][h[m[x] + 1]]
    BY <2>1, <2>2
  <2>4. ASSUME NEW y \in S, m[y] < m[x] PROVE h[m[x] + 1][y] = r[y]
    <3>1. m[y] \in Nat /\ m[y] + 1 \in Nat
      BY <1>0
    <3>2. h[m[y] + 1] \in [S -> A] /\ Good(m[y] + 1, h[m[y] + 1])
      BY <1>5, <3>1
    <3>3. Good(m[y] + 1, h[m[x] + 1])
      BY <1>0, <2>1, <2>2, <2>4, <3>1
    <3>4. h[m[x] + 1][y] = h[m[y] + 1][y]
      <4> HIDE DEF Good
      <4>1. \A z \in S : m[z] < m[y] + 1 => h[m[x] + 1][z] = h[m[y] + 1][z]
        BY <1>4, <2>2, <3>1, <3>2, <3>3
      <4> QED BY <3>1, <4>1
    <3> QED BY <3>4
  <2>5. body[x][h[m[x] + 1]] = body[x][r]
    <3> HIDE DEF r, Good
    <3> QED BY <1>6, <2>2, <2>4
  <2> QED BY <2>3, <2>5
<1> HIDE DEF r
<1> QED BY <1>6, <1>7 DEF Solves

-----------------------------------------------------------------------------
(* Sums over selections.                                                   *)

\* The sum, taken one selection after the other.
LEMMA SumUnfolds ==
  ASSUME NEW ids, NEW x, \A i \in ids : x[i] \in Int
  PROVE  /\ SumOver(ids, x, 0) = 0
         /\ \A n \in Nat : /\ SumOver(ids, x, n) \in Int
                           /\ n + 1 \in ids => SumOver(ids, x, n + 1) = SumOver(ids, x, n) + x[n + 1]
                           /\ n + 1 \notin ids => SumOver(ids, x, n + 1) = SumOver(ids, x, n)
<1> DEFINE m == [i \in Nat |-> i]
           body == [i \in Nat |-> [f \in [Nat -> Int] |->
                      IF i = 0 THEN 0 ELSE f[i - 1] + (IF i \in ids THEN x[i] ELSE 0)]]
<1>1. body \in [Nat -> [[Nat -> Int] -> Int]]
  <2>1. ASSUME NEW i \in Nat, NEW f \in [Nat -> Int]
        PROVE  (IF i = 0 THEN 0 ELSE f[i - 1] + (IF i \in ids THEN x[i] ELSE 0)) \in Int
    <3>1. i # 0 => i - 1 \in Nat
      OBVIOUS
    <3>2. i # 0 => f[i - 1] \in Int
      BY <3>1
    <3>3. (IF i \in ids THEN x[i] ELSE 0) \in Int
      OBVIOUS
    <3> QED BY <3>2, <3>3
  <2> QED BY <2>1
<1>2. ASSUME NEW i \in Nat, NEW f \in [Nat -> Int], NEW g \in [Nat -> Int],
             \A j \in Nat : m[j] < m[i] => f[j] = g[j]
      PROVE  body[i][f] = body[i][g]
  <2>1. i # 0 => i - 1 \in Nat /\ f[i - 1] = g[i - 1]
    BY <1>2
  <2> QED BY <2>1
<1>3. \E f \in [Nat -> Int] : Solves(Nat, f, body)
  <2>1. m \in [Nat -> Nat] /\ Int # {}
    OBVIOUS
  <2>2. \A i \in Nat : \A f, g \in [Nat -> Int] :
          (\A j \in Nat : m[j] < m[i] => f[j] = g[j]) => body[i][f] = body[i][g]
    BY <1>2
  <2> HIDE DEF m, body
  <2>3. LooksBelow(Nat, Int, m, body)
    BY <1>1, <2>1, <2>2 DEF LooksBelow
  <2> QED BY <2>1, <2>3, RecursiveFunctionExists
<1>4. PICK f \in [Nat -> Int] : \A i \in Nat : f[i] = body[i][f]
  BY <1>3 DEF Solves
<1>5. f = [i \in Nat |-> IF i = 0 THEN 0 ELSE f[i - 1] + (IF i \in ids THEN x[i] ELSE 0)]
  BY <1>4
<1> DEFINE sum == CHOOSE s : s = [i \in Nat |-> IF i = 0 THEN 0
                                                ELSE s[i - 1] + (IF i \in ids THEN x[i] ELSE 0)]
<1>6. sum = [i \in Nat |-> IF i = 0 THEN 0 ELSE sum[i - 1] + (IF i \in ids THEN x[i] ELSE 0)]
  BY <1>5
<1>7. \A n : SumOver(ids, x, n) = sum[n]
  BY DEF SumOver
<1> HIDE DEF sum
<1> DEFINE Typed == {n \in Nat : sum[n] \in Int}
<1>8. sum[0] = 0
  BY <1>6
<1>9. ASSUME NEW n \in Nat
      PROVE  sum[n + 1] = sum[n] + (IF n + 1 \in ids THEN x[n + 1] ELSE 0)
  <2>1. n + 1 \in Nat /\ n + 1 # 0 /\ (n + 1) - 1 = n
    OBVIOUS
  <2> QED BY <1>6, <2>1
<1>10. Nat \subseteq Typed
  <2>1. 0 \in Typed
    BY <1>8
  <2>2. ASSUME NEW n \in Nat, n \in Typed PROVE n + 1 \in Typed
    <3>1. (IF n + 1 \in ids THEN x[n + 1] ELSE 0) \in Int
      OBVIOUS
    <3> QED BY <1>9, <2>2, <3>1
  <2> HIDE DEF Typed
  <2> QED BY <2>1, <2>2, InductiveSet
<1>11. ASSUME NEW n \in Nat
       PROVE  /\ sum[n] \in Int
              /\ n + 1 \in ids => sum[n + 1] = sum[n] + x[n + 1]
              /\ n + 1 \notin ids => sum[n + 1] = sum[n]
  BY <1>9, <1>10
<1> QED BY <1>7, <1>8, <1>11

\* One step of it.
LEMMA SumStep ==
  ASSUME NEW ids, NEW x, \A i \in ids : x[i] \in Int, NEW n \in Nat
  PROVE  /\ SumOver(ids, x, n) \in Int
         /\ n + 1 \in ids => SumOver(ids, x, n + 1) = SumOver(ids, x, n) + x[n + 1]
         /\ n + 1 \notin ids => SumOver(ids, x, n + 1) = SumOver(ids, x, n)
BY SumUnfolds

\* No greater number, no greater sum.
LEMMA SumCompares ==
  ASSUME NEW A, NEW B, NEW x, NEW y, A \subseteq B,
         \A i \in A : x[i] \in Int /\ x[i] <= y[i], \A i \in B : y[i] \in Nat, NEW n \in Nat
  PROVE  SumOver(A, x, n) <= SumOver(B, y, n)
<1> DEFINE T == {k \in Nat : SumOver(A, x, k) <= SumOver(B, y, k)}
<1>0. \A i \in B : y[i] \in Int
  OBVIOUS
<1>1. 0 \in T
  BY <1>0, SumUnfolds
<1>2. ASSUME NEW k \in Nat, k \in T PROVE k + 1 \in T
  <2>1. /\ k + 1 \in A => SumOver(A, x, k + 1) = SumOver(A, x, k) + x[k + 1]
        /\ k + 1 \notin A => SumOver(A, x, k + 1) = SumOver(A, x, k)
    BY SumUnfolds
  <2>2. /\ k + 1 \in B => SumOver(B, y, k + 1) = SumOver(B, y, k) + y[k + 1]
        /\ k + 1 \notin B => SumOver(B, y, k + 1) = SumOver(B, y, k)
    BY <1>0, SumStep
  <2>3. SumOver(A, x, k) \in Int /\ SumOver(B, y, k) \in Int
    BY <1>0, SumStep
  <2>4. CASE k + 1 \in A
    <3>1. x[k + 1] \in Int /\ y[k + 1] \in Nat /\ x[k + 1] <= y[k + 1] /\ k + 1 \in B
      BY <2>4
    <3> QED BY <1>2, <2>1, <2>2, <2>3, <2>4, <3>1
  <2>5. CASE k + 1 \in B \ A
    <3>1. y[k + 1] \in Nat
      BY <2>5
    <3> QED BY <1>2, <2>1, <2>2, <2>3, <2>5, <3>1
  <2>6. CASE k + 1 \notin B
    BY <1>2, <2>1, <2>2, <2>3, <2>6
  <2> QED BY <2>4, <2>5, <2>6
<1>3. Nat \subseteq T
  <2> HIDE DEF T
  <2> QED BY <1>1, <1>2, InductiveSet
<1> QED BY <1>3

\* No selections have the sum 0.
LEMMA SumOfNone ==
  ASSUME NEW x, NEW n \in Nat
  PROVE  SumOver({}, x, n) = 0
<1> DEFINE T == {k \in Nat : SumOver({}, x, k) = 0}
<1>1. 0 \in T /\ \A k \in Nat : k \in T => k + 1 \in T
  BY SumUnfolds
<1>2. Nat \subseteq T
  <2> HIDE DEF T
  <2> QED BY <1>1, InductiveSet
<1> QED BY <1>2

\* Natural numbers have a natural sum.
LEMMA SumIsNatural ==
  ASSUME NEW A, NEW x, \A i \in A : x[i] \in Nat, NEW n \in Nat
  PROVE  SumOver(A, x, n) \in Nat
<1>1. SumOver({}, x, n) <= SumOver(A, x, n)
  BY SumCompares
<1>2. SumOver(A, x, n) \in Int
  BY SumUnfolds
<1>3. SumOver({}, x, n) = 0
  BY SumOfNone
<1> QED BY <1>1, <1>2, <1>3

\* What is in two sets counts in both.
LEMMA SumOfUnion ==
  ASSUME NEW A, NEW B, NEW x, \A i \in A \cup B : x[i] \in Nat, NEW n \in Nat
  PROVE  /\ SumOver(A \cup B, x, n) <= SumOver(A, x, n) + SumOver(B, x, n)
         /\ A \cap B = {} => SumOver(A \cup B, x, n) = SumOver(A, x, n) + SumOver(B, x, n)
<1> DEFINE Held(k) ==
             /\ SumOver(A \cup B, x, k) <= SumOver(A, x, k) + SumOver(B, x, k)
             /\ A \cap B = {} => SumOver(A \cup B, x, k) = SumOver(A, x, k) + SumOver(B, x, k)
           T == {k \in Nat : Held(k)}
<1>0. \A i \in A \cup B : x[i] \in Int
  OBVIOUS
<1>1. SumOver(A, x, 0) = 0 /\ SumOver(B, x, 0) = 0 /\ SumOver(A \cup B, x, 0) = 0
  BY <1>0, SumUnfolds
<1>2. ASSUME NEW k \in Nat, Held(k) PROVE Held(k + 1)
  <2>1. /\ k + 1 \in A => SumOver(A, x, k + 1) = SumOver(A, x, k) + x[k + 1]
        /\ k + 1 \notin A => SumOver(A, x, k + 1) = SumOver(A, x, k)
    BY <1>0, SumStep
  <2>2. /\ k + 1 \in B => SumOver(B, x, k + 1) = SumOver(B, x, k) + x[k + 1]
        /\ k + 1 \notin B => SumOver(B, x, k + 1) = SumOver(B, x, k)
    BY <1>0, SumStep
  <2>3. /\ k + 1 \in A \cup B => SumOver(A \cup B, x, k + 1) = SumOver(A \cup B, x, k) + x[k + 1]
        /\ k + 1 \notin A \cup B => SumOver(A \cup B, x, k + 1) = SumOver(A \cup B, x, k)
    BY <1>0, SumStep
  <2>4. SumOver(A, x, k) \in Int /\ SumOver(B, x, k) \in Int /\ SumOver(A \cup B, x, k) \in Int
    BY <1>0, SumStep
  <2>5. CASE k + 1 \in A \cap B
    <3>1. x[k + 1] \in Nat /\ k + 1 \in A \cup B /\ A \cap B # {}
      BY <2>5
    <3> QED BY <1>2, <2>1, <2>2, <2>3, <2>4, <2>5, <3>1
  <2>6. CASE k + 1 \in A \ B
    <3>1. x[k + 1] \in Nat /\ k + 1 \in A \cup B
      BY <2>6
    <3> QED BY <1>2, <2>1, <2>2, <2>3, <2>4, <2>6, <3>1
  <2>7. CASE k + 1 \in B \ A
    <3>1. x[k + 1] \in Nat /\ k + 1 \in A \cup B
      BY <2>7
    <3> QED BY <1>2, <2>1, <2>2, <2>3, <2>4, <2>7, <3>1
  <2>8. CASE k + 1 \notin A \cup B
    <3>1. k + 1 \notin A /\ k + 1 \notin B
      BY <2>8
    <3> QED BY <1>2, <2>1, <2>2, <2>3, <2>4, <2>8, <3>1
  <2> QED BY <2>5, <2>6, <2>7, <2>8
<1>3. Nat \subseteq T
  <2>1. 0 \in T
    BY <1>1
  <2>2. \A k \in Nat : k \in T => k + 1 \in T
    BY <1>2
  <2> HIDE DEF T
  <2> QED BY <2>1, <2>2, InductiveSet
<1> QED BY <1>3

\* A single selection has its own number for a sum, or 0 where it is not reached.
LEMMA SumOfOne ==
  ASSUME NEW i, NEW x, x[i] \in Nat, NEW n \in Nat
  PROVE  /\ SumOver({i}, x, n) <= x[i]
         /\ i \in 1 .. n => SumOver({i}, x, n) = x[i]
<1> DEFINE Held(k) == /\ i \in 1 .. k => SumOver({i}, x, k) = x[i]
                      /\ i \notin 1 .. k => SumOver({i}, x, k) = 0
           T == {k \in Nat : Held(k)}
<1>0. \A j \in {i} : x[j] \in Int
  OBVIOUS
<1>1. SumOver({i}, x, 0) = 0
  BY <1>0, SumUnfolds
<1>2. ASSUME NEW k \in Nat, Held(k) PROVE Held(k + 1)
  <2>1. /\ k + 1 \in {i} => SumOver({i}, x, k + 1) = SumOver({i}, x, k) + x[k + 1]
        /\ k + 1 \notin {i} => SumOver({i}, x, k + 1) = SumOver({i}, x, k)
    BY <1>0, SumStep
  <2>2. i \in 1 .. k + 1 <=> i \in 1 .. k \/ i = k + 1
    OBVIOUS
  <2>3. ~ (k + 1 \in 1 .. k)
    OBVIOUS
  <2> QED BY <1>2, <2>1, <2>2, <2>3
<1>3. Nat \subseteq T
  <2>1. 0 \in T
    BY <1>1
  <2>2. \A k \in Nat : k \in T => k + 1 \in T
    BY <1>2
  <2> HIDE DEF T
  <2> QED BY <2>1, <2>2, InductiveSet
<1> QED BY <1>3

\* The sets G[i] for i in I up to n.
Gathered(I, G, n) == UNION {G[i] : i \in I \cap (1 .. n)}

\* Sets are gathered one index after the other.
LEMMA GatheredOneByOne ==
  ASSUME NEW I, NEW G, NEW k \in Nat
  PROVE  /\ Gathered(I, G, 0) = {}
         /\ k + 1 \in I => Gathered(I, G, k + 1) = Gathered(I, G, k) \cup G[k + 1]
         /\ k + 1 \notin I => Gathered(I, G, k + 1) = Gathered(I, G, k)
<1>1. 1 .. 0 = {}
  OBVIOUS
<1>2. 1 .. k + 1 = (1 .. k) \cup {k + 1}
  OBVIOUS
<1> QED BY <1>1, <1>2 DEF Gathered

\* A sum over gathered sets is no more than the sum of the sums over each.
LEMMA SumOfGathered ==
  ASSUME NEW I, NEW G, NEW x, NEW g, NEW N \in Nat,
         \A i \in I : /\ \A j \in G[i] : x[j] \in Nat
                      /\ g[i] \in Nat
                      /\ SumOver(G[i], x, N) <= g[i],
         NEW n \in Nat
  PROVE  SumOver(Gathered(I, G, n), x, N) <= SumOver(I, g, n)
<1> DEFINE Held(k) == SumOver(Gathered(I, G, k), x, N) <= SumOver(I, g, k)
           T == {k \in Nat : Held(k)}
<1>0. (\A i \in I : g[i] \in Int) /\ \A k \in Nat : \A j \in Gathered(I, G, k) : x[j] \in Nat
  BY DEF Gathered
<1>a. \A i \in I : g[i] \in Int
  OBVIOUS
<1>1. Held(0)
  <2>1. SumOver(I, g, 0) = 0
    BY <1>0, SumUnfolds
  <2>2. Gathered(I, G, 0) = {}
    BY GatheredOneByOne
  <2>3. SumOver({}, x, N) = 0
    BY SumOfNone
  <2> QED BY <2>1, <2>2, <2>3
<1>2. ASSUME NEW k \in Nat, Held(k) PROVE Held(k + 1)
  <2>1. /\ k + 1 \in I => SumOver(I, g, k + 1) = SumOver(I, g, k) + g[k + 1]
        /\ k + 1 \notin I => SumOver(I, g, k + 1) = SumOver(I, g, k)
    BY <1>a, SumStep
  <2>2. SumOver(I, g, k) \in Int /\ SumOver(Gathered(I, G, k), x, N) \in Int
    <3>1. \A j \in Gathered(I, G, k) : x[j] \in Int
      BY <1>0
    <3> QED BY <1>0, <3>1, SumStep
  <2>3. CASE k + 1 \in I
    <3>1. Gathered(I, G, k + 1) = Gathered(I, G, k) \cup G[k + 1]
      BY <2>3, GatheredOneByOne
    <3>2. \A j \in Gathered(I, G, k) \cup G[k + 1] : x[j] \in Nat
      BY <1>0, <2>3
    <3>3. SumOver(Gathered(I, G, k + 1), x, N)
            <= SumOver(Gathered(I, G, k), x, N) + SumOver(G[k + 1], x, N)
      BY <3>1, <3>2, SumOfUnion
    <3>4. SumOver(G[k + 1], x, N) \in Int /\ SumOver(Gathered(I, G, k + 1), x, N) \in Int
      BY <3>1, <3>2, SumIsNatural
    <3> QED BY <1>2, <2>1, <2>2, <2>3, <3>3, <3>4
  <2>4. CASE k + 1 \notin I
    <3>1. Gathered(I, G, k + 1) = Gathered(I, G, k)
      BY <2>4, GatheredOneByOne
    <3> QED BY <1>2, <2>1, <2>2, <2>4, <3>1
  <2> QED BY <2>3, <2>4
<1>3. Nat \subseteq T
  <2>1. 0 \in T
    BY <1>1
  <2>2. \A k \in Nat : k \in T => k + 1 \in T
    BY <1>2
  <2> HIDE DEF T
  <2> QED BY <2>1, <2>2, InductiveSet
<1> QED BY <1>3

\* No two of the sets have an element in common.
Apart(I, G) == \A h, i \in I : h # i => G[h] \cap G[i] = {}

\* Of sets apart from each other it is no less.
LEMMA SumOfApart ==
  ASSUME NEW I, NEW G, NEW x, NEW g, NEW N \in Nat,
         \A i \in I : /\ \A j \in G[i] : x[j] \in Nat
                      /\ g[i] \in Int
                      /\ g[i] <= SumOver(G[i], x, N),
         Apart(I, G),
         NEW n \in Nat
  PROVE  SumOver(I, g, n) <= SumOver(Gathered(I, G, n), x, N)
<1> DEFINE Held(k) == SumOver(I, g, k) <= SumOver(Gathered(I, G, k), x, N)
           T == {k \in Nat : Held(k)}
<1>0. (\A i \in I : g[i] \in Int) /\ \A k \in Nat : \A j \in Gathered(I, G, k) : x[j] \in Nat
  BY DEF Gathered
<1>a. \A i \in I : g[i] \in Int
  OBVIOUS
<1>1. Held(0)
  <2>1. SumOver(I, g, 0) = 0
    BY <1>0, SumUnfolds
  <2>2. SumOver(Gathered(I, G, 0), x, N) \in Nat
    BY <1>0, SumIsNatural
  <2> QED BY <2>1, <2>2
<1>2. ASSUME NEW k \in Nat, Held(k) PROVE Held(k + 1)
  <2>1. /\ k + 1 \in I => SumOver(I, g, k + 1) = SumOver(I, g, k) + g[k + 1]
        /\ k + 1 \notin I => SumOver(I, g, k + 1) = SumOver(I, g, k)
    BY <1>a, SumStep
  <2>2. SumOver(I, g, k) \in Int /\ SumOver(Gathered(I, G, k), x, N) \in Int
    <3>1. \A j \in Gathered(I, G, k) : x[j] \in Int
      BY <1>0
    <3> QED BY <1>0, <3>1, SumStep
  <2>3. CASE k + 1 \in I
    <3>1. Gathered(I, G, k + 1) = Gathered(I, G, k) \cup G[k + 1]
      BY <2>3, GatheredOneByOne
    <3>2. \A j \in Gathered(I, G, k) \cup G[k + 1] : x[j] \in Nat
      BY <1>0, <2>3
    <3>3. Gathered(I, G, k) \cap G[k + 1] = {}
      <4>1. \A i \in I \cap (1 .. k) : i # k + 1
        OBVIOUS
      <4> QED BY <2>3, <4>1 DEF Gathered, Apart
    <3>4. SumOver(Gathered(I, G, k + 1), x, N)
            = SumOver(Gathered(I, G, k), x, N) + SumOver(G[k + 1], x, N)
      BY <3>1, <3>2, <3>3, SumOfUnion
    <3>5. SumOver(G[k + 1], x, N) \in Int
      BY <3>2, SumIsNatural
    <3> QED BY <1>2, <2>1, <2>2, <2>3, <3>4, <3>5
  <2>4. CASE k + 1 \notin I
    <3>1. Gathered(I, G, k + 1) = Gathered(I, G, k)
      BY <2>4, GatheredOneByOne
    <3> QED BY <1>2, <2>1, <2>2, <2>4, <3>1
  <2> QED BY <2>3, <2>4
<1>3. Nat \subseteq T
  <2>1. 0 \in T
    BY <1>1
  <2>2. \A k \in Nat : k \in T => k + 1 \in T
    BY <1>2
  <2> HIDE DEF T
  <2> QED BY <2>1, <2>2, InductiveSet
<1> QED BY <1>3

\* One, and a multiple of a sum, is in the sum of one and the multiple of each.
LEMMA SumOfMultiples ==
  ASSUME NEW A, NEW x, \A i \in A : x[i] \in Nat, NEW k \in Nat, NEW N \in Nat,
         A \cap (1 .. N) # {}
  PROVE  1 + k * SumOver(A, x, N) <= SumOver(A, [i \in A |-> 1 + k * x[i]], N)
<1> DEFINE y == [i \in A |-> 1 + k * x[i]]
<1>0. (\A i \in A : x[i] \in Int /\ y[i] \in Int) /\ \A i \in A : y[i] = 1 + k * x[i] /\ y[i] \in Nat
  OBVIOUS
<1>a. \A i \in A : x[i] \in Int
  OBVIOUS
<1>b. \A i \in A : y[i] \in Int
  OBVIOUS
<1> HIDE DEF y
<1>c. \A n \in Nat : /\ SumOver(A, x, n) \in Int
                     /\ n + 1 \in A => SumOver(A, x, n + 1) = SumOver(A, x, n) + x[n + 1]
                     /\ n + 1 \notin A => SumOver(A, x, n + 1) = SumOver(A, x, n)
  BY <1>a, SumStep
<1>d. \A n \in Nat : /\ SumOver(A, y, n) \in Int
                     /\ n + 1 \in A => SumOver(A, y, n + 1) = SumOver(A, y, n) + y[n + 1]
                     /\ n + 1 \notin A => SumOver(A, y, n + 1) = SumOver(A, y, n)
  BY <1>b, SumStep
<1> DEFINE Some(n) == IF A \cap (1 .. n) = {} THEN 0 ELSE 1
           Held(n) == Some(n) + k * SumOver(A, x, n) <= SumOver(A, y, n)
           T == {n \in Nat : Held(n)}
<1>1. Held(0)
  <2>1. SumOver(A, x, 0) = 0 /\ SumOver(A, y, 0) = 0
    BY <1>0, SumUnfolds
  <2> QED BY <2>1
<1>2. ASSUME NEW n \in Nat, Held(n) PROVE Held(n + 1)
  <2>1. /\ n + 1 \in A => SumOver(A, x, n + 1) = SumOver(A, x, n) + x[n + 1]
        /\ n + 1 \notin A => SumOver(A, x, n + 1) = SumOver(A, x, n)
    BY <1>c
  <2>2. /\ n + 1 \in A => SumOver(A, y, n + 1) = SumOver(A, y, n) + y[n + 1]
        /\ n + 1 \notin A => SumOver(A, y, n + 1) = SumOver(A, y, n)
    BY <1>d
  <2>3. SumOver(A, x, n) \in Int /\ SumOver(A, y, n) \in Int
    BY <1>0, SumStep
  <2>4. \A a, b \in Int : k * (a + b) = k * a + k * b
    OBVIOUS
  <2>5. k * SumOver(A, x, n) \in Int
    BY <2>3
  <2>6. CASE n + 1 \in A
    <3>1. k * SumOver(A, x, n + 1) = k * SumOver(A, x, n) + k * x[n + 1]
      BY <1>0, <2>1, <2>3, <2>4, <2>6
    <3>2. SumOver(A, y, n + 1) = SumOver(A, y, n) + (1 + k * x[n + 1]) /\ k * x[n + 1] \in Int
      BY <1>0, <2>2, <2>6
    <3>3. Some(n + 1) <= 1 /\ Some(n) >= 0 /\ Some(n) \in Int /\ Some(n + 1) \in Int
      OBVIOUS
    <3> HIDE DEF Some
    <3> QED BY <1>2, <2>3, <2>5, <3>1, <3>2, <3>3
  <2>7. CASE n + 1 \notin A
    <3>1. A \cap (1 .. n + 1) = A \cap (1 .. n)
      BY <2>7
    <3>2. SumOver(A, x, n + 1) = SumOver(A, x, n) /\ SumOver(A, y, n + 1) = SumOver(A, y, n)
      BY <2>1, <2>2, <2>3, <2>7
    <3> QED BY <1>2, <3>1, <3>2
  <2> QED BY <2>6, <2>7
<1>3. Nat \subseteq T
  <2>1. 0 \in T
    BY <1>1
  <2>2. \A n \in Nat : n \in T => n + 1 \in T
    BY <1>2
  <2> HIDE DEF T
  <2> QED BY <2>1, <2>2, InductiveSet
<1>4. Held(N) /\ Some(N) = 1
  BY <1>3
<1> QED BY <1>4 DEF y

-----------------------------------------------------------------------------
(* The schema.                                                             *)

\* How far the objects of a type are from those without objects.
Rank ==
  [type \in ObjectTypes |->
     CASE type = "Query" -> 4
       [] type \in {"CallPage", "MapCalls", "Summary"} -> 3
       [] type \in {"Call", "SourceStatus", "TypeBreakdown"} -> 2
       [] OTHER -> 1]

\* What is so of every field of the schema.
Sensible(parent, field) ==
  /\ field.type \in ObjectTypes \cup {Leaf}
  /\ field.type \in ObjectTypes => Rank[field.type] < Rank[parent]
  /\ field.list \in BOOLEAN /\ field.sizedChild \in BOOLEAN
  /\ field.sizedChild => field.list /\ field.size = Unsized
  /\ field.size # Unsized => ~field.list
  /\ field.size.default \in Nat /\ field.size.worst \in Nat

\* The object types of the schema, scalars not among them.
LEMMA TypesAre ==
  /\ ObjectTypes = {"Query", "CallPage", "MapCalls", "Call", "MnpdCallRecord", "PageInfo", "Summary",
                    "TypeBreakdown", "TypeCount", "HourCount", "FilterValues", "SourceStatus",
                    "SourceGeneration", "BackfillProgress"}
  /\ Leaf \notin ObjectTypes
BY DEF ObjectTypes, Schema, Leaf

\* Ranks are natural numbers.
LEMMA RankType == Rank \in [ObjectTypes -> Nat]
BY TypesAre DEF Rank

\* The ways the schema forms a field give a sensible one, of a type below its parent.
LEMMA FieldsAreSensible ==
  \A parent, type \in ObjectTypes :
    Rank[type] < Rank[parent] =>
      /\ Sensible(parent, Returns(type))
      /\ Sensible(parent, ListOf(type))
      /\ Sensible(parent, SizedListOf(type))
      /\ \A default, worst \in Nat : Sensible(parent, Sized(type, default, worst))
BY TypesAre DEF Sensible, Sized, SizedListOf, ListOf, Returns, Unsized

\* So is a scalar, wherever it is.
LEMMA ScalarIsSensible == \A parent : Sensible(parent, Scalar)
BY TypesAre DEF Sensible, Returns, Unsized, Scalar

\* Every field of the schema is sensible: no type leads back to itself (schema.py).
LEMMA SchemaIsSensible ==
  ASSUME NEW parent \in ObjectTypes, NEW name \in DOMAIN Schema[parent]
  PROVE  Sensible(parent, Schema[parent][name])
<1>a. /\ Rank["Query"] = 4
      /\ \A type \in {"CallPage", "MapCalls", "Summary"} : Rank[type] = 3
      /\ \A type \in {"Call", "SourceStatus", "TypeBreakdown"} : Rank[type] = 2
      /\ \A type \in {"PageInfo", "TypeCount", "HourCount", "MnpdCallRecord", "FilterValues",
                      "SourceGeneration", "BackfillProgress"} : Rank[type] = 1
  BY TypesAre DEF Rank
<1>1. CASE parent = "Query"
  <2>1. /\ Sensible("Query", Sized("CallPage", PageDefault, MaxPage))
        /\ Sensible("Query", Returns("Call"))
        /\ Sensible("Query", Sized("MapCalls", MapDefault, MaxMap))
        /\ Sensible("Query", Returns("Summary"))
        /\ Sensible("Query", Returns("FilterValues"))
        /\ Sensible("Query", ListOf("SourceStatus"))
    BY <1>a, TypesAre, LimitsAssumption, FieldsAreSensible
  <2> QED BY <1>1, <2>1, ScalarIsSensible DEF Schema
<1>2. CASE parent = "CallPage"
  <2>1. /\ Sensible("CallPage", SizedListOf("Call"))
        /\ Sensible("CallPage", Returns("PageInfo"))
    BY <1>a, TypesAre, LimitsAssumption, FieldsAreSensible
  <2> QED BY <1>2, <2>1, ScalarIsSensible DEF Schema
<1>3. CASE parent = "MapCalls"
  <2>1. /\ Sensible("MapCalls", SizedListOf("Call"))
    BY <1>a, TypesAre, LimitsAssumption, FieldsAreSensible
  <2> QED BY <1>3, <2>1, ScalarIsSensible DEF Schema
<1>4. CASE parent = "Call"
  <2>1. /\ Sensible("Call", Returns("MnpdCallRecord"))
    BY <1>a, TypesAre, LimitsAssumption, FieldsAreSensible
  <2> QED BY <1>4, <2>1, ScalarIsSensible DEF Schema
<1>5. CASE parent = "Summary"
  <2>1. /\ Sensible("Summary", Sized("TypeBreakdown", TypesDefault, MaxTypes))
        /\ Sensible("Summary", ListOf("HourCount"))
    BY <1>a, TypesAre, LimitsAssumption, FieldsAreSensible
  <2> QED BY <1>5, <2>1, ScalarIsSensible DEF Schema
<1>6. CASE parent = "TypeBreakdown"
  <2>1. /\ Sensible("TypeBreakdown", SizedListOf("TypeCount"))
    BY <1>a, TypesAre, LimitsAssumption, FieldsAreSensible
  <2> QED BY <1>6, <2>1, ScalarIsSensible DEF Schema
<1>7. CASE parent = "SourceStatus"
  <2>1. /\ Sensible("SourceStatus", Returns("SourceGeneration"))
        /\ Sensible("SourceStatus", Returns("BackfillProgress"))
    BY <1>a, TypesAre, LimitsAssumption, FieldsAreSensible
  <2> QED BY <1>7, <2>1, ScalarIsSensible DEF Schema
<1>8. CASE parent \in {"PageInfo", "TypeCount", "HourCount", "MnpdCallRecord", "FilterValues",
                        "SourceGeneration", "BackfillProgress"}
  BY <1>8, ScalarIsSensible DEF Schema
<1> QED BY TypesAre, <1>1, <1>2, <1>3, <1>4, <1>5, <1>6, <1>7, <1>8

\* The fields of introspection are on no type of the schema.
LEMMA MetaIsNotOfSchema ==
  ASSUME NEW type \in ObjectTypes, NEW name, IsMeta(name)
  PROVE  ~IsField(type, name)
BY TypesAre DEF IsField, IsMeta, Schema

-----------------------------------------------------------------------------
(* What is ahead of a visit.                                               *)

\* A document has a number of selections.
LEMMA DocumentLength ==
  ASSUME NEW doc, IsDocument(doc)
  PROVE  Len(doc.nodes) \in Nat
BY DEF IsDocument

\* A selection leads to later ones only.
LEMMA NodesAre ==
  ASSUME NEW doc, IsDocument(doc), NEW i \in 1 .. Len(doc.nodes)
  PROVE  /\ doc.nodes[i].kind \in {"field", "inline", "spread"}
         /\ doc.nodes[i].kind = "field" => IsArgument(doc.nodes[i].arg)
         /\ doc.nodes[i].sub = 0 \/ doc.nodes[i].sub \in i + 1 .. Len(doc.nodes)
         /\ doc.nodes[i].next = 0 \/ doc.nodes[i].next \in i + 1 .. Len(doc.nodes)
BY DEF IsDocument

\* The fragments left to spread on the way, and then the selections left to come to.
Ahead(doc) ==
  [v \in Visits(doc) |->
     Cardinality(DOMAIN doc.fragments \ v.spread) * (Len(doc.nodes) + 1)
       + (IF v.at = 0 THEN 0 ELSE Len(doc.nodes) + 1 - v.at)]

\* What a visit knows, and how many fragments are left to it.
LEMMA VisitIs ==
  ASSUME NEW doc, IsDocument(doc), NEW v \in Visits(doc)
  PROVE  /\ v.at \in 0 .. Len(doc.nodes) /\ v.parent \in ObjectTypes /\ v.level \in Nat
         /\ v.spread \subseteq DOMAIN doc.fragments
         /\ Cardinality(DOMAIN doc.fragments \ v.spread) \in Nat
<1>1. IsFiniteSet(DOMAIN doc.fragments \ v.spread)
  BY FS_Difference DEF IsDocument
<1> QED BY <1>1, FS_CardinalityType DEF Visits, Ids

\* A fragment spread leaves one fewer.
LEMMA FewerLeft ==
  ASSUME NEW doc, IsDocument(doc), NEW spread \in SUBSET DOMAIN doc.fragments,
         NEW f \in DOMAIN doc.fragments \ spread
  PROVE  Cardinality(DOMAIN doc.fragments \ (spread \cup {f})) < Cardinality(DOMAIN doc.fragments \ spread)
<1> DEFINE left == DOMAIN doc.fragments \ spread
<1>1. IsFiniteSet(left)
  BY FS_Difference DEF IsDocument
<1>2. DOMAIN doc.fragments \ (spread \cup {f}) = left \ {f} /\ f \in left
  OBVIOUS
<1>3. Cardinality(left \ {f}) = Cardinality(left) - 1
  BY <1>1, <1>2, FS_RemoveElement
<1>4. Cardinality(left) \in Nat
  BY <1>1, FS_CardinalityType
<1> HIDE DEF left
<1> QED BY <1>2, <1>3, <1>4

\* Fewer fragments outweigh whatever selections there are.
LEMMA FewerFirst ==
  ASSUME NEW c \in Nat, NEW d \in Nat, NEW n \in Nat, d < c, NEW r \in 0 .. n, NEW s \in 0 .. n
  PROVE  d * (n + 1) + s < c * (n + 1) + r
<1>1. d + 1 <= c
  OBVIOUS
<1>2. PICK e \in Nat : c = d + 1 + e
  <2>1. c - (d + 1) \in Nat /\ c = d + 1 + (c - (d + 1))
    BY <1>1
  <2> QED BY <2>1
<1>3. c * (n + 1) = d * (n + 1) + (n + 1) + e * (n + 1)
  BY <1>2
<1>4. e * (n + 1) \in Nat /\ d * (n + 1) \in Nat
  OBVIOUS
<1> QED BY <1>3, <1>4

\* What is ahead of a visit is a natural number.
LEMMA AheadType ==
  ASSUME NEW doc, IsDocument(doc)
  PROVE  Ahead(doc) \in [Visits(doc) -> Nat]
<1>1. ASSUME NEW v \in Visits(doc)
      PROVE  Cardinality(DOMAIN doc.fragments \ v.spread) * (Len(doc.nodes) + 1)
               + (IF v.at = 0 THEN 0 ELSE Len(doc.nodes) + 1 - v.at) \in Nat
  <2>1. \A c, n \in Nat : c * (n + 1) \in Nat
    OBVIOUS
  <2>2. Cardinality(DOMAIN doc.fragments \ v.spread) * (Len(doc.nodes) + 1) \in Nat
    BY <2>1, VisitIs, DocumentLength
  <2>3. v.at \in 0 .. Len(doc.nodes) /\ Len(doc.nodes) \in Nat
    BY VisitIs, DocumentLength
  <2>4. (IF v.at = 0 THEN 0 ELSE Len(doc.nodes) + 1 - v.at) \in Nat
    BY <2>3
  <2> QED BY <2>2, <2>4
<1> QED BY <1>1 DEF Ahead

\* Less is ahead of a visit with no fewer fragments spread and either more of them or a
\* later selection.
LEMMA LessAhead ==
  ASSUME NEW doc, IsDocument(doc), NEW v \in Visits(doc), NEW w \in Visits(doc),
         \/ w.spread = v.spread /\ v.at # 0 /\ (w.at = 0 \/ w.at > v.at)
         \/ \E f \in DOMAIN doc.fragments \ v.spread : w.spread = v.spread \cup {f}
  PROVE  Ahead(doc)[w] < Ahead(doc)[v]
<1> DEFINE n == Len(doc.nodes)
           c(x) == Cardinality(DOMAIN doc.fragments \ x.spread)
           r(x) == IF x.at = 0 THEN 0 ELSE n + 1 - x.at
<1>1. Ahead(doc)[v] = c(v) * (n + 1) + r(v) /\ Ahead(doc)[w] = c(w) * (n + 1) + r(w)
  BY DEF Ahead
<1>2. n \in Nat /\ r(v) \in 0 .. n /\ r(w) \in 0 .. n /\ c(v) \in Nat /\ c(w) \in Nat
  <2>1. n \in Nat /\ v.at \in 0 .. n /\ w.at \in 0 .. n
    BY VisitIs, DocumentLength
  <2>2. c(v) \in Nat /\ c(w) \in Nat
    BY VisitIs
  <2> HIDE DEF n, c
  <2> QED BY <2>1, <2>2
<1>3. CASE w.spread = v.spread /\ v.at # 0 /\ (w.at = 0 \/ w.at > v.at)
  <2>1. c(w) = c(v)
    BY <1>3
  <2>2. r(w) < r(v)
    <3>1. v.at \in 0 .. n /\ w.at \in 0 .. n /\ n \in Nat
      BY VisitIs, DocumentLength
    <3> HIDE DEF n
    <3> QED BY <1>3, <3>1
  <2>3. c(v) * (n + 1) \in Nat
    BY <1>2
  <2> HIDE DEF n, c, r
  <2> QED BY <1>1, <1>2, <2>1, <2>2, <2>3
<1>4. CASE \E f \in DOMAIN doc.fragments \ v.spread : w.spread = v.spread \cup {f}
  <2>1. c(w) < c(v)
    BY <1>4, VisitIs, FewerLeft
  <2> HIDE DEF n, c, r
  <2> QED BY <1>1, <1>2, <2>1, FewerFirst
<1> QED BY <1>3, <1>4

\* The next selection of a set has less ahead of it.
LEMMA AfterIsAhead ==
  ASSUME NEW doc, IsDocument(doc), NEW v \in Visits(doc), v.at # 0
  PROVE  After(doc, v) \in Visits(doc) /\ Ahead(doc)[After(doc, v)] < Ahead(doc)[v]
<1> DEFINE node == NodeAt(doc, v)
           more == IF node.kind = "spread" THEN {node.fragment} \cap DOMAIN doc.fragments ELSE {}
           w == After(doc, v)
<1>a. v.at \in 0 .. Len(doc.nodes) /\ Len(doc.nodes) \in Nat
  BY VisitIs, DocumentLength
<1>0. v.at \in 1 .. Len(doc.nodes)
  BY <1>a
<1>1. /\ node.next = 0 \/ node.next \in v.at + 1 .. Len(doc.nodes)
      /\ v.at \in 1 .. Len(doc.nodes)
  BY <1>0, NodesAre DEF NodeAt
<1>2. w = [at |-> node.next, parent |-> v.parent, level |-> v.level, spread |-> v.spread \cup more]
  BY DEF After
<1>3. w \in Visits(doc)
  BY <1>1, <1>2, VisitIs, DocumentLength DEF Visits, Ids
<1>4. w.at = node.next /\ w.spread = v.spread \cup more
  BY <1>2
<1>5. \/ w.spread = v.spread
      \/ \E f \in DOMAIN doc.fragments \ v.spread : w.spread = v.spread \cup {f}
  BY <1>4
<1>6. node.next = 0 \/ node.next > v.at
  BY <1>1
<1> HIDE DEF w, node, more
<1>7. Ahead(doc)[w] < Ahead(doc)[v]
  BY <1>3, <1>4, <1>5, <1>6, LessAhead
<1> QED BY <1>3, <1>7 DEF w

\* So has the set within a selection, as a fragment is walked once on the way.
LEMMA InsideIsAhead ==
  ASSUME NEW doc, IsDocument(doc), NEW v \in Visits(doc), v.at # 0, Opens(doc, v)
  PROVE  Inside(doc, v) \in Visits(doc) /\ Ahead(doc)[Inside(doc, v)] < Ahead(doc)[v]
<1> DEFINE node == NodeAt(doc, v)
           w == Inside(doc, v)
<1>a. v.at \in 0 .. Len(doc.nodes) /\ Len(doc.nodes) \in Nat
  BY VisitIs, DocumentLength
<1>0. v.at \in 1 .. Len(doc.nodes)
  BY <1>a
<1>1. /\ node.sub = 0 \/ node.sub \in v.at + 1 .. Len(doc.nodes)
      /\ v.at \in 1 .. Len(doc.nodes)
      /\ v.level \in Nat
  BY <1>0, NodesAre, VisitIs DEF NodeAt
<1>2. Target(doc, v) \in ObjectTypes /\ v.spread \in SUBSET DOMAIN doc.fragments
  BY VisitIs DEF Opens
<1>3. CASE node.kind = "spread"
  <2>1. node.fragment \in DOMAIN doc.fragments \ v.spread
    BY <1>3 DEF Opens
  <2>2. w = [at |-> doc.fragments[node.fragment].start, parent |-> Target(doc, v),
             level |-> v.level, spread |-> v.spread \cup {node.fragment}]
    BY <1>3 DEF Inside
  <2>3. doc.fragments[node.fragment].start \in Ids(doc)
    BY <2>1 DEF IsDocument
  <2>4. w \in Visits(doc) /\ w.spread = v.spread \cup {node.fragment}
    BY <1>1, <1>2, <2>1, <2>2, <2>3 DEF Visits
  <2> HIDE DEF w
  <2>5. Ahead(doc)[w] < Ahead(doc)[v]
    BY <2>1, <2>4, LessAhead
  <2> QED BY <2>4, <2>5 DEF w
<1>4. CASE node.kind # "spread"
  <2>1. w = [at |-> node.sub, parent |-> Target(doc, v),
             level |-> IF node.kind = "field" THEN v.level + 1 ELSE v.level, spread |-> v.spread]
    BY <1>4 DEF Inside
  <2>2. node.sub \in Ids(doc) /\ (IF node.kind = "field" THEN v.level + 1 ELSE v.level) \in Nat
    BY <1>1, DocumentLength DEF Ids
  <2>3. w \in Visits(doc)
    BY <1>2, <2>1, <2>2 DEF Visits
  <2>4. w.spread = v.spread /\ (w.at = 0 \/ w.at > v.at)
    BY <1>1, <2>1
  <2> HIDE DEF w
  <2>5. Ahead(doc)[w] < Ahead(doc)[v]
    BY <2>3, <2>4, LessAhead
  <2> QED BY <2>3, <2>5 DEF w
<1> QED BY <1>3, <1>4

-----------------------------------------------------------------------------
(* The walk, what it meets, and what is reached, unfolded.                 *)

\* The walk multiplies by a natural number, whatever the argument (_Walk).
LEMMA MultiplierType ==
  ASSUME NEW parent, NEW field, Sensible(parent, field), NEW arg, IsArgument(arg)
  PROVE  Multiplier(field, arg) \in Nat
BY LimitsAssumption DEF Multiplier, Sensible, Size, AtLeastZero, IsArgument

\* What the walk makes of selections.
Costs == [cost : Nat, deepest : Nat]

\* What it makes of one selection, given that of the set within.
LEMMA SelectionType ==
  ASSUME NEW doc, IsDocument(doc), NEW v \in Visits(doc), v.at # 0,
         NEW walk, Opens(doc, v) => walk[Inside(doc, v)] \in Costs
  PROVE  SelectionWalk(walk, doc, v) \in Costs
<1> DEFINE node == NodeAt(doc, v)
           below == walk[Inside(doc, v)]
<1>1. Nil \in Costs
  BY DEF Nil, Costs
<1>2. v.level \in Nat
  BY VisitIs
<1>3. CASE node.kind = "field" /\ Opens(doc, v)
  <2>1. IsField(v.parent, node.name) /\ v.parent \in ObjectTypes
    BY <1>3, VisitIs DEF Opens
  <2>2. NodeAt(doc, v) = doc.nodes[v.at] /\ v.at \in 1 .. Len(doc.nodes)
    <3>1. v.at \in 0 .. Len(doc.nodes)
      BY VisitIs
    <3> QED BY <3>1, DocumentLength DEF NodeAt
  <2>3. Multiplier(Schema[v.parent][node.name], node.arg) \in Nat
    <3>1. Sensible(v.parent, Schema[v.parent][node.name])
      BY <2>1, SchemaIsSensible DEF IsField
    <3>2. IsArgument(node.arg)
      BY <1>3, <2>2, NodesAre
    <3> QED BY <3>1, <3>2, MultiplierType
  <2>4. below.cost \in Nat /\ below.deepest \in Nat
    BY <1>3 DEF Costs
  <2>5. \A a, b \in Nat : 1 + a * b \in Nat
    OBVIOUS
  <2> HIDE DEF node, below
  <2>6. 1 + Multiplier(Schema[v.parent][node.name], node.arg) * below.cost \in Nat
    BY <2>3, <2>4, <2>5
  <2>7. Deeper(v.level, below.deepest) \in Nat
    BY <1>2, <2>4 DEF Deeper
  <2> QED BY <1>1, <1>3, <2>1, <2>6, <2>7 DEF SelectionWalk, FieldWalk, Costs, node, below
<1>4. CASE node.kind = "field" /\ ~Opens(doc, v)
  BY <1>1, <1>2, <1>4 DEF SelectionWalk, FieldWalk, Costs
<1>5. CASE node.kind # "field"
  BY <1>1, <1>5 DEF SelectionWalk
<1> QED BY <1>3, <1>4, <1>5

\* The walk, one selection after the other.
LEMMA WalkUnfolds ==
  ASSUME NEW doc, IsDocument(doc)
  PROVE  \A v \in Visits(doc) :
           /\ Walk(doc)[v] = WalkFrom(Walk(doc), doc, v)
           /\ Walk(doc)[v] \in Costs
           /\ Walk(doc)[v].cost \in Nat /\ Walk(doc)[v].deepest \in Nat
<1> DEFINE A == Costs
           body == [v \in Visits(doc) |-> [f \in [Visits(doc) -> A] |-> WalkFrom(f, doc, v)]]
<1>1. ASSUME NEW f, NEW v \in Visits(doc),
             v.at # 0 => f[After(doc, v)] \in A,
             v.at # 0 /\ Opens(doc, v) => f[Inside(doc, v)] \in A
      PROVE  WalkFrom(f, doc, v) \in A
  <2>1. CASE v.at = 0
    BY <2>1 DEF WalkFrom, Nil, Costs
  <2>2. CASE v.at # 0
    <3>1. SelectionWalk(f, doc, v) \in A
      BY <1>1, <2>2, SelectionType
    <3>2. f[After(doc, v)] \in A
      BY <1>1, <2>2
    <3>3. \A x, y \in A : [cost |-> x.cost + y.cost, deepest |-> Deeper(x.deepest, y.deepest)] \in A
      BY DEF Deeper, Costs
    <3> QED BY <2>2, <3>1, <3>2, <3>3 DEF WalkFrom
  <2> QED BY <2>1, <2>2
<1>2. body \in [Visits(doc) -> [[Visits(doc) -> A] -> A]]
  <2>1. ASSUME NEW v \in Visits(doc), NEW f \in [Visits(doc) -> A]
        PROVE  WalkFrom(f, doc, v) \in A
    <3>1. v.at # 0 => f[After(doc, v)] \in A
      BY AfterIsAhead
    <3>2. v.at # 0 /\ Opens(doc, v) => f[Inside(doc, v)] \in A
      BY InsideIsAhead
    <3> HIDE DEF A
    <3> QED BY <1>1, <3>1, <3>2
  <2> QED BY <2>1
<1>3. ASSUME NEW v \in Visits(doc), NEW f, NEW g,
             \A w \in Visits(doc) : Ahead(doc)[w] < Ahead(doc)[v] => f[w] = g[w]
      PROVE  WalkFrom(f, doc, v) = WalkFrom(g, doc, v)
  <2>1. v.at # 0 => f[After(doc, v)] = g[After(doc, v)]
    BY <1>3, AfterIsAhead
  <2>2. v.at # 0 /\ Opens(doc, v) => f[Inside(doc, v)] = g[Inside(doc, v)]
    BY <1>3, InsideIsAhead
  <2> QED BY <2>1, <2>2 DEF WalkFrom, SelectionWalk, FieldWalk
<1>4. LooksBelow(Visits(doc), A, Ahead(doc), body)
  <2>1. \A v \in Visits(doc) : \A f, g \in [Visits(doc) -> A] :
          (\A w \in Visits(doc) : Ahead(doc)[w] < Ahead(doc)[v] => f[w] = g[w])
            => body[v][f] = body[v][g]
    <3> HIDE DEF A
    <3> QED BY <1>3
  <2> HIDE DEF A, body
  <2> QED BY <1>2, <2>1, AheadType DEF LooksBelow
<1>5. PICK f \in [Visits(doc) -> A] : \A v \in Visits(doc) : f[v] = WalkFrom(f, doc, v)
  <2>1. A # {}
    <3>1. Nil \in A
      BY DEF Nil, Costs
    <3> QED BY <3>1
  <2> HIDE DEF A
  <2>2. PICK f \in [Visits(doc) -> A] : Solves(Visits(doc), f, body)
    <3> HIDE DEF body
    <3> QED BY <1>4, <2>1, RecursiveFunctionExists
  <2> QED BY <2>2 DEF Solves
<1>6. f = [v \in Visits(doc) |-> WalkFrom(f, doc, v)]
  BY <1>5
<1>7. Walk(doc) = [v \in Visits(doc) |-> WalkFrom(Walk(doc), doc, v)]
  BY <1>6 DEF Walk
<1>8. \A v \in Visits(doc) : Walk(doc)[v] = WalkFrom(Walk(doc), doc, v)
  BY <1>7
<1> DEFINE Typed == {v \in Visits(doc) : Walk(doc)[v] \in A}
<1>9. ASSUME NEW v \in Visits(doc),
             \A w \in Visits(doc) : Ahead(doc)[w] < Ahead(doc)[v] => w \in Typed
      PROVE  v \in Typed
  <2>1. v.at # 0 => Walk(doc)[After(doc, v)] \in A
    BY <1>9, AfterIsAhead
  <2>2. v.at # 0 /\ Opens(doc, v) => Walk(doc)[Inside(doc, v)] \in A
    BY <1>9, InsideIsAhead
  <2> HIDE DEF A
  <2> QED BY <1>1, <1>8, <2>1, <2>2
<1>10. Visits(doc) \subseteq Typed
  <2> HIDE DEF Typed
  <2> QED BY <1>9, AheadType, MeasureInduction
<1> QED BY <1>8, <1>10 DEF Costs

\* What is met, likewise.
LEMMA MetUnfolds ==
  ASSUME NEW doc, IsDocument(doc)
  PROVE  \A v \in Visits(doc) : /\ Met(doc)[v] = MeetFrom(Met(doc), doc, v)
                                /\ Met(doc)[v] \subseteq 1 .. Len(doc.nodes)
<1> DEFINE A == SUBSET (1 .. Len(doc.nodes))
           body == [v \in Visits(doc) |-> [f \in [Visits(doc) -> A] |-> MeetFrom(f, doc, v)]]
<1>1. ASSUME NEW f, NEW v \in Visits(doc),
             v.at # 0 => f[After(doc, v)] \in A,
             v.at # 0 /\ Opens(doc, v) => f[Inside(doc, v)] \in A
      PROVE  MeetFrom(f, doc, v) \in A
  <2>1. v.at \in 0 .. Len(doc.nodes) /\ Len(doc.nodes) \in Nat
    BY VisitIs, DocumentLength
  <2>2. v.at # 0 => v.at \in 1 .. Len(doc.nodes)
    BY <2>1
  <2> QED BY <1>1, <2>2 DEF MeetFrom
<1>2. body \in [Visits(doc) -> [[Visits(doc) -> A] -> A]]
  <2>1. ASSUME NEW v \in Visits(doc), NEW f \in [Visits(doc) -> A]
        PROVE  MeetFrom(f, doc, v) \in A
    <3>1. v.at # 0 => f[After(doc, v)] \in A
      BY AfterIsAhead
    <3>2. v.at # 0 /\ Opens(doc, v) => f[Inside(doc, v)] \in A
      BY InsideIsAhead
    <3> HIDE DEF A
    <3> QED BY <1>1, <3>1, <3>2
  <2> QED BY <2>1
<1>3. ASSUME NEW v \in Visits(doc), NEW f, NEW g,
             \A w \in Visits(doc) : Ahead(doc)[w] < Ahead(doc)[v] => f[w] = g[w]
      PROVE  MeetFrom(f, doc, v) = MeetFrom(g, doc, v)
  <2>1. v.at # 0 => f[After(doc, v)] = g[After(doc, v)]
    BY <1>3, AfterIsAhead
  <2>2. v.at # 0 /\ Opens(doc, v) => f[Inside(doc, v)] = g[Inside(doc, v)]
    BY <1>3, InsideIsAhead
  <2> QED BY <2>1, <2>2 DEF MeetFrom
<1>4. LooksBelow(Visits(doc), A, Ahead(doc), body)
  <2>1. \A v \in Visits(doc) : \A f, g \in [Visits(doc) -> A] :
          (\A w \in Visits(doc) : Ahead(doc)[w] < Ahead(doc)[v] => f[w] = g[w])
            => body[v][f] = body[v][g]
    <3> HIDE DEF A
    <3> QED BY <1>3
  <2> HIDE DEF A, body
  <2> QED BY <1>2, <2>1, AheadType DEF LooksBelow
<1>5. PICK f \in [Visits(doc) -> A] : \A v \in Visits(doc) : f[v] = MeetFrom(f, doc, v)
  <2>1. A # {}
    OBVIOUS
  <2> HIDE DEF A
  <2>2. PICK f \in [Visits(doc) -> A] : Solves(Visits(doc), f, body)
    <3> HIDE DEF body
    <3> QED BY <1>4, <2>1, RecursiveFunctionExists
  <2> QED BY <2>2 DEF Solves
<1>6. f = [v \in Visits(doc) |-> MeetFrom(f, doc, v)]
  BY <1>5
<1>7. Met(doc) = [v \in Visits(doc) |-> MeetFrom(Met(doc), doc, v)]
  BY <1>6 DEF Met
<1>8. \A v \in Visits(doc) : Met(doc)[v] = MeetFrom(Met(doc), doc, v)
  BY <1>7
<1> DEFINE Typed == {v \in Visits(doc) : Met(doc)[v] \in A}
<1>9. ASSUME NEW v \in Visits(doc),
             \A w \in Visits(doc) : Ahead(doc)[w] < Ahead(doc)[v] => w \in Typed
      PROVE  v \in Typed
  <2>1. v.at # 0 => Met(doc)[After(doc, v)] \in A
    BY <1>9, AfterIsAhead
  <2>2. v.at # 0 /\ Opens(doc, v) => Met(doc)[Inside(doc, v)] \in A
    BY <1>9, InsideIsAhead
  <2> HIDE DEF A
  <2> QED BY <1>1, <1>8, <2>1, <2>2
<1>10. Visits(doc) \subseteq Typed
  <2> HIDE DEF Typed
  <2> QED BY <1>9, AheadType, MeasureInduction
<1> QED BY <1>8, <1>10

-----------------------------------------------------------------------------
(* Objects.                                                                *)

\* The fields of an object are selections of the document.
LEMMA FieldsAre ==
  ASSUME NEW doc, IsDocument(doc), NEW o \in Objects(doc)
  PROVE  Fields(doc, o) \subseteq 1 .. Len(doc.nodes)
<1>1. ASSUME NEW s \in o.starts PROVE Visit(s, o.type, 0) \in Visits(doc)
  BY DEF Visit, Visits, Objects
<1> QED BY <1>1, MetUnfolds DEF Fields, MetFor

\* Below a field are objects of a lower rank.
LEMMA ChildIs ==
  ASSUME NEW doc, IsDocument(doc), NEW o \in Objects(doc),
         NEW i \in Fields(doc, o), Composite(doc, o, i)
  PROVE  /\ Child(doc, o, i) \in Objects(doc)
         /\ Rank[Child(doc, o, i).type] < Rank[o.type]
<1> DEFINE field == Schema[o.type][doc.nodes[i].name]
<1>1. o.type \in ObjectTypes /\ doc.nodes[i].name \in DOMAIN Schema[o.type] /\ field.type # Leaf
  BY DEF Objects, Composite, IsField
<1>2. field.type \in ObjectTypes /\ Rank[field.type] < Rank[o.type]
  BY <1>1, SchemaIsSensible DEF Sensible
<1>3. ASSUME NEW j \in SameKey(doc, o, i) PROVE doc.nodes[j].sub \in Ids(doc)
  <2>1. j \in 1 .. Len(doc.nodes)
    BY FieldsAre DEF SameKey
  <2> QED BY <2>1, NodesAre, DocumentLength DEF Ids
<1> HIDE DEF field
<1> QED BY <1>2, <1>3 DEF Child, Objects, field

\* An object is above those of its fields, so one comes to the end of them.
LEMMA ReachedUnfolds ==
  ASSUME NEW doc, IsDocument(doc)
  PROVE  \E reached :
           /\ Reached(doc) = reached[Root(doc)]
           /\ \A o \in Objects(doc) : reached[o] = ReachFrom(reached, doc, o)
<1> DEFINE A == SUBSET Objects(doc)
           m == [o \in Objects(doc) |-> Rank[o.type]]
           body == [o \in Objects(doc) |-> [f \in [Objects(doc) -> A] |-> ReachFrom(f, doc, o)]]
<1>1. body \in [Objects(doc) -> [[Objects(doc) -> A] -> A]]
  <2>1. ASSUME NEW o \in Objects(doc), NEW f \in [Objects(doc) -> A]
        PROVE  ReachFrom(f, doc, o) \in A
    BY ChildIs DEF ReachFrom
  <2> QED BY <2>1
<1>2. ASSUME NEW o \in Objects(doc), NEW f, NEW g,
             \A p \in Objects(doc) : m[p] < m[o] => f[p] = g[p]
      PROVE  ReachFrom(f, doc, o) = ReachFrom(g, doc, o)
  <2>1. \A i \in {j \in Fields(doc, o) : Composite(doc, o, j)} :
          f[Child(doc, o, i)] = g[Child(doc, o, i)]
    BY <1>2, ChildIs
  <2> QED BY <2>1 DEF ReachFrom
<1>3. LooksBelow(Objects(doc), A, m, body)
  <2>1. \A o \in Objects(doc) : \A f, g \in [Objects(doc) -> A] :
          (\A p \in Objects(doc) : m[p] < m[o] => f[p] = g[p]) => body[o][f] = body[o][g]
    <3> HIDE DEF A, m
    <3> QED BY <1>2
  <2>2. m \in [Objects(doc) -> Nat]
    BY RankType DEF Objects
  <2> HIDE DEF A, body, m
  <2> QED BY <1>1, <2>1, <2>2 DEF LooksBelow
<1>4. PICK f \in [Objects(doc) -> A] : \A o \in Objects(doc) : f[o] = ReachFrom(f, doc, o)
  <2>1. A # {}
    OBVIOUS
  <2> HIDE DEF A
  <2>2. PICK f \in [Objects(doc) -> A] : Solves(Objects(doc), f, body)
    <3> HIDE DEF body, m
    <3> QED BY <1>3, <2>1, RecursiveFunctionExists
  <2> QED BY <2>2 DEF Solves
<1>5. f = [o \in Objects(doc) |-> ReachFrom(f, doc, o)]
  BY <1>4
<1> DEFINE reached == CHOOSE r : r = [o \in Objects(doc) |-> ReachFrom(r, doc, o)]
<1>6. reached = [o \in Objects(doc) |-> ReachFrom(reached, doc, o)]
  BY <1>5
<1>7. Reached(doc) = reached[Root(doc)]
  BY DEF Reached
<1> HIDE DEF reached
<1>8. \A o \in Objects(doc) : reached[o] = ReachFrom(reached, doc, o)
  BY <1>6
<1> QED BY <1>7, <1>8

\* What is below an object that is reached is reached.
LEMMA ReachedIsClosed ==
  ASSUME NEW doc, IsDocument(doc)
  PROVE  /\ Root(doc) \in Reached(doc)
         /\ Reached(doc) \subseteq Objects(doc)
         /\ \A o \in Reached(doc) : \A i \in Fields(doc, o) :
              Composite(doc, o, i) => Child(doc, o, i) \in Reached(doc)
<1>1. PICK reached :
        /\ Reached(doc) = reached[Root(doc)]
        /\ \A o \in Objects(doc) : reached[o] = ReachFrom(reached, doc, o)
  BY ReachedUnfolds
<1> DEFINE Closed(o) ==
             /\ o \in reached[o]
             /\ reached[o] \subseteq Objects(doc)
             /\ \A p \in reached[o] : \A i \in Fields(doc, p) :
                  Composite(doc, p, i) => Child(doc, p, i) \in reached[o]
           m == [o \in Objects(doc) |-> Rank[o.type]]
           T == {o \in Objects(doc) : Closed(o)}
<1>2. ASSUME NEW o \in Objects(doc), \A p \in Objects(doc) : m[p] < m[o] => p \in T
      PROVE  o \in T
  <2> DEFINE below == {i \in Fields(doc, o) : Composite(doc, o, i)}
  <2>1. reached[o] = {o} \cup UNION {reached[Child(doc, o, i)] : i \in below}
    BY <1>1 DEF ReachFrom
  <2>2. \A i \in below : Child(doc, o, i) \in Objects(doc) /\ Closed(Child(doc, o, i))
    BY <1>2, ChildIs
  <2>3. reached[o] \subseteq Objects(doc)
    BY <2>1, <2>2
  <2>4. ASSUME NEW p \in reached[o], NEW i \in Fields(doc, p), Composite(doc, p, i)
        PROVE  Child(doc, p, i) \in reached[o]
    <3>1. CASE p = o
      <4>1. Child(doc, o, i) \in reached[Child(doc, o, i)]
        BY <2>2, <2>4, <3>1
      <4> QED BY <2>1, <2>4, <3>1, <4>1
    <3>2. CASE p # o
      <4>1. PICK j \in below : p \in reached[Child(doc, o, j)]
        BY <2>1, <3>2
      <4>2. Child(doc, p, i) \in reached[Child(doc, o, j)]
        BY <2>2, <2>4, <4>1
      <4> QED BY <2>1, <4>2
    <3> QED BY <3>1, <3>2
  <2> QED BY <2>1, <2>3, <2>4
<1>3. Objects(doc) \subseteq T
  <2>1. m \in [Objects(doc) -> Nat]
    BY RankType DEF Objects
  <2> HIDE DEF T, m
  <2> QED BY <1>2, <2>1, MeasureInduction
<1>4. Root(doc) \in Objects(doc)
  BY TypesAre DEF Root, Objects, IsDocument
<1> QED BY <1>1, <1>3, <1>4

-----------------------------------------------------------------------------
(* The answer, unfolded.                                                   *)

\* The response keys of an object divide its fields.
LEMMA KeysAre ==
  ASSUME NEW doc, IsDocument(doc), NEW o \in Objects(doc)
  PROVE  /\ Keys(doc, o) \subseteq Fields(doc, o)
         /\ Apart(Keys(doc, o), [i \in Keys(doc, o) |-> SameKey(doc, o, i)])
         /\ \A i \in Keys(doc, o) : i \in SameKey(doc, o, i) /\ SameKey(doc, o, i) \subseteq Fields(doc, o)
<1>1. \A i \in Keys(doc, o) : i \in SameKey(doc, o, i) /\ SameKey(doc, o, i) \subseteq Fields(doc, o)
  BY DEF Keys, SameKey
<1>2. ASSUME NEW h \in Keys(doc, o), NEW i \in Keys(doc, o), NEW j \in SameKey(doc, o, h), j \in SameKey(doc, o, i)
      PROVE  h = i
  <2>1. h \in SameKey(doc, o, i) /\ i \in SameKey(doc, o, h)
    BY <1>2 DEF SameKey, Keys
  <2>2. h <= i /\ i <= h
    BY <2>1 DEF Keys
  <2>3. h \in 1 .. Len(doc.nodes) /\ i \in 1 .. Len(doc.nodes)
    BY FieldsAre DEF Keys
  <2> QED BY <2>2, <2>3, DocumentLength
<1>3. Apart(Keys(doc, o), [i \in Keys(doc, o) |-> SameKey(doc, o, i)])
  BY <1>2 DEF Apart
<1> QED BY <1>1, <1>3 DEF Keys

\* A field of an object is sensible, and its size an integer.
LEMMA CoercedType ==
  ASSUME NEW doc, IsDocument(doc), NEW o \in Objects(doc),
         NEW i \in Fields(doc, o), IsField(o.type, doc.nodes[i].name)
  PROVE  /\ Sensible(o.type, Schema[o.type][doc.nodes[i].name])
         /\ IsArgument(doc.nodes[i].arg)
         /\ Coerced(Schema[o.type][doc.nodes[i].name], doc.nodes[i].arg) \in Int
<1>1. Sensible(o.type, Schema[o.type][doc.nodes[i].name])
  BY SchemaIsSensible DEF Objects, IsField
<1>2. i \in 1 .. Len(doc.nodes) /\ doc.nodes[i].kind = "field"
  BY FieldsAre DEF Fields
<1>3. IsArgument(doc.nodes[i].arg)
  BY <1>2, NodesAre
<1> DEFINE field == Schema[o.type][doc.nodes[i].name]
           arg == doc.nodes[i].arg
<1>4. Coerced(field, arg) \in Int
  <2>1. Sensible(o.type, field) /\ IsArgument(arg)
    BY <1>1, <1>3
  <2> HIDE DEF field, arg
  <2> QED BY <2>1 DEF Coerced, Sensible, IsArgument
<1> QED BY <1>1, <1>3, <1>4

\* What is answered below a field is of a lower rank.
LEMMA BelowIs ==
  ASSUME NEW doc, IsDocument(doc), NEW a \in Answers(doc),
         NEW i \in Fields(doc, a.object), Composite(doc, a.object, i)
  PROVE  /\ Below(doc, a, i) \in Answers(doc)
         /\ Rank[Below(doc, a, i).object.type] < Rank[a.object.type]
<1>1. a.object \in Objects(doc) /\ a.level \in Nat
  BY DEF Answers
<1>2. Child(doc, a.object, i) \in Objects(doc) /\ Rank[Child(doc, a.object, i).type] < Rank[a.object.type]
  BY <1>1, ChildIs
<1>3. Coerced(Schema[a.object.type][doc.nodes[i].name], doc.nodes[i].arg) \in Int
  BY <1>1, CoercedType DEF Composite
<1>4. a.level + 1 \in Nat
  BY <1>1
<1> QED BY <1>2, <1>3, <1>4 DEF Below, Answers

\* The answer, likewise.
LEMMA AnswerUnfolds ==
  ASSUME NEW doc, IsDocument(doc)
  PROVE  \E answer :
           /\ AnswerTo(doc) = answer[[object |-> Root(doc), level |-> 0, size |-> 1]]
           /\ \A a \in Answers(doc) : /\ answer[a] = AnswerObject(answer, doc, a)
                                      /\ answer[a].fields \in Int
                                      /\ answer[a].levels \subseteq Nat
<1> DEFINE A == [fields : Int, levels : SUBSET Nat]
           m == [a \in Answers(doc) |-> Rank[a.object.type]]
           body == [a \in Answers(doc) |-> [f \in [Answers(doc) -> A] |-> AnswerObject(f, doc, a)]]
<1>1. ASSUME NEW f, NEW a \in Answers(doc),
             \A i \in Fields(doc, a.object) :
               Composite(doc, a.object, i) => f[Below(doc, a, i)] \in A
      PROVE  AnswerObject(f, doc, a) \in A
  <2> DEFINE o == a.object
             keys == Keys(doc, o)
             One == [i \in keys |-> AnswerField(f, doc, a, i)]
  <2>1. o \in Objects(doc) /\ a.level \in Nat /\ a.size \in Int
    BY DEF Answers
  <2>2. ASSUME NEW i \in keys PROVE AnswerField(f, doc, a, i) \in A
    <3>1. i \in Fields(doc, o)
      BY <2>1, KeysAre
    <3>2. CASE ~Composite(doc, o, i) \/ IsMeta(doc.nodes[i].name)
      BY <2>1, <3>2 DEF AnswerField
    <3>3. CASE Composite(doc, o, i) /\ ~IsMeta(doc.nodes[i].name)
      <4> DEFINE field == Schema[o.type][doc.nodes[i].name]
                 below == f[Below(doc, a, i)]
      <4>1. below.fields \in Int /\ below.levels \in SUBSET Nat
        BY <1>1, <3>1, <3>3
      <4>2. Length(field, a.size) \in Int
        BY <2>1, LimitsAssumption DEF Length
      <4>3. \A x, y \in Int : 1 + x * y \in Int
        OBVIOUS
      <4>4. {a.level} \cup below.levels \in SUBSET Nat
        BY <2>1, <4>1
      <4> HIDE DEF field, below
      <4>5. 1 + Length(field, a.size) * below.fields \in Int
        BY <4>1, <4>2, <4>3
      <4> QED BY <3>3, <4>4, <4>5 DEF AnswerField, field, below
    <3> QED BY <3>2, <3>3
  <2>3. \A i \in keys : One[i] \in A
    BY <2>2
  <2>4. UNION {One[i].levels : i \in keys} \in SUBSET Nat
    BY <2>3
  <2>5. \A i \in keys : [j \in keys |-> One[j].fields][i] \in Int
    BY <2>3
  <2>6. SumOver(keys, [i \in keys |-> One[i].fields], Len(doc.nodes)) \in Int
    <3> HIDE DEF One, keys
    <3> QED BY <2>5, SumStep, DocumentLength
  <2> QED BY <2>4, <2>6 DEF AnswerObject
<1>2. body \in [Answers(doc) -> [[Answers(doc) -> A] -> A]]
  <2>1. ASSUME NEW a \in Answers(doc), NEW f \in [Answers(doc) -> A]
        PROVE  AnswerObject(f, doc, a) \in A
    <3>1. \A i \in Fields(doc, a.object) : Composite(doc, a.object, i) => f[Below(doc, a, i)] \in A
      BY BelowIs
    <3> HIDE DEF A
    <3> QED BY <1>1, <3>1
  <2> QED BY <2>1
<1>3. ASSUME NEW a \in Answers(doc), NEW f, NEW g,
             \A b \in Answers(doc) : m[b] < m[a] => f[b] = g[b]
      PROVE  AnswerObject(f, doc, a) = AnswerObject(g, doc, a)
  <2>1. \A i \in Keys(doc, a.object) : AnswerField(f, doc, a, i) = AnswerField(g, doc, a, i)
    <3>1. ASSUME NEW i \in Keys(doc, a.object), Composite(doc, a.object, i)
          PROVE  f[Below(doc, a, i)] = g[Below(doc, a, i)]
      <4>1. a.object \in Objects(doc)
        BY DEF Answers
      <4>2. i \in Fields(doc, a.object)
        BY <4>1, KeysAre
      <4> QED BY <1>3, <3>1, <4>2, BelowIs
    <3> QED BY <3>1 DEF AnswerField
  <2>2. [i \in Keys(doc, a.object) |-> AnswerField(f, doc, a, i)]
          = [i \in Keys(doc, a.object) |-> AnswerField(g, doc, a, i)]
    BY <2>1
  <2> QED BY <2>2, Zenon DEF AnswerObject
<1>4. LooksBelow(Answers(doc), A, m, body)
  <2>1. \A a \in Answers(doc) : \A f, g \in [Answers(doc) -> A] :
          (\A b \in Answers(doc) : m[b] < m[a] => f[b] = g[b]) => body[a][f] = body[a][g]
    <3> HIDE DEF A, m
    <3> QED BY <1>3
  <2>2. m \in [Answers(doc) -> Nat]
    BY RankType DEF Answers, Objects
  <2> HIDE DEF A, body, m
  <2> QED BY <1>2, <2>1, <2>2 DEF LooksBelow
<1>5. PICK f \in [Answers(doc) -> A] : \A a \in Answers(doc) : f[a] = AnswerObject(f, doc, a)
  <2>1. A # {}
    <3>1. [fields |-> 0, levels |-> {}] \in A
      OBVIOUS
    <3> QED BY <3>1
  <2> HIDE DEF A
  <2>2. PICK f \in [Answers(doc) -> A] : Solves(Answers(doc), f, body)
    <3> HIDE DEF body, m
    <3> QED BY <1>4, <2>1, RecursiveFunctionExists
  <2> QED BY <2>2 DEF Solves
<1>6. f = [a \in Answers(doc) |-> AnswerObject(f, doc, a)]
  BY <1>5
<1> DEFINE answer == CHOOSE g : g = [a \in Answers(doc) |-> AnswerObject(g, doc, a)]
<1>7. answer = [a \in Answers(doc) |-> AnswerObject(answer, doc, a)]
  BY <1>6
<1>8. AnswerTo(doc) = answer[[object |-> Root(doc), level |-> 0, size |-> 1]]
  BY DEF AnswerTo
<1> HIDE DEF answer
<1>9. \A a \in Answers(doc) : answer[a] = AnswerObject(answer, doc, a)
  BY <1>7
<1> DEFINE Typed == {a \in Answers(doc) : answer[a] \in A}
<1>10. ASSUME NEW a \in Answers(doc), \A b \in Answers(doc) : m[b] < m[a] => b \in Typed
       PROVE  a \in Typed
  <2>1. \A i \in Fields(doc, a.object) :
          Composite(doc, a.object, i) => answer[Below(doc, a, i)] \in A
    BY <1>10, BelowIs
  <2> HIDE DEF A
  <2> QED BY <1>1, <1>9, <2>1
<1>11. Answers(doc) \subseteq Typed
  <2>1. m \in [Answers(doc) -> Nat]
    BY RankType DEF Answers, Objects
  <2> HIDE DEF Typed, m
  <2> QED BY <1>10, <2>1, MeasureInduction
<1> QED BY <1>8, <1>9, <1>11

-----------------------------------------------------------------------------
(* The walk misses nothing that is collected.                              *)

\* The fragments spread on the way to a set lie about it or are of its own type.
Clean(doc, v) ==
  \A f \in v.spread : /\ doc.fragments[f].type \in ObjectTypes
                      /\ Rank[v.parent] <= Rank[doc.fragments[f].type]

\* They all lie about it: the walk enters the set.
Fresh(doc, v) ==
  \A f \in v.spread : /\ doc.fragments[f].type \in ObjectTypes
                      /\ Rank[v.parent] < Rank[doc.fragments[f].type]

\* Two visits that differ at most in spreads about the set.
Together(doc, v, u) ==
  /\ v.at = u.at
  /\ v.parent = u.parent
  /\ \A f \in DOMAIN doc.fragments :
       doc.fragments[f].type = v.parent => (f \in v.spread <=> f \in u.spread)

\* PossibleFragmentSpreads, of one selection.
Placed(doc, type, i) ==
  /\ doc.nodes[i].kind = "inline" => doc.nodes[i].type \in {NoType, type}
  /\ doc.nodes[i].kind = "spread" => /\ doc.nodes[i].fragment \in DOMAIN doc.fragments
                                     /\ doc.fragments[doc.nodes[i].fragment].type = type

\* Ranks are compared as numbers.
LEMMA RankIsOrdered == \A type \in ObjectTypes : Rank[type] \in Nat /\ Rank[type] <= Rank[type]
BY RankType

\* The fields among some selections.
FieldsOf(doc, ids) == {i \in ids : doc.nodes[i].kind = "field"}

\* Two visits together stay so from one selection to the next.
LEMMA TogetherAfter ==
  ASSUME NEW doc, IsDocument(doc), NEW v \in Visits(doc), NEW u \in Visits(doc), v.at # 0,
         Together(doc, v, u), Clean(doc, v), Placed(doc, v.parent, v.at)
  PROVE  /\ Together(doc, After(doc, v), After(doc, u))
         /\ Clean(doc, After(doc, v))
         /\ After(doc, v).parent = v.parent /\ After(doc, v).level = v.level
<1> DEFINE node == NodeAt(doc, v)
           more == IF node.kind = "spread" THEN {node.fragment} \cap DOMAIN doc.fragments ELSE {}
<1>1. NodeAt(doc, u) = node /\ node = doc.nodes[v.at]
  BY DEF NodeAt, Together
<1>2. After(doc, v) = [at |-> node.next, parent |-> v.parent, level |-> v.level, spread |-> v.spread \cup more]
  BY DEF After
<1>3. After(doc, u) = [at |-> node.next, parent |-> u.parent, level |-> u.level, spread |-> u.spread \cup more]
  BY <1>1 DEF After
<1>4. \A f \in more : doc.fragments[f].type = v.parent
  BY <1>1 DEF Placed
<1>5. v.parent \in ObjectTypes /\ Rank[v.parent] <= Rank[v.parent]
  BY VisitIs, RankIsOrdered
<1> HIDE DEF node, more
<1> QED BY <1>2, <1>3, <1>4, <1>5 DEF Together, Clean

\* Nor do they part where a fragment is entered or passed over.
LEMMA TogetherInside ==
  ASSUME NEW doc, IsDocument(doc), NEW v \in Visits(doc), NEW u \in Visits(doc), v.at # 0,
         Together(doc, v, u), Clean(doc, v), Placed(doc, v.parent, v.at),
         doc.nodes[v.at].kind \in {"inline", "spread"}
  PROVE  /\ Opens(doc, v) <=> Opens(doc, u)
         /\ Together(doc, Inside(doc, v), Inside(doc, u))
         /\ Clean(doc, Inside(doc, v))
         /\ Inside(doc, v).parent = v.parent /\ Inside(doc, v).level = v.level
<1> DEFINE node == NodeAt(doc, v)
           start == IF node.kind = "spread" THEN doc.fragments[node.fragment].start ELSE node.sub
           more == IF node.kind = "spread" THEN {node.fragment} ELSE {}
<1>1. NodeAt(doc, u) = node /\ node = doc.nodes[v.at] /\ u.parent = v.parent
  BY DEF NodeAt, Together
<1>2. Target(doc, v) = v.parent /\ Target(doc, u) = v.parent
  BY <1>1 DEF Target, Placed
<1>3. Inside(doc, v) = [at |-> start, parent |-> v.parent, level |-> v.level, spread |-> v.spread \cup more]
  BY <1>1, <1>2 DEF Inside
<1>4. Inside(doc, u) = [at |-> start, parent |-> u.parent, level |-> u.level, spread |-> u.spread \cup more]
  BY <1>1, <1>2 DEF Inside
<1>5. \A f \in more : doc.fragments[f].type = v.parent /\ f \in DOMAIN doc.fragments
  BY <1>1 DEF Placed
<1>6. v.parent \in ObjectTypes /\ Rank[v.parent] <= Rank[v.parent]
  BY VisitIs, RankIsOrdered
<1>7. Opens(doc, v) <=> Opens(doc, u)
  BY <1>1, <1>2, <1>5 DEF Opens, Together
<1>8. Together(doc, Inside(doc, v), Inside(doc, u))
  <2> HIDE DEF node, start, more
  <2> QED BY <1>3, <1>4 DEF Together
<1>9. Clean(doc, Inside(doc, v))
  <2> HIDE DEF node, start, more
  <2> QED BY <1>3, <1>5, <1>6 DEF Clean
<1> QED BY <1>3, <1>7, <1>8, <1>9

\* What the walk makes of the fields of a set is at least this, however it comes by them.
AtLeast(doc, type, level, fields, costs, depths) ==
  \A v \in Visits(doc) :
    v.at \in fields /\ v.parent = type /\ v.level = level /\ Clean(doc, v) =>
      /\ costs[v.at] <= FieldWalk(Walk(doc), doc, v).cost
      /\ depths[v.at] <= FieldWalk(Walk(doc), doc, v).deepest

\* The walk from here on covers what is met from a visit together with it.
Covers(doc, costs, depths, v, u) ==
  /\ SumOver(FieldsOf(doc, Met(doc)[u]), costs, Len(doc.nodes)) <= Walk(doc)[v].cost
  /\ \A i \in FieldsOf(doc, Met(doc)[u]) : depths[i] <= Walk(doc)[v].deepest

\* A walk misses nothing that is collected: what it skips as spread before was spread in
\* the same set, and counted there.
LEMMA WalkCovers ==
  ASSUME NEW doc, IsDocument(doc), NEW type \in ObjectTypes, NEW level \in Nat,
         NEW fields, NEW costs \in [1 .. Len(doc.nodes) -> Nat], NEW depths \in [1 .. Len(doc.nodes) -> Nat],
         AtLeast(doc, type, level, fields, costs, depths)
  PROVE  \A v, u \in Visits(doc) :
           /\ Together(doc, v, u) /\ Clean(doc, v) /\ v.parent = type /\ v.level = level
           /\ \A i \in Met(doc)[u] : Placed(doc, type, i)
           /\ FieldsOf(doc, Met(doc)[u]) \subseteq fields
           => Covers(doc, costs, depths, v, u)
<1> DEFINE Fit(v, u) == /\ Together(doc, v, u) /\ Clean(doc, v) /\ v.parent = type /\ v.level = level
                        /\ \A i \in Met(doc)[u] : Placed(doc, type, i)
                        /\ FieldsOf(doc, Met(doc)[u]) \subseteq fields
           T == {v \in Visits(doc) : \A u \in Visits(doc) : Fit(v, u) => Covers(doc, costs, depths, v, u)}
<1>0. Len(doc.nodes) \in Nat
  BY DocumentLength
<1>1. ASSUME NEW v \in Visits(doc), NEW u \in Visits(doc), Fit(v, u), v.at = 0
      PROVE  Covers(doc, costs, depths, v, u)
  <2>1. Met(doc)[u] = {}
    BY <1>1, MetUnfolds DEF MeetFrom, Together
  <2>2. FieldsOf(doc, {}) = {}
    BY DEF FieldsOf
  <2>3. SumOver({}, costs, Len(doc.nodes)) = 0
    BY <1>0, SumOfNone
  <2>4. Walk(doc)[v].cost \in Nat
    BY WalkUnfolds
  <2>5. FieldsOf(doc, Met(doc)[u]) = {}
    BY <2>1, <2>2
  <2>6. SumOver(FieldsOf(doc, Met(doc)[u]), costs, Len(doc.nodes)) <= Walk(doc)[v].cost
    BY <2>3, <2>4, <2>5
  <2> QED BY <2>5, <2>6 DEF Covers
<1>2. ASSUME NEW v \in Visits(doc), NEW u \in Visits(doc), Fit(v, u), v.at # 0,
             \A x \in Visits(doc) : Ahead(doc)[x] < Ahead(doc)[v] => x \in T
      PROVE  Covers(doc, costs, depths, v, u)
  <2> DEFINE after == After(doc, v)
             inside == Inside(doc, v)
             first == SelectionWalk(Walk(doc), doc, v)
             Sum(ids) == SumOver(FieldsOf(doc, ids), costs, Len(doc.nodes))
             met == Met(doc)[u]
             metAfter == Met(doc)[After(doc, u)]
             metInside == Met(doc)[Inside(doc, u)]
  <2>0. u.at = v.at /\ u.at # 0 /\ met = MeetFrom(Met(doc), doc, u)
    BY <1>2, MetUnfolds DEF Together
  <2>1. u.at = v.at /\ v.at \in met /\ metAfter \subseteq met
    BY <2>0 DEF MeetFrom
  <2>2. Placed(doc, v.parent, v.at)
    BY <1>2, <2>1
  <2>3. Covers(doc, costs, depths, after, After(doc, u))
    <3>1. after \in Visits(doc) /\ After(doc, u) \in Visits(doc) /\ after \in T
      BY <1>2, <2>1, AfterIsAhead
    <3>2. Fit(after, After(doc, u))
      BY <1>2, <2>1, <2>2, TogetherAfter DEF FieldsOf
    <3> QED BY <3>1, <3>2
  <2>4. /\ Walk(doc)[v].cost = first.cost + Walk(doc)[after].cost
        /\ Walk(doc)[v].deepest = Deeper(first.deepest, Walk(doc)[after].deepest)
    <3>1. Walk(doc)[v] = WalkFrom(Walk(doc), doc, v) /\ v.at # 0
      BY <1>2, WalkUnfolds
    <3> QED BY <3>1 DEF WalkFrom
  <2>5. ASSUME first.cost \in Nat, first.deepest \in Nat, NEW ids \in SUBSET (1 .. Len(doc.nodes)),
               FieldsOf(doc, met) = FieldsOf(doc, ids) \cup FieldsOf(doc, metAfter),
               Sum(ids) <= first.cost,
               \A i \in FieldsOf(doc, ids) : depths[i] <= first.deepest
        PROVE  Covers(doc, costs, depths, v, u)
    <3>1. metAfter \subseteq 1 .. Len(doc.nodes)
      BY <1>2, <2>1, AfterIsAhead, MetUnfolds
    <3>2. /\ FieldsOf(doc, ids) \subseteq 1 .. Len(doc.nodes)
          /\ FieldsOf(doc, metAfter) \subseteq 1 .. Len(doc.nodes)
      BY <3>1 DEF FieldsOf
    <3>3. Sum(met) <= Sum(ids) + Sum(metAfter)
      BY <1>0, <2>5, <3>2, SumOfUnion
    <3>4. Sum(met) \in Nat /\ Sum(ids) \in Nat /\ Sum(metAfter) \in Nat
      BY <1>0, <2>5, <3>2, SumIsNatural
    <3>5. Walk(doc)[after].cost \in Nat /\ Walk(doc)[after].deepest \in Nat
      BY <1>2, AfterIsAhead, WalkUnfolds
    <3>6. Sum(metAfter) <= Walk(doc)[after].cost
      BY <2>3 DEF Covers
    <3>7. Sum(met) <= Walk(doc)[v].cost
      <4> HIDE DEF after, first, Sum, met, metAfter
      <4> QED BY <2>4, <2>5, <3>3, <3>4, <3>5, <3>6
    <3>8. ASSUME NEW i \in FieldsOf(doc, met) PROVE depths[i] <= Walk(doc)[v].deepest
      <4>1. depths[i] \in Nat
        BY <2>5, <3>2, <3>8
      <4>2. depths[i] <= first.deepest \/ depths[i] <= Walk(doc)[after].deepest
        BY <2>3, <2>5, <3>8 DEF Covers
      <4> HIDE DEF after, first, met
      <4> QED BY <2>4, <2>5, <3>5, <4>1, <4>2 DEF Deeper
    <3> QED BY <3>7, <3>8 DEF Covers
  <2>6. CASE doc.nodes[v.at].kind = "field"
    <3>1. first = FieldWalk(Walk(doc), doc, v)
      BY <2>6 DEF SelectionWalk, NodeAt
    <3>2. met = {v.at} \cup metAfter
      BY <2>0, <2>6 DEF MeetFrom, NodeAt
    <3>3. FieldsOf(doc, {v.at}) = {v.at} /\ FieldsOf(doc, met) = {v.at} \cup FieldsOf(doc, metAfter)
      BY <2>6, <3>2 DEF FieldsOf
    <3>4. costs[v.at] <= first.cost /\ depths[v.at] <= first.deepest
      BY <1>2, <3>1, <3>3 DEF AtLeast
    <3>5. v.at \in 1 .. Len(doc.nodes)
      BY <2>1, <1>2, MetUnfolds
    <3>6. costs[v.at] \in Nat /\ Sum({v.at}) <= costs[v.at] /\ Sum({v.at}) \in Nat
      <4>1. costs[v.at] \in Nat
        BY <3>5
      <4> QED BY <1>0, <3>3, <4>1, SumOfOne, SumIsNatural
    <3>7. first.cost \in Nat /\ first.deepest \in Nat
      <4>1. Opens(doc, v) => Walk(doc)[Inside(doc, v)] \in Costs
        BY <1>2, InsideIsAhead, WalkUnfolds
      <4>2. first \in Costs
        BY <1>2, <4>1, SelectionType
      <4> QED BY <4>2 DEF Costs
    <3>8. Sum({v.at}) <= first.cost
      <4> HIDE DEF Sum, first
      <4> QED BY <3>4, <3>6, <3>7
    <3> QED BY <2>5, <3>3, <3>4, <3>5, <3>7, <3>8
  <2>7. CASE doc.nodes[v.at].kind # "field"
    <3>1. v.at \in 1 .. Len(doc.nodes) /\ doc.nodes[v.at].kind \in {"inline", "spread"}
      BY <1>2, <2>1, <2>7, MetUnfolds, NodesAre
    <3>2. /\ Opens(doc, v) <=> Opens(doc, u)
          /\ Together(doc, inside, Inside(doc, u))
          /\ Clean(doc, inside) /\ inside.parent = type /\ inside.level = level
      BY <1>2, <2>2, <3>1, TogetherInside
    <3>3. FieldsOf(doc, {v.at}) = {}
      BY <2>7 DEF FieldsOf
    <3>4. CASE Opens(doc, v)
      <4>1. first = Walk(doc)[inside]
        BY <2>7, <3>4 DEF SelectionWalk, NodeAt
      <4>2. met = {v.at} \cup metAfter \cup metInside
        BY <2>0, <2>7, <3>2, <3>4 DEF MeetFrom, NodeAt
      <4>3. inside \in Visits(doc) /\ Inside(doc, u) \in Visits(doc) /\ inside \in T
        BY <1>2, <2>1, <3>2, <3>4, InsideIsAhead
      <4>4. Fit(inside, Inside(doc, u))
        BY <1>2, <3>2, <4>2 DEF FieldsOf
      <4>5. Covers(doc, costs, depths, inside, Inside(doc, u))
        BY <4>3, <4>4
      <4>6. first.cost \in Nat /\ first.deepest \in Nat
        BY <4>1, <4>3, WalkUnfolds
      <4>7. metInside \in SUBSET (1 .. Len(doc.nodes))
        BY <4>3, MetUnfolds
      <4>8. FieldsOf(doc, met) = FieldsOf(doc, metInside) \cup FieldsOf(doc, metAfter)
        BY <3>3, <4>2 DEF FieldsOf
      <4> QED BY <2>5, <4>1, <4>5, <4>6, <4>7, <4>8 DEF Covers
    <3>5. CASE ~Opens(doc, v)
      <4>1. first = Nil
        BY <2>7, <3>5 DEF SelectionWalk, NodeAt
      <4>2. met = {v.at} \cup metAfter
        BY <2>0, <2>7, <3>2, <3>5 DEF MeetFrom, NodeAt
      <4>3. FieldsOf(doc, met) = FieldsOf(doc, {}) \cup FieldsOf(doc, metAfter) /\ FieldsOf(doc, {}) = {}
        BY <3>3, <4>2 DEF FieldsOf
      <4>4. Sum({}) = 0
        BY <1>0, <4>3, SumOfNone
      <4>5. first.cost = 0 /\ first.deepest = 0
        BY <4>1 DEF Nil
      <4>6. Sum({}) <= first.cost
        <5> HIDE DEF Sum, first
        <5> QED BY <4>4, <4>5
      <4> QED BY <2>5, <4>3, <4>5, <4>6
    <3> QED BY <3>4, <3>5
  <2> QED BY <1>2, <2>6, <2>7
<1>3. ASSUME NEW v \in Visits(doc), \A x \in Visits(doc) : Ahead(doc)[x] < Ahead(doc)[v] => x \in T
      PROVE  v \in T
  <2>1. ASSUME NEW u \in Visits(doc), Fit(v, u) PROVE Covers(doc, costs, depths, v, u)
    <3> HIDE DEF T, Fit
    <3> QED BY <1>1, <1>2, <1>3, <2>1
  <2> QED BY <2>1
<1>4. Visits(doc) \subseteq T
  <2> HIDE DEF T
  <2> QED BY <1>3, AheadType, MeasureInduction
<1> QED BY <1>4

-----------------------------------------------------------------------------
(* What a field costs at least.                                            *)

\* A multiple of no less is no less.
LEMMA ProductsAscend ==
  ASSUME NEW k \in Nat, NEW a \in Int, NEW b \in Int, a <= b
  PROVE  k * a <= k * b /\ k * a \in Int /\ k * b \in Int
         /\ (a \in Nat => k * a \in Nat) /\ (b \in Nat => k * b \in Nat)
<1>1. PICK c \in Nat : b = a + c
  <2>1. b - a \in Nat /\ b = a + (b - a)
    OBVIOUS
  <2> QED BY <2>1
<1>2. k * b = k * a + k * c /\ k * c \in Nat
  BY <1>1
<1>3. k * a \in Int
  OBVIOUS
<1>4. (a \in Nat => k * a \in Nat) /\ (b \in Nat => k * b \in Nat)
  OBVIOUS
<1> QED BY <1>2, <1>3, <1>4

\* A sum of multiples is a multiple of the sum.
LEMMA SumScales ==
  ASSUME NEW A, NEW x, NEW y, NEW k \in Nat,
         \A i \in A : x[i] \in Nat /\ y[i] = k * x[i], NEW n \in Nat
  PROVE  SumOver(A, y, n) = k * SumOver(A, x, n)
<1> DEFINE Held(m) == SumOver(A, y, m) = k * SumOver(A, x, m)
           T == {m \in Nat : Held(m)}
<1>1. \A i \in A : x[i] \in Int
  OBVIOUS
<1>2. \A i \in A : y[i] \in Int
  BY <1>1
<1>3. 0 \in T
  <2>1. SumOver(A, x, 0) = 0 /\ SumOver(A, y, 0) = 0
    BY <1>1, <1>2, SumUnfolds
  <2> QED BY <2>1
<1>4. ASSUME NEW m \in Nat, Held(m) PROVE Held(m + 1)
  <2>1. SumOver(A, x, m) \in Int /\ SumOver(A, y, m) \in Int
    BY <1>1, <1>2, SumStep
  <2>2. CASE m + 1 \in A
    <3>1. SumOver(A, x, m + 1) = SumOver(A, x, m) + x[m + 1]
      BY <1>1, <2>2, SumStep
    <3>2. SumOver(A, y, m + 1) = SumOver(A, y, m) + y[m + 1]
      BY <1>2, <2>2, SumStep
    <3>3. \A a, b \in Int : k * (a + b) = k * a + k * b
      OBVIOUS
    <3>4. x[m + 1] \in Int /\ y[m + 1] = k * x[m + 1]
      BY <2>2
    <3>5. k * SumOver(A, x, m + 1) = k * SumOver(A, x, m) + k * x[m + 1]
      BY <2>1, <3>1, <3>3, <3>4
    <3> QED BY <1>4, <3>2, <3>4, <3>5
  <2>3. CASE m + 1 \notin A
    <3>1. SumOver(A, x, m + 1) = SumOver(A, x, m)
      BY <1>1, <2>3, SumStep
    <3>2. SumOver(A, y, m + 1) = SumOver(A, y, m)
      BY <1>2, <2>3, SumStep
    <3> QED BY <1>4, <3>1, <3>2
  <2> QED BY <2>2, <2>3
<1>5. Nat \subseteq T
  <2>1. \A m \in Nat : m \in T => m + 1 \in T
    BY <1>4
  <2> HIDE DEF T
  <2> QED BY <1>3, <2>1, InductiveSet
<1> QED BY <1>5

\* The ways the walk enters a set.
Entries(doc, type, start, level) ==
  {v \in Visits(doc) : v.at = start /\ v.parent = type /\ v.level = level /\ Fresh(doc, v)}

\* The least of some numbers.
Least(numbers) == CHOOSE n \in numbers : \A m \in numbers : n <= m

\* The least the walk makes of a set, however it enters it.
LeastCost(doc, type, start, level) ==
  Least({Walk(doc)[v].cost : v \in Entries(doc, type, start, level)})

\* Likewise its deepest level.
LeastDepth(doc, type, start, level) ==
  Least({Walk(doc)[v].deepest : v \in Entries(doc, type, start, level)})

\* Natural numbers have a least one among them.
LEMMA LeastIs ==
  ASSUME NEW T \in SUBSET Nat, T # {}
  PROVE  Least(T) \in T /\ \A m \in T : Least(T) <= m
BY LeastNatural DEF Least

\* The least the walk makes of a set is what it makes of it at one of its entries.
LEMMA LeastOfEntries ==
  ASSUME NEW doc, IsDocument(doc), NEW type \in ObjectTypes, NEW start \in Ids(doc), NEW level \in Nat
  PROVE  /\ LeastCost(doc, type, start, level) \in Nat
         /\ LeastDepth(doc, type, start, level) \in Nat
         /\ \A v \in Entries(doc, type, start, level) :
              /\ LeastCost(doc, type, start, level) <= Walk(doc)[v].cost
              /\ LeastDepth(doc, type, start, level) <= Walk(doc)[v].deepest
         /\ \E v \in Entries(doc, type, start, level) : LeastCost(doc, type, start, level) = Walk(doc)[v].cost
         /\ \E v \in Entries(doc, type, start, level) : LeastDepth(doc, type, start, level) = Walk(doc)[v].deepest
<1> DEFINE E == Entries(doc, type, start, level)
           costs == {Walk(doc)[v].cost : v \in E}
           depths == {Walk(doc)[v].deepest : v \in E}
<1>1. Visit(start, type, level) \in E
  BY DEF Entries, Visit, Visits, Fresh
<1>2. \A v \in E : Walk(doc)[v].cost \in Nat /\ Walk(doc)[v].deepest \in Nat
  BY WalkUnfolds DEF Entries
<1>3. costs \in SUBSET Nat /\ costs # {} /\ depths \in SUBSET Nat /\ depths # {}
  BY <1>1, <1>2
<1>4. /\ Least(costs) \in costs /\ \A m \in costs : Least(costs) <= m
      /\ Least(depths) \in depths /\ \A m \in depths : Least(depths) <= m
  <2> HIDE DEF costs, depths
  <2> QED BY <1>3, LeastIs
<1>5. Least(costs) = LeastCost(doc, type, start, level) /\ Least(depths) = LeastDepth(doc, type, start, level)
  BY DEF LeastCost, LeastDepth
<1> HIDE DEF E
<1> QED BY <1>3, <1>4, <1>5 DEF E

\* The least it makes of the set of a field.
ChildCost(doc, o, level, i) ==
  LeastCost(doc, Schema[o.type][doc.nodes[i].name].type, doc.nodes[i].sub, level + 1)

\* Likewise the deepest level there.
ChildDepth(doc, o, level, i) ==
  LeastDepth(doc, Schema[o.type][doc.nodes[i].name].type, doc.nodes[i].sub, level + 1)

\* What the walk multiplies the set of a field by.
FieldMultiplier(doc, o, i) == Multiplier(Schema[o.type][doc.nodes[i].name], doc.nodes[i].arg)

\* What a field of an object costs at least.
Costing(doc, o, level) ==
  [i \in 1 .. Len(doc.nodes) |->
     IF i \in Fields(doc, o) /\ Composite(doc, o, i)
       THEN 1 + FieldMultiplier(doc, o, i) * ChildCost(doc, o, level, i)
     ELSE IF IsMeta(doc.nodes[i].name) THEN 0 ELSE 1]

\* How deep a field goes at least.
Deepening(doc, o, level) ==
  [i \in 1 .. Len(doc.nodes) |->
     IF i \in Fields(doc, o) /\ Composite(doc, o, i)
       THEN Deeper(level, ChildDepth(doc, o, level, i))
     ELSE IF IsMeta(doc.nodes[i].name) THEN 0 ELSE level]

\* The least of a set below a field is a natural number, and the set of a lower rank.
LEMMA ChildLeast ==
  ASSUME NEW doc, IsDocument(doc), NEW o \in Objects(doc), NEW level \in Nat,
         NEW i \in Fields(doc, o), Composite(doc, o, i)
  PROVE  /\ ChildCost(doc, o, level, i) \in Nat /\ ChildDepth(doc, o, level, i) \in Nat
         /\ FieldMultiplier(doc, o, i) \in Nat
         /\ Schema[o.type][doc.nodes[i].name].type \in ObjectTypes
         /\ Rank[Schema[o.type][doc.nodes[i].name].type] < Rank[o.type]
         /\ doc.nodes[i].sub \in Ids(doc)
<1>1. IsField(o.type, doc.nodes[i].name) /\ Schema[o.type][doc.nodes[i].name].type # Leaf
  BY DEF Composite
<1>2. Sensible(o.type, Schema[o.type][doc.nodes[i].name]) /\ IsArgument(doc.nodes[i].arg)
  BY <1>1, CoercedType
<1>3. FieldMultiplier(doc, o, i) \in Nat
  BY <1>2, MultiplierType DEF FieldMultiplier
<1>4. i \in 1 .. Len(doc.nodes)
  BY FieldsAre
<1>5. doc.nodes[i].sub \in Ids(doc)
  BY <1>4, NodesAre, DocumentLength DEF Ids
<1>6. /\ Schema[o.type][doc.nodes[i].name].type \in ObjectTypes
      /\ Rank[Schema[o.type][doc.nodes[i].name].type] < Rank[o.type]
  BY <1>1, <1>2 DEF Sensible
<1>7. level + 1 \in Nat
  OBVIOUS
<1> QED BY <1>3, <1>5, <1>6, <1>7, LeastOfEntries DEF ChildCost, ChildDepth

\* A field of the schema costs at least 1, and goes as deep as it lies.
LEMMA CostingType ==
  ASSUME NEW doc, IsDocument(doc), NEW o \in Objects(doc), NEW level \in Nat
  PROVE  /\ Costing(doc, o, level) \in [1 .. Len(doc.nodes) -> Nat]
         /\ Deepening(doc, o, level) \in [1 .. Len(doc.nodes) -> Nat]
         /\ \A i \in 1 .. Len(doc.nodes) : ~IsMeta(doc.nodes[i].name) =>
              /\ 1 <= Costing(doc, o, level)[i]
              /\ level <= Deepening(doc, o, level)[i]
<1>1. ASSUME NEW i \in Fields(doc, o), Composite(doc, o, i)
      PROVE  /\ 1 + FieldMultiplier(doc, o, i) * ChildCost(doc, o, level, i) \in Nat
             /\ 1 <= 1 + FieldMultiplier(doc, o, i) * ChildCost(doc, o, level, i)
             /\ Deeper(level, ChildDepth(doc, o, level, i)) \in Nat
             /\ level <= Deeper(level, ChildDepth(doc, o, level, i))
  <2>1. /\ ChildCost(doc, o, level, i) \in Nat /\ ChildDepth(doc, o, level, i) \in Nat
        /\ FieldMultiplier(doc, o, i) \in Nat
    BY <1>1, ChildLeast
  <2>2. \A a, b \in Nat : a * b \in Nat
    OBVIOUS
  <2>3. FieldMultiplier(doc, o, i) * ChildCost(doc, o, level, i) \in Nat
    BY <2>1, <2>2
  <2> QED BY <2>1, <2>3 DEF Deeper
<1> QED BY <1>1 DEF Costing, Deepening

\* The walk makes that much of each field of an object, and does enter its set.
LEMMA FieldsCost ==
  ASSUME NEW doc, IsDocument(doc), NEW o \in Objects(doc), ObjectRules(doc, o), NEW level \in Nat
  PROVE  AtLeast(doc, o.type, level, Fields(doc, o), Costing(doc, o, level), Deepening(doc, o, level))
<1> SUFFICES ASSUME NEW v \in Visits(doc), v.at \in Fields(doc, o), v.parent = o.type,
                    v.level = level, Clean(doc, v)
             PROVE  /\ Costing(doc, o, level)[v.at] <= FieldWalk(Walk(doc), doc, v).cost
                    /\ Deepening(doc, o, level)[v.at] <= FieldWalk(Walk(doc), doc, v).deepest
  BY DEF AtLeast
<1> DEFINE i == v.at
           node == doc.nodes[i]
           field == Schema[o.type][node.name]
<1>1. i \in 1 .. Len(doc.nodes) /\ node.kind = "field" /\ NodeAt(doc, v) = node /\ i # 0
  BY FieldsAre DEF Fields, NodeAt
<1>2. \/ IsField(o.type, node.name) /\ (Composite(doc, o, i) <=> node.sub # 0)
      \/ IsMeta(node.name)
  BY DEF ObjectRules, FieldsOnCorrectType, IsMeta
<1>3. CASE Composite(doc, o, i)
  <2>0. IsField(o.type, node.name) /\ node.sub # 0 /\ ~IsMeta(node.name)
    BY <1>2, <1>3, MetaIsNotOfSchema DEF Composite, Objects
  <2>1. /\ ChildCost(doc, o, level, i) \in Nat /\ ChildDepth(doc, o, level, i) \in Nat
        /\ FieldMultiplier(doc, o, i) \in Nat
        /\ field.type \in ObjectTypes /\ Rank[field.type] < Rank[o.type]
        /\ node.sub \in Ids(doc)
    BY <1>3, ChildLeast
  <2>2. Target(doc, v) = field.type /\ Opens(doc, v)
    BY <1>1, <2>0, <1>3, <2>1 DEF Target, Opens
  <2> DEFINE inside == Inside(doc, v)
  <2>3. inside = [at |-> node.sub, parent |-> field.type, level |-> level + 1, spread |-> v.spread]
    BY <1>1, <2>2 DEF Inside
  <2>4. inside \in Entries(doc, field.type, node.sub, level + 1)
    <3>1. inside \in Visits(doc)
      BY <1>1, <2>2, InsideIsAhead
    <3>2. o.type \in ObjectTypes
      BY DEF Objects
    <3>3. ASSUME NEW f \in v.spread
          PROVE  doc.fragments[f].type \in ObjectTypes /\ Rank[field.type] < Rank[doc.fragments[f].type]
      <4>1. doc.fragments[f].type \in ObjectTypes /\ Rank[o.type] <= Rank[doc.fragments[f].type]
        BY DEF Clean
      <4> HIDE DEF field
      <4>2. Rank[field.type] \in Nat /\ Rank[o.type] \in Nat /\ Rank[doc.fragments[f].type] \in Nat
        BY <2>1, <3>2, <4>1, RankIsOrdered
      <4> QED BY <2>1, <4>1, <4>2
    <3>4. Fresh(doc, inside)
      <4> HIDE DEF inside, field
      <4> QED BY <2>3, <3>3 DEF Fresh
    <3> HIDE DEF inside
    <3> QED BY <2>3, <3>1, <3>4 DEF Entries
  <2>5. ChildCost(doc, o, level, i) <= Walk(doc)[inside].cost
    <3> level + 1 \in Nat
      OBVIOUS
    <3> HIDE DEF inside
    <3> QED BY <2>1, <2>4, LeastOfEntries DEF ChildCost
  <2>6. ChildDepth(doc, o, level, i) <= Walk(doc)[inside].deepest
    <3> level + 1 \in Nat
      OBVIOUS
    <3> HIDE DEF inside
    <3> QED BY <2>1, <2>4, LeastOfEntries DEF ChildDepth
  <2>7. Walk(doc)[inside].cost \in Nat /\ Walk(doc)[inside].deepest \in Nat
    BY <2>4, WalkUnfolds DEF Entries
  <2>8. FieldWalk(Walk(doc), doc, v) =
          [cost    |-> 1 + FieldMultiplier(doc, o, i) * Walk(doc)[inside].cost,
           deepest |-> Deeper(level, Walk(doc)[inside].deepest)]
    BY <1>1, <2>0, <2>2 DEF FieldWalk, FieldMultiplier
  <2>9. /\ Costing(doc, o, level)[i] = 1 + FieldMultiplier(doc, o, i) * ChildCost(doc, o, level, i)
        /\ Deepening(doc, o, level)[i] = Deeper(level, ChildDepth(doc, o, level, i))
    BY <1>1, <1>3 DEF Costing, Deepening
  <2>10. FieldMultiplier(doc, o, i) * ChildCost(doc, o, level, i)
           <= FieldMultiplier(doc, o, i) * Walk(doc)[inside].cost
    <3> HIDE DEF inside, i
    <3> QED BY <2>1, <2>5, <2>7, ProductsAscend
  <2>11. /\ FieldMultiplier(doc, o, i) * ChildCost(doc, o, level, i) \in Nat
         /\ FieldMultiplier(doc, o, i) * Walk(doc)[inside].cost \in Nat
    BY <2>1, <2>7, ProductsAscend
  <2> HIDE DEF inside, i
  <2>12. Costing(doc, o, level)[i] <= FieldWalk(Walk(doc), doc, v).cost
    BY <2>8, <2>9, <2>10, <2>11
  <2>13. Deepening(doc, o, level)[i] <= FieldWalk(Walk(doc), doc, v).deepest
    BY <2>1, <2>6, <2>7, <2>8, <2>9 DEF Deeper
  <2> QED BY <2>12, <2>13 DEF i
<1>4. CASE ~Composite(doc, o, i) /\ ~IsMeta(node.name)
  <2>1. Target(doc, v) = Leaf
    BY <1>1, <1>2, <1>4 DEF Target, Composite
  <2>2. ~Opens(doc, v)
    BY <2>1, TypesAre DEF Opens
  <2>3. FieldWalk(Walk(doc), doc, v) = [cost |-> 1, deepest |-> level]
    <3>1. IsField(v.parent, NodeAt(doc, v).name) /\ ~IsMeta(NodeAt(doc, v).name)
      BY <1>1, <1>2, <1>4
    <3> QED BY <2>2, <3>1 DEF FieldWalk
  <2>4. Costing(doc, o, level)[i] = 1 /\ Deepening(doc, o, level)[i] = level
    BY <1>1, <1>4 DEF Costing, Deepening
  <2> QED BY <2>3, <2>4
<1>5. CASE ~Composite(doc, o, i) /\ IsMeta(node.name)
  <2>1. FieldWalk(Walk(doc), doc, v) = [cost |-> 0, deepest |-> 0]
    BY <1>1, <1>5 DEF FieldWalk, Nil
  <2>2. Costing(doc, o, level)[i] = 0 /\ Deepening(doc, o, level)[i] = 0
    BY <1>1, <1>5 DEF Costing, Deepening
  <2> QED BY <2>1, <2>2
<1> QED BY <1>3, <1>4, <1>5

\* What one of the sets merged in an object selects of it.
Selected(doc, o, s) == FieldsOf(doc, Met(doc)[Visit(s, o.type, 0)])

\* However the walk enters such a set, it covers what is selected there.
LEMMA SelectedIsCovered ==
  ASSUME NEW doc, IsDocument(doc), NEW o \in Objects(doc), ObjectRules(doc, o), NEW level \in Nat,
         NEW s \in o.starts, NEW v \in Entries(doc, o.type, s, level)
  PROVE  Covers(doc, Costing(doc, o, level), Deepening(doc, o, level), v, Visit(s, o.type, 0))
<1> DEFINE u == Visit(s, o.type, 0)
<1>1. /\ o.type \in ObjectTypes /\ s \in Ids(doc) /\ u \in Visits(doc)
      /\ u.at = s /\ u.parent = o.type /\ u.spread = {}
  BY DEF Objects, Visit, Visits
<1>2. v \in Visits(doc) /\ v.at = s /\ v.parent = o.type /\ v.level = level /\ Fresh(doc, v)
  BY DEF Entries
<1>3. Clean(doc, v)
  <2>1. ASSUME NEW f \in v.spread
        PROVE  doc.fragments[f].type \in ObjectTypes /\ Rank[v.parent] <= Rank[doc.fragments[f].type]
    <3>1. doc.fragments[f].type \in ObjectTypes /\ Rank[v.parent] < Rank[doc.fragments[f].type]
      BY <1>2 DEF Fresh
    <3>2. Rank[v.parent] \in Nat /\ Rank[doc.fragments[f].type] \in Nat
      BY <1>1, <1>2, <3>1, RankIsOrdered
    <3> QED BY <3>1, <3>2
  <2> QED BY <2>1 DEF Clean
<1>4. Together(doc, v, u)
  <2>1. ASSUME NEW f \in v.spread, doc.fragments[f].type = v.parent PROVE FALSE
    <3>1. Rank[v.parent] < Rank[v.parent]
      BY <1>2, <2>1 DEF Fresh
    <3>2. Rank[v.parent] \in Nat
      BY <1>1, <1>2, RankIsOrdered
    <3> QED BY <3>1, <3>2
  <2> QED BY <1>1, <1>2, <2>1 DEF Together
<1>5. Met(doc)[u] \subseteq MetFor(doc, o)
  BY DEF MetFor
<1>6. \A i \in Met(doc)[u] : Placed(doc, o.type, i)
  BY <1>5 DEF ObjectRules, PossibleFragmentSpreads, Placed
<1>7. FieldsOf(doc, Met(doc)[u]) \subseteq Fields(doc, o)
  BY <1>5 DEF FieldsOf, Fields
<1>8. /\ Costing(doc, o, level) \in [1 .. Len(doc.nodes) -> Nat]
      /\ Deepening(doc, o, level) \in [1 .. Len(doc.nodes) -> Nat]
  BY CostingType
<1>9. AtLeast(doc, o.type, level, Fields(doc, o), Costing(doc, o, level), Deepening(doc, o, level))
  BY FieldsCost
<1> HIDE DEF u
<1> QED BY <1>1, <1>2, <1>3, <1>4, <1>6, <1>7, <1>8, <1>9, WalkCovers DEF u

\* So the least it can make of them is what is selected, set by set.
LEMMA SelectedCost ==
  ASSUME NEW doc, IsDocument(doc), NEW o \in Objects(doc), ObjectRules(doc, o), NEW level \in Nat,
         NEW s \in o.starts
  PROVE  /\ LeastCost(doc, o.type, s, level) \in Nat
         /\ LeastDepth(doc, o.type, s, level) \in Nat
         /\ SumOver(Selected(doc, o, s), Costing(doc, o, level), Len(doc.nodes)) <= LeastCost(doc, o.type, s, level)
         /\ \A i \in Selected(doc, o, s) : Deepening(doc, o, level)[i] <= LeastDepth(doc, o.type, s, level)
<1>1. o.type \in ObjectTypes /\ s \in Ids(doc)
  BY DEF Objects
<1>2. /\ LeastCost(doc, o.type, s, level) \in Nat
      /\ LeastDepth(doc, o.type, s, level) \in Nat
      /\ \E v \in Entries(doc, o.type, s, level) : LeastCost(doc, o.type, s, level) = Walk(doc)[v].cost
      /\ \E v \in Entries(doc, o.type, s, level) : LeastDepth(doc, o.type, s, level) = Walk(doc)[v].deepest
  BY <1>1, LeastOfEntries
<1>3. \A v \in Entries(doc, o.type, s, level) :
        Covers(doc, Costing(doc, o, level), Deepening(doc, o, level), v, Visit(s, o.type, 0))
  BY SelectedIsCovered
<1>4. SumOver(Selected(doc, o, s), Costing(doc, o, level), Len(doc.nodes)) <= LeastCost(doc, o.type, s, level)
  BY <1>2, <1>3 DEF Covers, Selected
<1>5. \A i \in Selected(doc, o, s) : Deepening(doc, o, level)[i] <= LeastDepth(doc, o.type, s, level)
  BY <1>2, <1>3 DEF Covers, Selected
<1> QED BY <1>2, <1>4, <1>5

\* What the walk makes of the sets merged in an object, at least.
LeastCosts(doc, o, level) == [s \in o.starts |-> LeastCost(doc, o.type, s, level)]

\* The fields of an object cost no more together than its sets do.
LEMMA ObjectCost ==
  ASSUME NEW doc, IsDocument(doc), NEW o \in Objects(doc), ObjectRules(doc, o), NEW level \in Nat
  PROVE  /\ SumOver(Fields(doc, o), Costing(doc, o, level), Len(doc.nodes))
              <= SumOver(o.starts, LeastCosts(doc, o, level), Len(doc.nodes))
         /\ \A i \in Fields(doc, o) : \E s \in o.starts :
              Deepening(doc, o, level)[i] <= LeastDepth(doc, o.type, s, level)
<1> DEFINE N == Len(doc.nodes)
           x == Costing(doc, o, level)
           G == [s \in o.starts |-> Selected(doc, o, s)]
           g == LeastCosts(doc, o, level)
<1>1. N \in Nat /\ x \in [1 .. N -> Nat] /\ Fields(doc, o) \subseteq 1 .. N
  BY DocumentLength, CostingType, FieldsAre
<1>2. o.starts \subseteq Ids(doc)
  BY DEF Objects
<1>3. ASSUME NEW i \in Fields(doc, o)
      PROVE  \E s \in o.starts : i \in Selected(doc, o, s)
  BY DEF Fields, MetFor, Selected, FieldsOf
<1>4. ASSUME NEW s \in o.starts PROVE G[s] \subseteq Fields(doc, o)
  BY DEF Selected, Fields, MetFor, FieldsOf
<1>5. ASSUME NEW s \in o.starts, s = 0 PROVE G[s] = {}
  <2>1. Visit(s, o.type, 0) \in Visits(doc) /\ Visit(s, o.type, 0).at = 0
    BY <1>5, <1>2 DEF Visit, Visits, Objects
  <2>2. Met(doc)[Visit(s, o.type, 0)] = {}
    BY <2>1, MetUnfolds DEF MeetFrom
  <2> QED BY <2>2 DEF Selected, FieldsOf
<1>6. Fields(doc, o) = Gathered(o.starts, G, N)
  <2>1. \A s \in o.starts : s = 0 \/ s \in 1 .. N
    BY <1>1, <1>2 DEF Ids
  <2>2. \A s \in o.starts : G[s] = Selected(doc, o, s)
    OBVIOUS
  <2> HIDE DEF G, N
  <2> QED BY <1>3, <1>4, <1>5, <2>1, <2>2 DEF Gathered
<1>7. \A s \in o.starts : /\ \A j \in G[s] : x[j] \in Nat
                          /\ g[s] \in Nat
                          /\ SumOver(G[s], x, N) <= g[s]
  <2>1. ASSUME NEW s \in o.starts
        PROVE  g[s] \in Nat /\ SumOver(G[s], x, N) <= g[s]
    BY SelectedCost DEF LeastCosts
  <2> HIDE DEF G, x, g
  <2> QED BY <1>1, <1>4, <2>1
<1>8. SumOver(Gathered(o.starts, G, N), x, N) <= SumOver(o.starts, g, N)
  <2> HIDE DEF G, x, g, N
  <2> QED BY <1>1, <1>7, SumOfGathered
<1>9. \A i \in Fields(doc, o) : \E s \in o.starts :
        Deepening(doc, o, level)[i] <= LeastDepth(doc, o.type, s, level)
  BY <1>3, SelectedCost
<1> QED BY <1>6, <1>8, <1>9

\* What a resolver returns, for the sizes it accepts, is no more than the walk multiplies by.
LEMMA LengthIsCounted ==
  ASSUME NEW parent, NEW field, Sensible(parent, field), NEW arg, IsArgument(arg),
         CheckRange(field, arg), NEW size \in Nat, size >= 1
  PROVE  /\ Coerced(field, arg) \in Nat /\ Coerced(field, arg) >= 1
         /\ Length(field, size) \in Nat
         /\ Length(field, size) * Coerced(field, arg) <= size * Multiplier(field, arg)
<1>1. CASE field.size # Unsized
  <2>1. Coerced(field, arg) \in Nat /\ Coerced(field, arg) >= 1 /\ Coerced(field, arg) <= field.size.worst
    BY <1>1 DEF CheckRange, Sensible
  <2>2. Length(field, size) = 1
    BY <1>1 DEF Length, Sensible
  <2>3. Coerced(field, arg) <= Multiplier(field, arg)
    BY <1>1, <2>1 DEF Coerced, Multiplier, Size, AtLeastZero, IsArgument, Sensible
  <2>4. Multiplier(field, arg) \in Nat
    BY MultiplierType
  <2>5. Multiplier(field, arg) * 1 <= Multiplier(field, arg) * size
    BY <2>4, ProductsAscend
  <2>6. size * Multiplier(field, arg) = Multiplier(field, arg) * size
    BY <2>4
  <2> QED BY <2>1, <2>2, <2>3, <2>4, <2>5, <2>6
<1>2. CASE field.size = Unsized
  <2>1. Coerced(field, arg) = 1
    BY <1>2 DEF Coerced
  <2>2. CASE field.sizedChild
    <3>1. Multiplier(field, arg) = 1 /\ Length(field, size) = size
      BY <1>2, <2>2 DEF Multiplier, Length
    <3> QED BY <2>1, <3>1
  <2>3. CASE field.list /\ ~field.sizedChild
    <3>1. Multiplier(field, arg) = UnsizedList /\ Length(field, size) = UnsizedList /\ UnsizedList \in Nat
      BY <1>2, <2>3, LimitsAssumption DEF Multiplier, Length
    <3>2. UnsizedList * 1 <= UnsizedList * size
      BY <3>1, ProductsAscend
    <3>3. size * UnsizedList = UnsizedList * size
      BY <3>1
    <3> QED BY <2>1, <3>1, <3>2, <3>3
  <2>4. CASE ~field.list /\ ~field.sizedChild
    <3>1. Multiplier(field, arg) = 1 /\ Length(field, size) = 1
      BY <1>2, <2>4 DEF Multiplier, Length
    <3> QED BY <2>1, <3>1
  <2> QED BY <2>2, <2>3, <2>4
<1> QED BY <1>1, <1>2

-----------------------------------------------------------------------------
(* The answer costs no more.                                               *)

\* The objects of one response key, at the length of their list, cost no more than its
\* fields do.
LEMMA KeyCost ==
  ASSUME NEW size \in Nat, size >= 1, NEW length \in Nat, NEW coerced \in Nat, NEW multiplier \in Nat,
         length * coerced <= size * multiplier,
         NEW least \in Nat, NEW sub \in Nat, least <= sub,
         NEW fields \in Int, fields <= coerced * least,
         NEW sum \in Nat, 1 + multiplier * sub <= sum
  PROVE  1 + length * fields <= size * sum
<1>1. length * fields <= length * (coerced * least) /\ length * fields \in Int
  <2>1. coerced * least \in Int
    BY ProductsAscend
  <2> QED BY <2>1, ProductsAscend
<1>2. length * (coerced * least) = least * (length * coerced)
  OBVIOUS
<1>3. least * (length * coerced) <= least * (size * multiplier)
  <2>1. length * coerced \in Int /\ size * multiplier \in Int
    BY ProductsAscend
  <2> QED BY <2>1, ProductsAscend
<1>4. least * (size * multiplier) = (size * multiplier) * least
  OBVIOUS
<1>5. (size * multiplier) * least <= (size * multiplier) * sub
  <2>1. size * multiplier \in Nat
    BY ProductsAscend
  <2> QED BY <2>1, ProductsAscend
<1>6. (size * multiplier) * sub = size * (multiplier * sub)
  OBVIOUS
<1>7. size * (1 + multiplier * sub) = size + size * (multiplier * sub)
  OBVIOUS
<1>8. size * (1 + multiplier * sub) <= size * sum
  <2>1. 1 + multiplier * sub \in Int
    BY ProductsAscend
  <2> QED BY <2>1, ProductsAscend
<1>9. /\ length * (coerced * least) \in Int /\ (size * multiplier) * least \in Int
      /\ size * (multiplier * sub) \in Int /\ size * sum \in Int
      /\ least * (length * coerced) \in Int
  <2>1. /\ coerced * least \in Nat /\ size * multiplier \in Nat /\ multiplier * sub \in Nat
        /\ length * coerced \in Nat
    BY ProductsAscend
  <2> QED BY <2>1, ProductsAscend
<1> DEFINE p == length * fields
           q == size * (multiplier * sub)
<1>10. p <= q /\ p \in Int /\ q \in Int
  BY <1>1, <1>2, <1>3, <1>4, <1>5, <1>6, <1>9
<1>11. size + q <= size * sum /\ size * sum \in Int
  BY <1>7, <1>8, <1>9
<1> HIDE DEF p, q
<1>12. 1 + p <= size * sum
  <2> DEFINE r == size * sum
  <2>1. size + q <= r /\ r \in Int
    BY <1>11
  <2> HIDE DEF r
  <2>2. 1 + p <= r
    BY <1>10, <2>1
  <2> QED BY <2>2 DEF r
<1> QED BY <1>12 DEF p

\* Of an object, the answer holds no more than the walk made of its sets.
Bounded(answer, doc, a) ==
  /\ answer[a].fields
       <= a.size * SumOver(a.object.starts, LeastCosts(doc, a.object, a.level), Len(doc.nodes))
  /\ \A n \in answer[a].levels : \E s \in a.object.starts :
       n <= LeastDepth(doc, a.object.type, s, a.level)

\* The sets below a response key cost no more than they do field by field.
LEMMA SubsCost ==
  ASSUME NEW doc, IsDocument(doc), NEW o \in Objects(doc), ObjectRules(doc, o), NEW level \in Nat,
         NEW i \in Fields(doc, o), Composite(doc, o, i)
  PROVE  /\ \A j \in SameKey(doc, o, i) :
              /\ j \in Fields(doc, o) /\ Composite(doc, o, j)
              /\ ChildCost(doc, o, level, j) \in Nat
              /\ FieldMultiplier(doc, o, j) = FieldMultiplier(doc, o, i)
              /\ LeastCosts(doc, Child(doc, o, i), level + 1)[doc.nodes[j].sub] = ChildCost(doc, o, level, j)
              /\ LeastDepth(doc, Child(doc, o, i).type, doc.nodes[j].sub, level + 1) = ChildDepth(doc, o, level, j)
         /\ SumOver(Child(doc, o, i).starts, LeastCosts(doc, Child(doc, o, i), level + 1), Len(doc.nodes))
              <= SumOver(SameKey(doc, o, i), [j \in SameKey(doc, o, i) |-> ChildCost(doc, o, level, j)],
                         Len(doc.nodes))
<1> DEFINE N == Len(doc.nodes)
           I == SameKey(doc, o, i)
           c == Child(doc, o, i)
           x == LeastCosts(doc, c, level + 1)
           G == [j \in I |-> {doc.nodes[j].sub}]
           g == [j \in I |-> ChildCost(doc, o, level, j)]
<1>1. I \subseteq Fields(doc, o) /\ I \subseteq 1 .. N /\ N \in Nat
  BY FieldsAre, DocumentLength DEF SameKey
<1>2. ASSUME NEW j \in I
      PROVE  /\ j \in Fields(doc, o) /\ Composite(doc, o, j)
             /\ doc.nodes[j].name = doc.nodes[i].name
             /\ FieldMultiplier(doc, o, j) = FieldMultiplier(doc, o, i)
  <2>1. j \in Fields(doc, o) /\ doc.nodes[j].key = doc.nodes[i].key
    BY DEF SameKey
  <2>2. doc.nodes[j].name = doc.nodes[i].name /\ doc.nodes[j].arg = doc.nodes[i].arg
    BY <2>1 DEF ObjectRules, OverlappingFieldsCanBeMerged
  <2> QED BY <2>1, <2>2 DEF Composite, FieldMultiplier
<1>3. ASSUME NEW j \in I PROVE ChildCost(doc, o, level, j) \in Nat
  BY <1>2, ChildLeast
<1>4. c.starts = {doc.nodes[j].sub : j \in I} /\ c.type = Schema[o.type][doc.nodes[i].name].type
  BY DEF Child
<1>5. ASSUME NEW j \in I
      PROVE  /\ x[doc.nodes[j].sub] = ChildCost(doc, o, level, j)
             /\ LeastDepth(doc, c.type, doc.nodes[j].sub, level + 1) = ChildDepth(doc, o, level, j)
  <2> HIDE DEF c, I
  <2> QED BY <1>2, <1>4 DEF LeastCosts, ChildCost, ChildDepth
<1>6. ASSUME NEW j \in I
      PROVE  /\ \A s \in G[j] : x[s] \in Nat
             /\ g[j] \in Nat
             /\ SumOver(G[j], x, N) <= g[j]
  <2>1. G[j] = {doc.nodes[j].sub} /\ g[j] = ChildCost(doc, o, level, j)
    OBVIOUS
  <2> HIDE DEF I, G, x, g, N
  <2> QED BY <1>1, <1>3, <1>5, <2>1, SumOfOne
<1>7. Gathered(I, G, N) = c.starts
  <2>1. \A j \in I : G[j] = {doc.nodes[j].sub}
    OBVIOUS
  <2> HIDE DEF I, G, c, N
  <2>2. I \cap (1 .. N) = I
    BY <1>1
  <2>3. Gathered(I, G, N) = UNION {G[j] : j \in I}
    BY <2>2 DEF Gathered
  <2>4. UNION {G[j] : j \in I} = {doc.nodes[j].sub : j \in I}
    BY <2>1
  <2> QED BY <1>4, <2>3, <2>4
<1>8. SumOver(Gathered(I, G, N), x, N) <= SumOver(I, g, N)
  <2> HIDE DEF I, G, x, g, N
  <2> QED BY <1>1, <1>6, SumOfGathered
<1> QED BY <1>2, <1>3, <1>5, <1>7, <1>8

\* The answer holds no more of one response key than its fields cost.
LEMMA KeyIsBounded ==
  ASSUME NEW doc, IsDocument(doc), NEW a \in Answers(doc), ObjectRules(doc, a.object), a.size >= 1,
         NEW i \in Keys(doc, a.object),
         IsMeta(doc.nodes[i].name) \/ CheckRange(Schema[a.object.type][doc.nodes[i].name], doc.nodes[i].arg),
         NEW answer,
         Composite(doc, a.object, i) =>
           /\ answer[Below(doc, a, i)].fields \in Int
           /\ answer[Below(doc, a, i)].levels \subseteq Nat
           /\ Bounded(answer, doc, Below(doc, a, i))
  PROVE  /\ AnswerField(answer, doc, a, i).fields \in Int
         /\ AnswerField(answer, doc, a, i).fields
              <= a.size * SumOver(SameKey(doc, a.object, i), Costing(doc, a.object, a.level), Len(doc.nodes))
         /\ \A n \in AnswerField(answer, doc, a, i).levels : \E j \in SameKey(doc, a.object, i) :
              n <= Deepening(doc, a.object, a.level)[j]
<1> DEFINE o == a.object
           N == Len(doc.nodes)
           x == Costing(doc, o, a.level)
           d == Deepening(doc, o, a.level)
           I == SameKey(doc, o, i)
           sum == SumOver(I, x, N)
<1>1. o \in Objects(doc) /\ a.level \in Nat /\ a.size \in Nat
  BY DEF Answers
<1>2. i \in I /\ i \in Fields(doc, o) /\ I \subseteq Fields(doc, o)
  BY <1>1, KeysAre
<1>3. N \in Nat /\ I \subseteq 1 .. N /\ i \in 1 .. N
  BY <1>1, <1>2, FieldsAre, DocumentLength
<1>4. /\ x \in [1 .. N -> Nat] /\ d \in [1 .. N -> Nat]
      /\ \A j \in 1 .. N : ~IsMeta(doc.nodes[j].name) => 1 <= x[j] /\ a.level <= d[j]
  BY <1>1, CostingType
<1>5. \A j \in I : x[j] \in Nat
  BY <1>3, <1>4
<1>6. sum \in Nat
  <2> HIDE DEF x, I, N
  <2> QED BY <1>3, <1>5, SumIsNatural
<1>7. CASE IsMeta(doc.nodes[i].name)
  <2>1. AnswerField(answer, doc, a, i) = [fields |-> 0, levels |-> {}]
    BY <1>7 DEF AnswerField
  <2>2. 0 <= a.size * sum
    <3>1. \A p, q \in Nat : p * q \in Nat /\ 0 <= p * q
      OBVIOUS
    <3> HIDE DEF sum
    <3> QED BY <1>1, <1>6, <3>1
  <2>3. /\ AnswerField(answer, doc, a, i).fields = 0
        /\ AnswerField(answer, doc, a, i).levels = {}
    BY <2>1
  <2>4. AnswerField(answer, doc, a, i).fields <= a.size * sum
    <3> HIDE DEF sum
    <3> QED BY <2>2, <2>3
  <2>5. AnswerField(answer, doc, a, i).fields \in Int
    BY <2>3
  <2>6. \A n \in AnswerField(answer, doc, a, i).levels : \E j \in I : n <= d[j]
    BY <2>3
  <2> QED BY <2>4, <2>5, <2>6
<1>8. CASE ~Composite(doc, o, i) /\ ~IsMeta(doc.nodes[i].name)
  <2>1. AnswerField(answer, doc, a, i) = [fields |-> 1, levels |-> {a.level}]
    BY <1>8 DEF AnswerField
  <2>2. SumOver({i}, x, N) <= sum
    <3>1. {i} \subseteq I
      BY <1>2
    <3>2. \A j \in {i} : x[j] \in Int /\ x[j] <= x[j]
      BY <1>2, <1>5
    <3> HIDE DEF x, I, N
    <3> QED BY <1>3, <1>5, <3>1, <3>2, SumCompares
  <2>3. SumOver({i}, x, N) = x[i] /\ x[i] \in Nat
    <3> HIDE DEF x, I, N
    <3> QED BY <1>2, <1>3, <1>5, SumOfOne
  <2>4. 1 <= sum
    <3> HIDE DEF x, d, I, N, sum
    <3> QED BY <1>3, <1>4, <1>6, <1>8, <2>2, <2>3
  <2>5. a.size * 1 <= a.size * sum /\ a.size * sum \in Int
    <3> HIDE DEF sum
    <3> QED BY <1>1, <1>6, <2>4, ProductsAscend
  <2>6. 1 <= a.size * sum
    <3> DEFINE q == a.size * sum
    <3>1. a.size * 1 <= q /\ q \in Int
      BY <2>5
    <3> HIDE DEF q
    <3>2. 1 <= q
      BY <1>1, <3>1
    <3> QED BY <3>2 DEF q
  <2>7. a.level <= d[i] /\ i \in I
    BY <1>2, <1>3, <1>4, <1>8
  <2>8. AnswerField(answer, doc, a, i).fields = 1 /\ AnswerField(answer, doc, a, i).levels = {a.level}
    BY <2>1
  <2>9. AnswerField(answer, doc, a, i).fields <= a.size * sum
    <3> HIDE DEF sum
    <3> QED BY <2>6, <2>8
  <2>10. \A n \in AnswerField(answer, doc, a, i).levels : \E j \in I : n <= d[j]
    <3> HIDE DEF d, I
    <3> QED BY <2>7, <2>8
  <2> QED BY <2>8, <2>9, <2>10
<1>9. CASE Composite(doc, o, i) /\ ~IsMeta(doc.nodes[i].name)
  <2> DEFINE c == Child(doc, o, i)
             b == Below(doc, a, i)
             field == Schema[o.type][doc.nodes[i].name]
             arg == doc.nodes[i].arg
             coerced == Coerced(field, arg)
             length == Length(field, a.size)
             multiplier == FieldMultiplier(doc, o, i)
             g == [j \in I |-> ChildCost(doc, o, a.level, j)]
             sub == SumOver(I, g, N)
             least == SumOver(c.starts, LeastCosts(doc, c, a.level + 1), N)
             y == [j \in I |-> 1 + multiplier * g[j]]
  <2>1. AnswerField(answer, doc, a, i) =
          [fields |-> 1 + length * answer[b].fields, levels |-> {a.level} \cup answer[b].levels]
    BY <1>9 DEF AnswerField
  <2>2. b = [object |-> c, level |-> a.level + 1, size |-> coerced]
    BY DEF Below
  <2>3. Sensible(o.type, field) /\ IsArgument(arg)
    BY <1>1, <1>2, <1>9, CoercedType DEF Composite
  <2>4. /\ coerced \in Nat /\ coerced >= 1 /\ length \in Nat
        /\ length * coerced <= a.size * multiplier
    <3>1. CheckRange(field, arg)
      BY <1>9
    <3> HIDE DEF field, arg
    <3> QED BY <1>1, <2>3, <3>1, LengthIsCounted DEF field, arg, FieldMultiplier
  <2>5. multiplier \in Nat
    BY <1>1, <1>2, <1>9, ChildLeast
  <2>6. /\ \A j \in I : /\ j \in Fields(doc, o) /\ Composite(doc, o, j)
                        /\ ChildCost(doc, o, a.level, j) \in Nat
                        /\ FieldMultiplier(doc, o, j) = multiplier
                        /\ LeastCosts(doc, c, a.level + 1)[doc.nodes[j].sub] = ChildCost(doc, o, a.level, j)
                        /\ LeastDepth(doc, c.type, doc.nodes[j].sub, a.level + 1) = ChildDepth(doc, o, a.level, j)
        /\ least <= sub
    BY <1>1, <1>2, <1>9, SubsCost
  <2>7. \A j \in I : g[j] \in Nat /\ g[j] = ChildCost(doc, o, a.level, j)
    BY <2>6
  <2>8. sub \in Nat
    <3> HIDE DEF g, I, N
    <3> QED BY <1>3, <2>7, SumIsNatural
  <2>9. least \in Nat
    <3>1. \A s \in c.starts : LeastCosts(doc, c, a.level + 1)[s] \in Nat
      BY <2>6 DEF Child
    <3> HIDE DEF c, N
    <3> QED BY <1>3, <3>1, SumIsNatural
  <2>10. 1 + multiplier * sub <= sum
    <3>1. I \cap (1 .. N) # {}
      BY <1>2, <1>3
    <3>2. 1 + multiplier * sub <= SumOver(I, y, N)
      <4> HIDE DEF g, I, N, multiplier
      <4> QED BY <1>3, <2>5, <2>7, <3>1, SumOfMultiples
    <3>3. \A j \in I : y[j] = x[j]
      BY <1>3, <2>6, <2>7 DEF Costing
    <3>4. \A j \in I : y[j] \in Int /\ y[j] <= x[j]
      BY <1>5, <3>3
    <3>5. SumOver(I, y, N) <= sum
      <4> HIDE DEF x, y, I, N
      <4> QED BY <1>3, <1>5, <3>4, SumCompares
    <3>6. multiplier * sub \in Int
      <4> HIDE DEF multiplier, sub
      <4> QED BY <2>5, <2>8, ProductsAscend
    <3>7. SumOver(I, y, N) \in Nat
      <4>1. \A j \in I : y[j] \in Nat
        BY <1>5, <3>3
      <4> HIDE DEF y, I, N
      <4> QED BY <1>3, <4>1, SumIsNatural
    <3> DEFINE p == multiplier * sub
               q == SumOver(I, y, N)
    <3> HIDE DEF p, q, sum
    <3>8. 1 + p <= q /\ q <= sum /\ p \in Int /\ q \in Nat
      BY <3>2, <3>5, <3>6, <3>7 DEF p, q, sum
    <3>9. 1 + p <= sum
      BY <1>6, <3>8
    <3> QED BY <3>9 DEF p
  <2>11. answer[b].fields \in Int /\ answer[b].fields <= coerced * least
    <3>1. answer[b].fields \in Int /\ Bounded(answer, doc, b)
      BY <1>9
    <3>2. answer[b].fields
            <= b.size * SumOver(b.object.starts, LeastCosts(doc, b.object, b.level), Len(doc.nodes))
      BY <3>1 DEF Bounded
    <3>3. b.size = coerced /\ b.object = c /\ b.level = a.level + 1
      <4> HIDE DEF b, c, coerced
      <4> QED BY <2>2
    <3> HIDE DEF b, c, coerced
    <3> QED BY <3>1, <3>2, <3>3
  <2>12. 1 + length * answer[b].fields <= a.size * sum
    <3> HIDE DEF length, b, sum, coerced, least, sub, multiplier
    <3> QED BY <1>1, <1>6, <2>4, <2>5, <2>6, <2>8, <2>9, <2>10, <2>11, KeyCost
  <2>13. 1 + length * answer[b].fields \in Int
    <3> DEFINE held == answer[b].fields
               p == length * held
    <3>1. held \in Int /\ held <= held /\ length \in Nat
      <4> HIDE DEF length, b
      <4>1. answer[b].fields \in Int /\ length \in Nat
        BY <2>4, <2>11
      <4> QED BY <4>1
    <3> HIDE DEF length, held
    <3>2. p \in Int
      BY <3>1, ProductsAscend
    <3> HIDE DEF p
    <3>3. 1 + p \in Int
      BY <3>2
    <3> QED BY <3>3 DEF p, held
  <2>14. ASSUME NEW n \in answer[b].levels PROVE \E j \in I : n <= d[j]
    <3>1. Bounded(answer, doc, b) /\ b.object = c /\ b.level = a.level + 1 /\ n \in Nat
      <4>1. Bounded(answer, doc, b) /\ answer[b].levels \subseteq Nat
        BY <1>9
      <4> HIDE DEF b, c
      <4> QED BY <2>2, <2>14, <4>1
    <3>2. PICK s \in c.starts : n <= LeastDepth(doc, c.type, s, a.level + 1)
      <4> HIDE DEF b, c
      <4> QED BY <3>1, <2>14 DEF Bounded
    <3>3. PICK j \in I : s = doc.nodes[j].sub
      BY <3>2 DEF Child
    <3>4. n <= ChildDepth(doc, o, a.level, j)
      BY <2>6, <3>2, <3>3
    <3>5. d[j] = Deeper(a.level, ChildDepth(doc, o, a.level, j))
      BY <1>3, <2>6 DEF Deepening
    <3>6. ChildDepth(doc, o, a.level, j) \in Nat
      BY <1>1, <2>6, ChildLeast
    <3>7. j \in I /\ d[j] \in Nat /\ a.level \in Nat
      BY <1>1, <1>3, <1>4
    <3>8. n <= d[j]
      <4> HIDE DEF d
      <4>1. ChildDepth(doc, o, a.level, j) = d[j] \/ (ChildDepth(doc, o, a.level, j) <= a.level /\ d[j] = a.level)
        BY <1>1, <3>5, <3>6, <3>7 DEF Deeper
      <4> QED BY <3>1, <3>4, <3>6, <3>7, <4>1
    <3> QED BY <3>7, <3>8
  <2>15. /\ AnswerField(answer, doc, a, i).fields = 1 + length * answer[b].fields
         /\ AnswerField(answer, doc, a, i).levels = {a.level} \cup answer[b].levels
    <3> HIDE DEF length, b
    <3> QED BY <2>1
  <2>16. AnswerField(answer, doc, a, i).fields \in Int /\ AnswerField(answer, doc, a, i).fields <= a.size * sum
    <3> HIDE DEF length, b, sum
    <3> QED BY <2>12, <2>13, <2>15
  <2>17. \A n \in AnswerField(answer, doc, a, i).levels : \E j \in I : n <= d[j]
    <3>1. a.level <= d[i]
      BY <1>3, <1>4, <1>9
    <3> HIDE DEF d, I, b
    <3> QED BY <1>2, <2>14, <2>15, <3>1
  <2> QED BY <2>16, <2>17
<1> QED BY <1>7, <1>8, <1>9

\* Key by key, an object's part of the answer is no more than the walk made of its sets.
LEMMA ObjectIsBounded ==
  ASSUME NEW doc, IsDocument(doc), NEW answer, NEW a \in Answers(doc),
         answer[a] = AnswerObject(answer, doc, a), answer[a].levels \subseteq Nat, ObjectRules(doc, a.object), a.size >= 1,
         \A i \in Fields(doc, a.object) :
           \/ IsMeta(doc.nodes[i].name)
           \/ CheckRange(Schema[a.object.type][doc.nodes[i].name], doc.nodes[i].arg),
         \A i \in Keys(doc, a.object) : Composite(doc, a.object, i) =>
           /\ answer[Below(doc, a, i)].fields \in Int
           /\ answer[Below(doc, a, i)].levels \subseteq Nat
           /\ Bounded(answer, doc, Below(doc, a, i))
  PROVE  Bounded(answer, doc, a)
<1> DEFINE o == a.object
           N == Len(doc.nodes)
           keys == Keys(doc, o)
           x == Costing(doc, o, a.level)
           d == Deepening(doc, o, a.level)
           One == [i \in keys |-> AnswerField(answer, doc, a, i)]
           g == [i \in keys |-> One[i].fields]
           G == [i \in keys |-> SameKey(doc, o, i)]
           y == [j \in 1 .. N |-> a.size * x[j]]
           fields == Fields(doc, o)
           starts == SumOver(o.starts, LeastCosts(doc, o, a.level), N)
<1>1. o \in Objects(doc) /\ a.level \in Nat /\ a.size \in Nat /\ N \in Nat
  BY DocumentLength DEF Answers
<1>2. /\ keys \subseteq fields /\ fields \subseteq 1 .. N
      /\ Apart(keys, G)
      /\ \A i \in keys : i \in SameKey(doc, o, i) /\ SameKey(doc, o, i) \subseteq fields
  BY <1>1, KeysAre, FieldsAre
<1>3. x \in [1 .. N -> Nat]
  BY <1>1, CostingType
<1>4. \A j \in 1 .. N : x[j] \in Nat /\ y[j] = a.size * x[j] /\ y[j] \in Nat
  <2>1. \A p, q \in Nat : p * q \in Nat
    OBVIOUS
  <2>2. \A j \in 1 .. N : x[j] \in Nat /\ y[j] = a.size * x[j]
    BY <1>3
  <2> HIDE DEF x, y, N
  <2> QED BY <1>1, <2>1, <2>2
<1>5. ASSUME NEW i \in keys
      PROVE  /\ g[i] \in Int
             /\ g[i] <= a.size * SumOver(G[i], x, N)
             /\ \A n \in One[i].levels : \E j \in G[i] : n <= d[j]
  <2>1. \/ IsMeta(doc.nodes[i].name)
        \/ CheckRange(Schema[a.object.type][doc.nodes[i].name], doc.nodes[i].arg)
    BY <1>2
  <2>2. /\ AnswerField(answer, doc, a, i).fields \in Int
        /\ AnswerField(answer, doc, a, i).fields <= a.size * SumOver(SameKey(doc, o, i), x, N)
        /\ \A n \in AnswerField(answer, doc, a, i).levels : \E j \in SameKey(doc, o, i) : n <= d[j]
    BY <2>1, KeyIsBounded
  <2>3. g[i] = AnswerField(answer, doc, a, i).fields /\ One[i] = AnswerField(answer, doc, a, i)
        /\ G[i] = SameKey(doc, o, i)
    OBVIOUS
  <2> HIDE DEF g, One, G, x, d, N
  <2> QED BY <2>2, <2>3
<1>6. ASSUME NEW A \in SUBSET fields
      PROVE  SumOver(A, y, N) = a.size * SumOver(A, x, N)
  <2>1. \A j \in A : x[j] \in Nat /\ y[j] = a.size * x[j]
    BY <1>2, <1>4
  <2> HIDE DEF x, y, N, fields
  <2> QED BY <1>1, <2>1, SumScales
<1>7. \A i \in keys : /\ \A j \in G[i] : y[j] \in Nat
                      /\ g[i] \in Int
                      /\ g[i] <= SumOver(G[i], y, N)
  <2>1. ASSUME NEW i \in keys PROVE G[i] \in SUBSET fields
    BY <1>2
  <2> HIDE DEF G, g, x, y, N, fields, keys, One, d
  <2> QED BY <1>2, <1>4, <1>5, <1>6, <2>1
<1>8. SumOver(keys, g, N) <= SumOver(Gathered(keys, G, N), y, N)
  <2> HIDE DEF G, g, y, N, keys
  <2> QED BY <1>1, <1>2, <1>7, SumOfApart
<1>9. Gathered(keys, G, N) \subseteq fields
  <2>1. \A i \in keys : G[i] \subseteq fields
    BY <1>2
  <2> HIDE DEF G, fields, keys, N
  <2> QED BY <2>1 DEF Gathered
<1>10. SumOver(Gathered(keys, G, N), y, N) <= SumOver(fields, y, N)
  <2>1. \A j \in fields : y[j] \in Nat
    BY <1>2, <1>4
  <2>2. \A j \in Gathered(keys, G, N) : y[j] \in Int /\ y[j] <= y[j]
    <3> HIDE DEF y, fields, keys, G, N
    <3> QED BY <1>9, <2>1
  <2> HIDE DEF y, fields, keys, G, N
  <2> QED BY <1>1, <1>9, <2>1, <2>2, SumCompares
<1>11. SumOver(fields, y, N) = a.size * SumOver(fields, x, N)
  BY <1>6
<1>12. /\ SumOver(fields, x, N) <= starts
       /\ \A j \in fields : \E s \in o.starts : d[j] <= LeastDepth(doc, o.type, s, a.level)
  BY <1>1, ObjectCost
<1>13. starts \in Nat
  <2>1. \A s \in o.starts : LeastCosts(doc, o, a.level)[s] \in Nat
    BY <1>1, SelectedCost DEF LeastCosts
  <2> HIDE DEF o, N
  <2> QED BY <1>1, <2>1, SumIsNatural
<1>14. SumOver(fields, x, N) \in Nat
  <2>1. \A j \in fields : x[j] \in Nat
    BY <1>2, <1>4
  <2> HIDE DEF fields, x, N
  <2> QED BY <1>1, <2>1, SumIsNatural
<1>15. a.size * SumOver(fields, x, N) <= a.size * starts /\ a.size * starts \in Int
  <2> HIDE DEF fields, x, N, starts
  <2> QED BY <1>1, <1>12, <1>13, <1>14, ProductsAscend
<1>16. /\ answer[a].fields = SumOver(keys, g, N)
       /\ answer[a].levels = UNION {One[i].levels : i \in keys}
  BY DEF AnswerObject
<1>17. /\ SumOver(keys, g, N) \in Int
       /\ SumOver(Gathered(keys, G, N), y, N) \in Int
       /\ SumOver(fields, y, N) \in Int
  <2>1. \A i \in keys : g[i] \in Int
    BY <1>5
  <2>2. \A j \in fields : y[j] \in Int
    <3> HIDE DEF y, fields, N
    <3> QED BY <1>2, <1>4
  <2>3. \A j \in Gathered(keys, G, N) : y[j] \in Int
    <3> HIDE DEF y, fields, keys, G, N
    <3> QED BY <1>9, <2>2
  <2> HIDE DEF y, fields, keys, G, N, g
  <2> QED BY <1>1, <2>1, <2>2, <2>3, SumStep
<1>18. answer[a].fields <= a.size * starts
  <2> DEFINE k == SumOver(keys, g, N)
             m == SumOver(Gathered(keys, G, N), y, N)
             p == SumOver(fields, y, N)
             q == a.size * starts
  <2>1. /\ k \in Int /\ m \in Int /\ p \in Int /\ q \in Int
        /\ k <= m /\ m <= p /\ p <= q
    <3> HIDE DEF y, fields, keys, G, N, g, starts, x
    <3> QED BY <1>8, <1>10, <1>11, <1>15, <1>17
  <2> HIDE DEF k, m, p, q
  <2>2. k <= q
    BY <2>1
  <2> QED BY <1>16, <2>2 DEF k, q
<1>19. ASSUME NEW n \in answer[a].levels
       PROVE  \E s \in o.starts : n <= LeastDepth(doc, o.type, s, a.level)
  <2>1. PICK i \in keys : n \in One[i].levels
    <3> HIDE DEF One, keys
    <3> QED BY <1>16
  <2>2. PICK j \in G[i] : n <= d[j]
    <3> HIDE DEF One, keys, G, d, g, x, N
    <3> QED BY <1>5, <2>1
  <2>3. j \in fields
    BY <1>2, <2>2
  <2>4. PICK s \in o.starts : d[j] <= LeastDepth(doc, o.type, s, a.level)
    <3> HIDE DEF o, d, fields, x, starts, N
    <3> QED BY <1>12, <2>3
  <2>5. d[j] \in Nat
    <3>1. j \in 1 .. N
      BY <1>2, <2>3
    <3>2. d \in [1 .. N -> Nat]
      BY <1>1, CostingType
    <3> HIDE DEF d, N
    <3> QED BY <3>1, <3>2
  <2>6. LeastDepth(doc, o.type, s, a.level) \in Nat
    BY <1>1, <2>4, SelectedCost
  <2>7. n \in Nat
    OBVIOUS
  <2>8. n <= LeastDepth(doc, o.type, s, a.level)
    <3> HIDE DEF d, o
    <3> QED BY <2>2, <2>4, <2>5, <2>6, <2>7
  <2> QED BY <2>4, <2>8
<1> QED BY <1>18, <1>19 DEF Bounded

\* What the rules and the resolvers leave of an answer is no more than the walk made of
\* its document: its fields, and the level of each.
LEMMA AnswerIsBounded ==
  ASSUME NEW doc, IsDocument(doc), StandardRules(doc), SizesInRange(doc)
  PROVE  /\ AnswerTo(doc).fields <= WalkOf(doc).cost
         /\ AnswerTo(doc).fields \in Int /\ WalkOf(doc).cost \in Nat
         /\ \A n \in AnswerTo(doc).levels : n <= WalkOf(doc).deepest
         /\ AnswerTo(doc).levels \subseteq Nat /\ WalkOf(doc).deepest \in Nat
<1>1. PICK answer :
        /\ AnswerTo(doc) = answer[[object |-> Root(doc), level |-> 0, size |-> 1]]
        /\ \A a \in Answers(doc) : /\ answer[a] = AnswerObject(answer, doc, a)
                                   /\ answer[a].fields \in Int
                                   /\ answer[a].levels \subseteq Nat
  BY AnswerUnfolds
<1> DEFINE Asked(a) == a.object \in Reached(doc) /\ a.size >= 1
           m == [a \in Answers(doc) |-> Rank[a.object.type]]
           T == {a \in Answers(doc) : Asked(a) => Bounded(answer, doc, a)}
<1>2. ASSUME NEW a \in Answers(doc), Asked(a), \A b \in Answers(doc) : m[b] < m[a] => b \in T
      PROVE  Bounded(answer, doc, a)
  <2>1. a.object \in Objects(doc) /\ ObjectRules(doc, a.object)
    BY <1>2 DEF Answers, StandardRules
  <2>2. \A i \in Fields(doc, a.object) :
          \/ IsMeta(doc.nodes[i].name)
          \/ CheckRange(Schema[a.object.type][doc.nodes[i].name], doc.nodes[i].arg)
    BY <1>2 DEF SizesInRange
  <2>3. ASSUME NEW i \in Keys(doc, a.object), Composite(doc, a.object, i)
        PROVE  /\ answer[Below(doc, a, i)].fields \in Int
               /\ answer[Below(doc, a, i)].levels \subseteq Nat
               /\ Bounded(answer, doc, Below(doc, a, i))
    <3> DEFINE b == Below(doc, a, i)
    <3>1. i \in Fields(doc, a.object)
      BY <2>1, KeysAre
    <3>2. b \in Answers(doc) /\ Rank[b.object.type] < Rank[a.object.type]
      BY <2>3, <3>1, BelowIs
    <3>3. b \in T
      <4>1. m[b] < m[a]
        BY <3>2
      <4> HIDE DEF b, m, T
      <4> QED BY <1>2, <3>2, <4>1
    <3>4. b.object = Child(doc, a.object, i)
          /\ b.size = Coerced(Schema[a.object.type][doc.nodes[i].name], doc.nodes[i].arg)
      BY DEF Below
    <3>5. Child(doc, a.object, i) \in Reached(doc)
      BY <1>2, <2>3, <3>1, ReachedIsClosed
    <3>6. /\ Sensible(a.object.type, Schema[a.object.type][doc.nodes[i].name])
          /\ IsArgument(doc.nodes[i].arg)
      BY <2>1, <2>3, <3>1, CoercedType DEF Composite
    <3>7. Coerced(Schema[a.object.type][doc.nodes[i].name], doc.nodes[i].arg) >= 1
      <4>1. 1 \in Nat /\ 1 >= 1
        OBVIOUS
      <4>2. ~IsMeta(doc.nodes[i].name)
        BY <2>1, <2>3, MetaIsNotOfSchema DEF Composite, Objects
      <4> QED BY <2>2, <3>1, <3>6, <4>1, <4>2, LengthIsCounted
    <3>8. Asked(b)
      <4> HIDE DEF b
      <4> QED BY <3>4, <3>5, <3>7
    <3>9. Bounded(answer, doc, b)
      <4> HIDE DEF b, Asked
      <4> QED BY <3>3, <3>8
    <3> QED BY <1>1, <3>2, <3>9
  <2> QED BY <1>1, <1>2, <2>1, <2>2, <2>3, ObjectIsBounded
<1>3. Answers(doc) \subseteq T
  <2>1. m \in [Answers(doc) -> Nat]
    BY RankType DEF Answers, Objects
  <2>2. \A a \in Answers(doc) : (\A b \in Answers(doc) : m[b] < m[a] => b \in T) => a \in T
    <3> HIDE DEF m, Asked
    <3> QED BY <1>2
  <2> HIDE DEF m, T
  <2> QED BY <2>1, <2>2, MeasureInduction
<1> DEFINE root == [object |-> Root(doc), level |-> 0, size |-> 1]
           first == Visit(doc.start, "Query", 0)
           N == Len(doc.nodes)
<1>4. Root(doc) = [starts |-> {doc.start}, type |-> "Query"] /\ "Query" \in ObjectTypes /\ doc.start \in Ids(doc)
  BY TypesAre DEF Root, IsDocument
<1>5. root \in Answers(doc)
  BY <1>4 DEF Answers, Objects
<1>6. Bounded(answer, doc, root)
  BY <1>3, <1>5, ReachedIsClosed
<1>7. first \in Entries(doc, "Query", doc.start, 0) /\ first \in Visits(doc)
  BY <1>4 DEF Entries, Visit, Visits, Fresh
<1>8. WalkOf(doc).cost \in Nat /\ WalkOf(doc).deepest \in Nat
  BY <1>7, WalkUnfolds DEF WalkOf
<1>9. /\ LeastCost(doc, "Query", doc.start, 0) <= WalkOf(doc).cost
      /\ LeastDepth(doc, "Query", doc.start, 0) <= WalkOf(doc).deepest
      /\ LeastCost(doc, "Query", doc.start, 0) \in Nat
      /\ LeastDepth(doc, "Query", doc.start, 0) \in Nat
  BY <1>4, <1>7, LeastOfEntries DEF WalkOf
<1>10. AnswerTo(doc) = answer[root] /\ answer[root].fields \in Int /\ answer[root].levels \subseteq Nat
  BY <1>1, <1>5
<1>11. AnswerTo(doc).fields <= WalkOf(doc).cost
  <2> DEFINE x == LeastCosts(doc, Root(doc), 0)
             sum == SumOver({doc.start}, x, N)
  <2>1. x[doc.start] = LeastCost(doc, "Query", doc.start, 0)
    BY <1>4 DEF LeastCosts
  <2>2. answer[root].fields <= 1 * SumOver(Root(doc).starts, LeastCosts(doc, Root(doc), 0), N)
    BY <1>6 DEF Bounded
  <2>3. answer[root].fields <= 1 * sum
    BY <1>4, <2>2
  <2>4. sum <= x[doc.start] /\ sum \in Nat
    <3>1. x[doc.start] \in Nat /\ N \in Nat
      BY <1>9, <2>1, DocumentLength
    <3> HIDE DEF x, N
    <3> QED BY <3>1, SumOfOne, SumIsNatural
  <2> HIDE DEF sum, x, root
  <2> QED BY <1>8, <1>9, <1>10, <2>1, <2>3, <2>4
<1>12. ASSUME NEW n \in AnswerTo(doc).levels PROVE n <= WalkOf(doc).deepest
  <2>1. \A k \in answer[root].levels : \E s \in Root(doc).starts :
          k <= LeastDepth(doc, Root(doc).type, s, 0)
    BY <1>6 DEF Bounded
  <2>2. n <= LeastDepth(doc, "Query", doc.start, 0) /\ n \in Nat
    <3> HIDE DEF root
    <3> QED BY <1>4, <1>10, <2>1
  <2> QED BY <1>8, <1>9, <2>2
<1> HIDE DEF root
<1> QED BY <1>8, <1>10, <1>11, <1>12

-----------------------------------------------------------------------------
(* Admission.                                                              *)

\* What a request has behind it at each stage.
RequestInv ==
  /\ stage \in {"idle", "sent", "valid", "rejected", "refused", "answered"}
  /\ stage = "idle" => asked = Nothing
  /\ stage # "idle" => asked # Nothing /\ document \in Documents
  /\ stage \in {"valid", "refused", "answered"} => StandardRules(document) /\ WithinLimits(document)
  /\ stage = "answered" => SizesInRange(document)
  /\ stage = "refused" => ~SizesInRange(document) \/ ~DateRange(asked.window)

\* A request is answered only past every rule of the document and every check of its
\* fields, and refused only at one of those checks (Limits, check_range, date_range).
THEOREM RequestInvariant == RequestSpec => []RequestInv
<1>1. RequestInit => RequestInv
  BY DEF RequestInit, FormInit, RequestInv
<1>2. RequestInv /\ [RequestNext]_requestVars => RequestInv'
  <2> SUFFICES ASSUME RequestInv, [RequestNext]_requestVars PROVE RequestInv'
    OBVIOUS
  <2> USE DEF RequestInv
  <2>1. CASE ReaderStep
    <3>1. UNCHANGED <<asked, document, stage>>
      BY <2>1 DEF ReaderStep, Tick, Choose, ChoosePreset, ChooseCustom, ChangeDates
    <3> QED BY <3>1
  <2>2. CASE Submit
    <3>1. asked' # Nothing
      BY <2>2 DEF Submit, Ask, Nothing
    <3> QED BY <2>2, <3>1 DEF Submit
  <2>3. CASE Validate
    BY <2>3 DEF Validate, formVars
  <2>4. CASE Resolve
    BY <2>4 DEF Resolve, formVars
  <2>5. CASE Finish
    BY <2>5 DEF Finish, Settle
  <2>6. CASE UNCHANGED requestVars
    BY <2>6 DEF requestVars, formVars
  <2> QED BY <2>1, <2>2, <2>3, <2>4, <2>5, <2>6 DEF RequestNext
<1> QED BY <1>1, <1>2, PTL DEF RequestSpec

\* No document that is answered returns more of the schema's own fields, or deeper ones,
\* than its cost and its depth said before it ran, and so than the limits; introspection,
\* which the walk passes over, is answered besides (_Walk, LimitsRule).
THEOREM AcceptedIsBoundedHolds == RequestSpec => []AcceptedIsBounded
<1>1. RequestInv => AcceptedIsBounded
  <2> SUFFICES ASSUME RequestInv, stage = "answered"
               PROVE  /\ AnswerTo(document).fields <= WalkOf(document).cost
                      /\ AnswerTo(document).fields <= MaxCost
                      /\ \A level \in AnswerTo(document).levels : level <= MaxDepth
    BY DEF AcceptedIsBounded
  <2>1. IsDocument(document) /\ StandardRules(document) /\ SizesInRange(document)
    BY DocumentsAssumption DEF RequestInv
  <2>2. WalkOf(document).deepest <= MaxDepth /\ WalkOf(document).cost <= MaxCost
    BY DEF RequestInv, WithinLimits
  <2>3. /\ AnswerTo(document).fields <= WalkOf(document).cost
        /\ AnswerTo(document).fields \in Int /\ WalkOf(document).cost \in Nat
        /\ \A n \in AnswerTo(document).levels : n <= WalkOf(document).deepest
        /\ AnswerTo(document).levels \subseteq Nat /\ WalkOf(document).deepest \in Nat
    BY <2>1, AnswerIsBounded
  <2>4. MaxDepth \in Nat /\ MaxCost \in Nat
    BY LimitsAssumption
  <2>5. AnswerTo(document).fields <= MaxCost
    BY <2>2, <2>3, <2>4
  <2>6. ASSUME NEW level \in AnswerTo(document).levels PROVE level <= MaxDepth
    BY <2>2, <2>3, <2>4
  <2> QED BY <2>3, <2>5, <2>6
<1> QED BY <1>1, RequestInvariant, PTL

\* To the form a request is asked and settled, whatever becomes of it at the API: every
\* step of the composition is one of the form's or leaves it alone.
THEOREM RequestKeepsForm == RequestSpec => FormSpec
<1>1. RequestInit => FormInit
  BY DEF RequestInit
<1>2. [RequestNext]_requestVars => [FormNext]_formVars
  BY DEF RequestNext, ReaderStep, Submit, Validate, Resolve, Finish, FormNext, requestVars
<1> QED BY <1>1, <1>2, PTL DEF RequestSpec, FormSpec

\* The windows of a request under way are those of the form, the API in between or not.
THEOREM RequestsAreServed == RequestSpec => [](AskedWholeDays /\ AskedIsServed /\ EveryCallHasABar)
BY RequestKeepsForm, AskedWholeDaysHolds, AskedIsServedHolds, EveryCallHasABarHolds, PTL

\* A valid document is refused for a size it asks for and never for the dates in the form
\* (check_range and date_range against rangeProblem).
THEOREM RefusedForItsSizes == RequestSpec => [](stage = "refused" => ~SizesInRange(document))
<1>1. RequestInv /\ AskedIsServed => (stage = "refused" => ~SizesInRange(document))
  BY DEF RequestInv, AskedIsServed
<1> QED BY <1>1, RequestInvariant, RequestKeepsForm, AskedIsServedHolds, PTL


-----------------------------------------------------------------------------
(* LiveUpdates: the invariant.                                             *)

\* Nothing shows, holds or announces a version that is not committed.
AtMostCommitted ==
  /\ published <= version /\ current <= version /\ told <= version /\ seen <= version
  /\ anchor <= version /\ anchorGot <= version /\ lastVersion <= version
  /\ view <= version /\ got <= version
  /\ \A i \in 1 .. Len(wire) : wire[i] <= version

\* An open stream delivers what its handler sent, in order.
StreamInOrder ==
  linked => seen = IF wire = <<>> THEN told ELSE wire[Len(wire)]

\* The last event received has been acted upon, once one was.
LastIsTold == told # None /\ lastVersion # None => told = lastVersion

\* An answer on its way is a version, and not an older one than is shown; the page is mounted
\* once the anchor's request is over, and only then paused.
AnswersSound ==
  /\ anchorAsk = "read" => anchorGot \in Versions
  /\ anchorAsk = "idle" => Mounted
  /\ fetch = "read" => view <= got
  /\ paused => Mounted

\* The views have what was last acted upon, or a request for it is under way, or the anchor
\* that will move the window is asked for.
ViewsFollow ==
  Sliding /\ Mounted /\ ~paused /\ lastVersion # None =>
    \/ view >= lastVersion
    \/ fetch = "asked"
    \/ fetch = "read" /\ got >= lastVersion
    \/ anchorAsk # "idle" /\ ~live

PageInv ==
  /\ TypeOK
  /\ AtMostCommitted /\ StreamInOrder /\ LastIsTold /\ AnswersSound /\ ViewsFollow

-----------------------------------------------------------------------------
(* LiveUpdates: each step.                                                 *)

LEMMA VersionsAscend ==
  /\ Versions \subseteq Int /\ None \in Int /\ None \notin Versions
  /\ \A v \in Versions : None <= v
BY FeedAssumption DEF Versions, None

\* The feed's steps, and the database's.
LEMMA FeedKeeps ==
  ASSUME PageInv, Commit \/ ReadFails \/ WatchStep, UNCHANGED <<link, page>>
  PROVE  PageInv'
<1> USE VersionsAscend DEF PageInv, link, page
<1>1. /\ FeedTypeOK' /\ version <= version'
      /\ published' \in {published, current} /\ current' \in {current, version}
  <2>1. CASE Commit
    BY <2>1, FeedAssumption DEF TypeOK, FeedTypeOK, Versions, Commit
  <2>2. CASE ReadFails
    BY <2>2, FeedAssumption DEF TypeOK, FeedTypeOK, ReadFails
  <2>3. CASE WatchStep
    BY <2>3 DEF TypeOK, FeedTypeOK, WatchStep, ReadVersion, ReadAgain, PublishVersion
  <2> QED
    BY <2>1, <2>2, <2>3
<1>2. TypeOK'
  BY <1>1 DEF TypeOK
<1>3. AtMostCommitted'
  <2>1. /\ version \in Int /\ version' \in Int
        /\ {told, seen, anchor, anchorGot, lastVersion, view, got, published, current} \subseteq Int
    BY <1>1 DEF TypeOK, FeedTypeOK
  <2>2. \A k \in 1 .. Len(wire) : wire[k] \in Int
    <3>1. \A k \in 1 .. Len(wire) : wire[k] \in Versions
      BY ElementOfSeq DEF TypeOK
    <3> QED
      BY <3>1
  <2> QED
    BY <1>1, <2>1, <2>2 DEF AtMostCommitted
<1>4. StreamInOrder' /\ LastIsTold' /\ AnswersSound' /\ ViewsFollow'
  BY DEF StreamInOrder, LastIsTold, AnswersSound, ViewsFollow, Mounted
<1> QED
  BY <1>2, <1>3, <1>4

\* The page's steps leave the stream alone.
LEMMA PageKeeps ==
  ASSUME PageInv,
         \/ Pause \/ Resume \/ ShowNew \/ ChangeFilters \/ AnchorRead \/ AnchorAnswer
         \/ ViewRead \/ ViewAnswer \/ RequestFails
  PROVE  PageInv'
<1> USE VersionsAscend DEF PageInv, TypeOK, FeedTypeOK, Steps
<1>1. UNCHANGED <<version, published, watch, current, link, lastVersion>>
  BY DEF feedVars, link, page, Pause, Resume, ShowNew, ChangeFilters, AnchorRead,
       AnchorAnswer, ViewRead, ViewAnswer, RequestFails
<1>2. StreamInOrder' /\ LastIsTold'
  BY <1>1 DEF StreamInOrder, LastIsTold, link
<1>3. gestures' \in 0 .. MaxGestures /\ upsets' \in 0 .. MaxUpsets
  <2>1. gestures' \in {gestures, gestures + 1} /\ (gestures' # gestures => gestures < MaxGestures)
    BY PageAssumption DEF Gesture, Pause, Resume, ShowNew, ChangeFilters, AnchorRead,
         AnchorAnswer, ViewRead, ViewAnswer, RequestFails
  <2>2. upsets' \in {upsets, upsets + 1} /\ (upsets' # upsets => upsets < MaxUpsets)
    BY FeedAssumption DEF feedVars, Pause, Resume, ShowNew, ChangeFilters, AnchorRead,
         AnchorAnswer, ViewRead, ViewAnswer, RequestFails
  <2> QED
    BY <2>1, <2>2, PageAssumption, FeedAssumption
<1> USE DEF feedVars, link, AtMostCommitted, AnswersSound, ViewsFollow, Mounted, Reanchor
<1>4. CASE Pause
  BY <1>1, <1>2, <1>3, <1>4 DEF Pause
<1>5. CASE Resume
  <2>1. TypeOK'
    BY <1>1, <1>3, <1>5 DEF Resume, MoveWindow, Refetch
  <2>2. AtMostCommitted'
    BY <1>1, <1>5 DEF Resume, MoveWindow, Refetch
  <2>3. AnswersSound' /\ ViewsFollow'
    BY <1>1, <1>5 DEF Resume, MoveWindow, Refetch
  <2> QED
    BY <1>2, <2>1, <2>2, <2>3
<1>6. CASE ShowNew
  <2>1. TypeOK'
    <3>1. view' \in Versions \cup {None} /\ fetch' \in Steps
      BY <1>6, FeedAssumption DEF ShowNew, Versions
    <3> QED
      BY <1>1, <1>3, <1>6, <3>1 DEF ShowNew
  <2>2. AtMostCommitted'
    BY <1>1, <1>6 DEF ShowNew
  <2>3. AnswersSound' /\ ViewsFollow'
    BY <1>1, <1>6 DEF ShowNew
  <2> QED
    BY <1>2, <2>1, <2>2, <2>3
<1>7. CASE ChangeFilters
  <2>1. TypeOK'
    BY <1>1, <1>3, <1>7 DEF ChangeFilters
  <2>2. AtMostCommitted'
    BY <1>1, <1>7 DEF ChangeFilters
  <2>3. AnswersSound' /\ ViewsFollow'
    BY <1>1, <1>7 DEF ChangeFilters
  <2> QED
    BY <1>2, <2>1, <2>2, <2>3
<1>8. CASE AnchorRead
  BY <1>1, <1>2, <1>3, <1>8 DEF AnchorRead
<1>9. CASE AnchorAnswer
  BY <1>1, <1>2, <1>3, <1>9 DEF AnchorAnswer
<1>10. CASE ViewRead
  BY <1>1, <1>2, <1>3, <1>10 DEF ViewRead
<1>11. CASE ViewAnswer
  <2>1. TypeOK'
    BY <1>1, <1>3, <1>11 DEF ViewAnswer
  <2>2. AtMostCommitted'
    BY <1>1, <1>11 DEF ViewAnswer
  <2>3. AnswersSound' /\ ViewsFollow'
    <3>1. {view, got, lastVersion} \subseteq Int
      OBVIOUS
    <3> QED
      BY <1>1, <1>11, <3>1 DEF ViewAnswer
  <2> QED
    BY <1>2, <2>1, <2>2, <2>3
<1>12. CASE RequestFails
  BY <1>1, <1>2, <1>3, <1>12 DEF RequestFails
<1> QED
  BY <1>4, <1>5, <1>6, <1>7, <1>8, <1>9, <1>10, <1>11, <1>12

\* The stream's steps leave the anchor and what the page holds of answers alone.
LEMMA StreamKeeps ==
  ASSUME PageInv, Opened \/ Send \/ Deliver \/ Interrupt \/ RestartApi
  PROVE  PageInv'
<1> USE VersionsAscend DEF PageInv
<1>1. /\ UNCHANGED <<version, anchor, anchorAsk, anchorGot, paused, view, got, gestures>>
      /\ upsets' \in 0 .. MaxUpsets
  BY FeedAssumption
     DEF TypeOK, FeedTypeOK, feedVars, page, Opened, Send, Deliver, StreamFails, Interrupt,
         RestartApi
\* A refresh asks the views of a sliding window again, unless the page is paused.
<1>2. ASSUME Refetch(paused, paused), MoveWindow
      PROVE  /\ fetch' \in {"asked", fetch}
             /\ Sliding /\ Mounted /\ ~paused => fetch' = "asked"
             /\ live' \in BOOLEAN /\ (~Mounted => live' = live)
  BY <1>2 DEF Refetch, MoveWindow, TypeOK
<1>3. CASE Opened
  <2>1. /\ UNCHANGED <<feedVars, told, lastVersion>>
        /\ linked' = TRUE /\ interrupted' = FALSE /\ seen' = told /\ wire' = <<>>
        /\ (Refetch(paused, paused) /\ MoveWindow) \/ UNCHANGED <<live, fetch>>
    BY <1>3 DEF Opened
  <2>2. TypeOK'
    <3>1. fetch' \in Steps /\ live' \in BOOLEAN
      BY <1>2, <2>1 DEF TypeOK, Steps
    <3>2. wire' \in Seq(Versions)
      BY <2>1
    <3> QED
      BY <1>1, <2>1, <3>1, <3>2 DEF TypeOK, FeedTypeOK, feedVars
  <2>3. AtMostCommitted' /\ StreamInOrder' /\ LastIsTold'
    BY <1>1, <2>1 DEF AtMostCommitted, StreamInOrder, LastIsTold, feedVars
  <2>4. AnswersSound' /\ ViewsFollow'
    BY <1>1, <1>2, <2>1 DEF AnswersSound, ViewsFollow, Mounted
  <2> QED
    BY <2>2, <2>3, <2>4
<1>4. CASE Send
  <2>1. /\ UNCHANGED <<feedVars, linked, interrupted, told, page>>
        /\ published \in Versions /\ seen' = published /\ wire' = Append(wire, published)
    BY <1>4 DEF Send, TypeOK, FeedTypeOK
  <2>2. /\ wire \in Seq(Versions)
        /\ wire' \in Seq(Versions) /\ Len(wire') = Len(wire) + 1 /\ wire' # <<>>
        /\ wire'[Len(wire')] = published
        /\ \A k \in 1 .. Len(wire) : wire'[k] = wire[k]
    BY <2>1, AppendProperties DEF TypeOK
  <2>3. TypeOK'
    BY <2>1, <2>2 DEF TypeOK, FeedTypeOK, feedVars, page
  <2>4. AtMostCommitted'
    <3>1. \A k \in 1 .. Len(wire') : wire'[k] <= version
      BY <2>1, <2>2 DEF AtMostCommitted
    <3> QED
      BY <2>1, <3>1 DEF AtMostCommitted, feedVars, page
  <2>5. StreamInOrder' /\ LastIsTold' /\ AnswersSound' /\ ViewsFollow'
    BY <2>1, <2>2
       DEF StreamInOrder, LastIsTold, AnswersSound, ViewsFollow, Mounted, feedVars, page
  <2> QED
    BY <2>3, <2>4, <2>5
<1>5. CASE Deliver
  <2> DEFINE first == Head(wire)
  <2>1. /\ wire \in Seq(Versions) /\ wire # <<>> /\ first = wire[1] /\ first \in Versions
        /\ Len(wire) \in Nat \ {0} /\ first <= version
    BY <1>5 DEF Deliver, TypeOK, AtMostCommitted
  <2>2. /\ wire' \in Seq(Versions) /\ Len(wire') = Len(wire) - 1
        /\ \A k \in 1 .. Len(wire') : wire'[k] = wire[k + 1]
        /\ wire' = <<>> <=> Len(wire) = 1
    <3>1. wire' = Tail(wire)
      BY <1>5 DEF Deliver
    <3>2. /\ wire' \in Seq(Versions) /\ Len(wire') = Len(wire) - 1
          /\ \A k \in 1 .. Len(wire') : wire'[k] = wire[k + 1]
      BY <2>1, <3>1, HeadTailProperties
    <3> QED
      BY <2>1, <3>2, EmptySeq
  <2>3. /\ linked /\ UNCHANGED <<feedVars, linked, interrupted, seen>> /\ told' = first
        /\ \/ first = Known /\ UNCHANGED <<lastVersion, live, fetch>>
           \/ first # Known /\ lastVersion' = first /\ Refetch(paused, paused) /\ MoveWindow
    BY <1>5 DEF Deliver
  <2> HIDE DEF first
  <2>4. TypeOK'
    BY <1>1, <1>2, <2>1, <2>2, <2>3 DEF TypeOK, FeedTypeOK, feedVars, Steps
  <2>5. AtMostCommitted'
    <3>1. \A k \in 1 .. Len(wire') : wire'[k] <= version
      BY <2>1, <2>2 DEF AtMostCommitted
    <3> QED
      BY <1>1, <2>1, <2>3, <3>1 DEF AtMostCommitted, feedVars
  <2>6. StreamInOrder'
    BY <2>1, <2>2, <2>3 DEF StreamInOrder
  <2>7. LastIsTold'
    BY <2>3 DEF LastIsTold, Known
  <2>8. AnswersSound' /\ ViewsFollow'
    BY <1>1, <1>2, <2>3 DEF AnswersSound, ViewsFollow, Mounted
  <2> QED
    BY <2>4, <2>5, <2>6, <2>7, <2>8
<1>6. CASE Interrupt \/ RestartApi
  <2>1. /\ linked' = FALSE /\ interrupted' = TRUE /\ seen' = None /\ wire' = <<>>
        /\ told' \in {told, None}
        /\ published' \in {published, None} /\ current' \in {current, None}
        /\ watch' \in {watch, "polling"}
        /\ UNCHANGED <<version, page>>
    BY <1>6 DEF Interrupt, RestartApi, StreamFails
  <2>2. TypeOK'
    <3>1. /\ {told', seen', published', current'} \subseteq Versions \cup {None}
          /\ wire' \in Seq(Versions)
          /\ watch' \in {"polling", "spacing", "publishing"}
      BY <2>1 DEF TypeOK, FeedTypeOK
    <3> QED
      BY <1>1, <2>1, <3>1 DEF TypeOK, FeedTypeOK, page
  <2>3. AtMostCommitted'
    <3>1. version \in Versions
      BY DEF TypeOK, FeedTypeOK
    <3> QED
      BY <2>1, <3>1 DEF AtMostCommitted, page
  <2>4. StreamInOrder' /\ LastIsTold' /\ AnswersSound' /\ ViewsFollow'
    BY <2>1 DEF StreamInOrder, LastIsTold, AnswersSound, ViewsFollow, Mounted, page
  <2> QED
    BY <2>2, <2>3, <2>4
<1> QED
  BY <1>3, <1>4, <1>5, <1>6

LEMMA PageInvKept ==
  ASSUME PageInv, [Next]_vars PROVE PageInv'
<1>1. CASE UNCHANGED vars
  BY <1>1
     DEF vars, feedVars, link, page, PageInv, TypeOK, FeedTypeOK, AtMostCommitted, StreamInOrder,
         LastIsTold, AnswersSound, ViewsFollow, Mounted
<1>2. CASE Next
  BY <1>2, FeedKeeps, PageKeeps, StreamKeeps DEF Next, FeedStep, PageStep, StreamStep
<1> QED
  BY <1>1, <1>2

-----------------------------------------------------------------------------
(* LiveUpdates: the theorems.                                              *)

\* The invariant holds throughout: what is shown, held or announced is committed, the stream
\* is in order, and a sliding window's views are never left behind what was acted upon.
THEOREM PageInvariant == SafeSpec => []PageInv
<1>1. Init => PageInv
  <2> SUFFICES ASSUME Init PROVE PageInv
    OBVIOUS
  <2>1. 0 \in Versions /\ 0 \in 0 .. MaxUpsets /\ 0 \in 0 .. MaxGestures
    BY FeedAssumption, PageAssumption DEF Versions
  <2>2. TypeOK
    <3>1. FeedTypeOK
      BY <2>1 DEF Init, FeedInit, FeedTypeOK
    <3>2. wire \in Seq(Versions)
      BY DEF Init
    <3> QED
      BY <2>1, <3>1, <3>2 DEF Init, TypeOK, Steps
  <2>3. AtMostCommitted /\ StreamInOrder /\ LastIsTold
    BY DEF Init, FeedInit, AtMostCommitted, StreamInOrder, LastIsTold, None
  <2>4. AnswersSound /\ ViewsFollow
    BY DEF Init, AnswersSound, ViewsFollow, Mounted
  <2> QED
    BY <2>2, <2>3, <2>4 DEF PageInv
<1>2. PageInv /\ [Next]_vars => PageInv'
  BY PageInvKept
<1> QED
  BY <1>1, <1>2, PTL DEF SafeSpec

\* The feed, the stream and the page keep their types (events.ts, use-data-version.ts).
THEOREM LiveUpdatesTypes == SafeSpec => []TypeOK
<1>1. PageInv => TypeOK
  BY DEF PageInv
<1> QED
  BY <1>1, PageInvariant, PTL

\* A page with a sliding window that has acted on an event never comes to rest on old data,
\* whatever was interrupted, restarted, paused or asked again (useDataVersion, refresh).
THEOREM QuietMeansCurrentHolds ==
  ASSUME Sliding PROVE SafeSpec => []QuietMeansCurrent
<1>1. PageInv => QuietMeansCurrent
  <2> SUFFICES ASSUME PageInv, Quiet, lastVersion # None, ~paused PROVE view = version
    BY DEF QuietMeansCurrent
  <2>1. told = version /\ told # None
    BY VersionsAscend DEF PageInv, TypeOK, FeedTypeOK, Quiet, StreamInOrder
  <2>2. lastVersion = version
    BY <2>1 DEF PageInv, LastIsTold
  <2>3. view >= version
    BY <2>2 DEF PageInv, AnswersSound, ViewsFollow, Quiet
  <2>4. view <= version /\ view \in Int /\ version \in Int
    BY VersionsAscend DEF PageInv, TypeOK, FeedTypeOK, AtMostCommitted
  <2> QED
    BY <2>3, <2>4
<1> QED
  BY <1>1, PageInvariant, PTL

\* A paused page's views stand still, whichever range it shows and whatever arrives, unless
\* the reader changes the filters (refresh, customWindow).
THEOREM PausedStandsStillHolds == SafeSpec => PausedStandsStill
<1> DEFINE Still == paused /\ paused' /\ fetch = "idle" /\ view' # None =>
                      view' = view /\ fetch' = "idle"
<1>1. PageInv /\ [Next]_vars => [Still]_vars
  <2> SUFFICES ASSUME PageInv, Next, paused, paused', fetch = "idle", view' # None
               PROVE  view' = view /\ fetch' = "idle"
    OBVIOUS
  <2>1. Mounted
    BY DEF PageInv, AnswersSound
  <2> QED
    BY <2>1
       DEF Next, FeedStep, PageStep, StreamStep, page, Pause, Resume, ShowNew, ChangeFilters,
           AnchorRead, AnchorAnswer, ViewRead, ViewAnswer, RequestFails, Opened, Send, Deliver,
           Interrupt, RestartApi, Refetch
<1> QED
  BY <1>1, PageInvariant, PTL DEF SafeSpec, PausedStandsStill

=============================================================================
