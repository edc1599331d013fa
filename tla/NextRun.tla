------------------------------- MODULE NextRun -------------------------------
(***************************************************************************)
(* computeNextRun (recurrence.service.ts): the day on which a recurring    *)
(* task is due again.  A day is a number counted from a Sunday, the first  *)
(* of a January (as in 2023); the time of day does not matter to the day   *)
(* that is found.                                                          *)
(* A run takes the next day from the moment it happens, not from the day   *)
(* it was due, so a late run moves the ones that follow.                   *)
(***************************************************************************)
EXTENDS Integers, FiniteSets, FiniteSetsExt

CONSTANTS
    MaxInterval,  \* bound: intervals of a rule
    MaxLate,      \* bound: days a run is late
    Horizon,      \* bound: days on which a run happens
    LeapYears     \* the years, counted from 0, with a 29th of February

ASSUME NextRunAssumption ==
    /\ MaxInterval \in Nat \ {0} /\ MaxLate \in Nat /\ Horizon \in Nat
    /\ LeapYears \subseteq Nat

VARIABLES
    schedule,  \* a validated TaskRecurrence
    ranOn      \* the day of the last run, or of the upsert

nextRunVars == <<schedule, ranOn>>

MonthLengths == <<31, 28, 31, 30, 31, 30, 31, 31, 30, 31, 30, 31>>
MonthLength(m) == IF m % 12 = 1 /\ m \div 12 \in LeapYears THEN 29 ELSE MonthLengths[(m % 12) + 1]
\* firstOf[m] is the first day of month m, counted from 0.
firstOf[m \in Nat] == IF m = 0 THEN 0 ELSE firstOf[m - 1] + MonthLength(m - 1)

Weekday(day) == day % 7
Week(day) == day \div 7
\* A month has 28 days at least.
MonthOf(day) == CHOOSE m \in 0..(day \div 28) : firstOf[m] <= day /\ day < firstOf[m + 1]
DayOf(day) == day - firstOf[MonthOf(day)] + 1

Unset == 0  \* no dayOfMonth

\* What validate lets through.
Schedules ==
    [frequency: {"daily"}, interval: 1..MaxInterval, weekdays: {{}}, dayOfMonth: {Unset}]
    \cup [frequency: {"weekly"}, interval: 1..MaxInterval, weekdays: SUBSET (0..6),
          dayOfMonth: {Unset}]
    \cup [frequency: {"monthly"}, interval: 1..MaxInterval, weekdays: {{}},
          dayOfMonth: {Unset} \cup 1..28]

-----------------------------------------------------------------------------
\* MUTANT of NextWeekly: a listed weekday that is today counts as later.
NextWeeklySameDay(s, from) ==
    LET today == Weekday(from)
        later == {d \in s.weekdays : d >= today}
    IN  CASE s.weekdays = {} -> from + 7 * s.interval
          [] s.weekdays # {} /\ later # {} -> from + Min(later) - today
          [] OTHER -> from + (7 - today) + Min(s.weekdays) + 7 * (s.interval - 1)

\* A listed weekday later this week, or the first one of the week to come.
NextWeekly(s, from) ==
    LET today == Weekday(from)
        later == {d \in s.weekdays : d > today}
    IN  CASE s.weekdays = {} -> from + 7 * s.interval
          [] s.weekdays # {} /\ later # {} -> from + Min(later) - today
          [] OTHER -> from + (7 - today) + Min(s.weekdays) + 7 * (s.interval - 1)

\* Date.setMonth keeps the day of the month, and rolls over into the month
\* that follows when the one asked for is too short.
SetMonth(day, m) == firstOf[m] + DayOf(day) - 1
\* Date.setDate, within the month.
SetDate(day, d) == firstOf[MonthOf(day)] + d - 1

Target(s, from) == IF s.dayOfMonth = Unset THEN DayOf(from) ELSE s.dayOfMonth

\* MUTANT of NextMonthly: the day is not set back after setMonth rolled over.
NextMonthlyRollsOver(s, from) ==
    LET moved == SetMonth(from, MonthOf(from) + s.interval)
    IN  IF s.dayOfMonth = Unset THEN moved ELSE SetDate(moved, s.dayOfMonth)

NextMonthly(s, from) ==
    LET moved == SetMonth(from, MonthOf(from) + s.interval)
    IN  SetDate(moved, Min({Target(s, from), MonthLength(MonthOf(moved))}))

ComputeNextRun(s, from) ==
    CASE s.frequency = "daily" -> from + s.interval
      [] s.frequency = "weekly" -> NextWeekly(s, from)
      [] s.frequency = "monthly" -> NextMonthly(s, from)

-----------------------------------------------------------------------------
NextRunInit == schedule \in Schedules /\ ranOn \in 0..(firstOf[2] - 1)

\* The poller spawns a due task, on its day or late.
RunDue ==
    /\ ranOn < Horizon
    /\ \E late \in 0..MaxLate : ranOn' = ComputeNextRun(schedule, ranOn) + late
    /\ UNCHANGED schedule

NextRunNext == RunDue

NextRunSpec == NextRunInit /\ [][NextRunNext]_nextRunVars

-----------------------------------------------------------------------------
\* Types; computeNextRun is always later than the run it is counted from,
\* or the poller would spawn the same task at every tick.
NextRunTypeOK ==
    /\ schedule \in Schedules /\ ranOn \in Nat
    /\ ComputeNextRun(schedule, ranOn) > ranOn

\* With weekdays listed, the next run is the first listed day that is in the
\* week of this one or at least `interval` weeks on (recurrence.service.ts,
\* 262-274): no listed day is skipped, no other day is used.
WeeklyIsFirstListedDay ==
    schedule.frequency = "weekly" /\ schedule.weekdays # {} =>
        ComputeNextRun(schedule, ranOn) =
            Min({day \in (ranOn + 1)..(ranOn + 7 * (MaxInterval + 1)) :
                   /\ Weekday(day) \in schedule.weekdays
                   /\ Week(day) \notin (Week(ranOn) + 1)..(Week(ranOn) + schedule.interval - 1)})

\* The next monthly run is always on the rule's own day, or on the day of
\* the run it is counted from; and it is `interval` months on, one more
\* exactly when that month has no day like the one the count starts from
\* (recurrence.service.ts, 277-280): a rule counted from the 31st passes over
\* the short months, its own dayOfMonth notwithstanding.
MonthlyKeepsDay ==
    schedule.frequency = "monthly" =>
        LET next == ComputeNextRun(schedule, ranOn)
            asked == MonthOf(ranOn) + schedule.interval
        IN  /\ DayOf(next) = Target(schedule, ranOn)
            /\ MonthOf(next) = IF DayOf(ranOn) <= MonthLength(asked) THEN asked ELSE asked + 1

\* The next run is the one the rule asks for.
NextRunFitsRule == WeeklyIsFirstListedDay /\ MonthlyKeepsDay
=============================================================================
