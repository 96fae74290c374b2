-------------------------- MODULE AccountingCalendar --------------------------
(***************************************************************************)
(* The calendar of the accounting periods (src/src/traffic.rs): natural    *)
(* and anchored months in a timezone whose clock is put forward and back.  *)
(* Instants and local times are counted in units from the beginning of the *)
(* first month; a month is a number, its length is data.  What a period    *)
(* does to the byte counts is the subject of Accounting.                   *)
(***************************************************************************)
EXTENDS Integers, Sequences, FiniteSets, FiniteSetsExt

CONSTANTS
  MonthDays,     \* the days of every month of the horizon
  DayLength,     \* units in a day
  Hour,          \* units in an hour
  Timezones,     \* [offset, shifts]: a shift gives another offset from an instant on
  LastInstant    \* bound

VARIABLES
  clock,         \* the instant
  schedule       \* accounting_policy, accounting_timezone, anchored_reset_at

calendarVars == <<clock, schedule>>

NoTime == -1

-------------------------------------------------------------------------------
(* Months *)

Months == 0..(Len(MonthDays) - 1)

DaysIn(month) == MonthDays[month + 1]

MonthStart[month \in 0..Len(MonthDays)] ==
  IF month = 0 THEN 0 ELSE MonthStart[month - 1] + DaysIn(month - 1) * DayLength

MonthOf(local) ==
  CHOOSE m \in Months : MonthStart[m] <= local /\ local < MonthStart[m + 1]

LocalTime(month, day, unit) == MonthStart[month] + (day - 1) * DayLength + unit

-------------------------------------------------------------------------------
(* Timezones *)

Offset(zone, instant) ==
  LET past == {s \in zone.shifts : s.at <= instant}
  IN  IF past = {} THEN zone.offset
      ELSE (CHOOSE s \in past : \A t \in past : t.at <= s.at).offset

Offsets(zone) == {zone.offset} \cup {s.offset : s \in zone.shifts}

Local(zone, instant) == instant + Offset(zone, instant)

\* None in a gap, two where the clock is put back.
InstantsAt(zone, local) ==
  {u \in {local - o : o \in Offsets(zone)} : Local(zone, u) = local}

\* The earlier of two instants; in a gap the same minute of the next hour there is.
LocalDatetime(zone, local) ==
  LET exists == {h \in 0..3 : InstantsAt(zone, local + h * Hour) # {}} IN
  IF exists = {} THEN NoTime ELSE Min(InstantsAt(zone, local + Min(exists) * Hour))

\* A day the month does not have is its last one.
AnchoredDatetime(zone, month, reset) ==
  LocalDatetime(zone, LocalTime(month, Min({reset.day, DaysIn(month)}), reset.unit))

-------------------------------------------------------------------------------
(* accounting_period *)

NaturalMonth(zone, now) ==
  LET month == MonthOf(Local(zone, now)) IN
  [start |-> LocalDatetime(zone, MonthStart[month]),
   next  |-> LocalDatetime(zone, MonthStart[month + 1])]

\* Mutant: the next reset is a month after now.
AnchoredMonthFromNow(zone, reset, now) ==
  LET month     == MonthOf(Local(zone, now))
      candidate == AnchoredDatetime(zone, month, reset)
  IN  [start |-> IF candidate > now THEN AnchoredDatetime(zone, month - 1, reset) ELSE candidate,
       next  |-> AnchoredDatetime(zone, month + 1, reset)]

\* Before the first anchor the boundaries of the schedule are kept all the same.
AnchoredMonth(zone, reset, now) ==
  LET month     == MonthOf(Local(zone, now))
      candidate == AnchoredDatetime(zone, month, reset)
      start     == IF candidate > now THEN AnchoredDatetime(zone, month - 1, reset) ELSE candidate
      scheduled == AnchoredDatetime(zone, MonthOf(Local(zone, start)) + 1, reset)
      first     == LocalDatetime(zone, LocalTime(reset.month, reset.day, reset.unit))
  IN  [start |-> start, next |-> IF now < first THEN Min({scheduled, first}) ELSE scheduled]

AccountingPeriod(config, now) ==
  IF config.policy = "natural-month" THEN NaturalMonth(config.timezone, now)
  ELSE AnchoredMonth(config.timezone, config.reset, now)

-------------------------------------------------------------------------------
(* Schedules *)

NoReset == [month |-> 0, day |-> 1, unit |-> 0]

Resets ==
  UNION {[month : {m}, day : 1..DaysIn(m), unit : 0..(DayLength - 1)] : m \in Months}

\* validate_anchored_reset_local_time: not skipped, not repeated.
ValidReset(zone, reset) ==
  Cardinality(InstantsAt(zone, LocalTime(reset.month, reset.day, reset.unit))) = 1

Schedules ==
  {s \in [policy : {"anchored-month"}, timezone : Timezones, reset : Resets] :
     ValidReset(s.timezone, s.reset)}
    \cup [policy : {"natural-month"}, timezone : Timezones, reset : {NoReset}]

\* The horizon holds the month before the first instant and the one after the last.
CalendarInit(from, schedules) ==
  /\ clock = from
  /\ schedule \in schedules

Passes ==
  /\ clock < LastInstant
  /\ clock' = clock + 1
  /\ UNCHANGED schedule

-------------------------------------------------------------------------------
(* Properties *)

\* Where the period of a month begins.
PeriodStart(config, month) ==
  IF config.policy = "natural-month" THEN LocalDatetime(config.timezone, MonthStart[month])
  ELSE AnchoredDatetime(config.timezone, month, config.reset)

MonthAt(zone, instant) == MonthOf(Local(zone, instant))

\* Among these instants the local calendar never goes back a month, and the period of
\* every month begins in it, a natural one with its first instant: no clock change goes
\* across the beginning of a month.
MonthsInOrder(config, instants) ==
  LET Month(t) == MonthAt(config.timezone, t) IN
  /\ \A t \in instants : /\ Month(t) \in Months
                         /\ config.policy = "natural-month" => PeriodStart(config, Month(t)) <= t
  /\ \A t, u \in instants : t <= u => Month(t) <= Month(u)
  /\ \A m \in Months : PeriodStart(config, m) \in instants /\ Month(PeriodStart(config, m)) = m

\* The next reset a report announces is the instant at which the accounting state
\* starts anew, and until then report and reset task agree on the period, whatever
\* the months' lengths, the anchor and the clock changes in between
\* (accounting_period, "the reported next reset always matches").
ResetWhenAnnounced ==
  [][clock' # clock =>
       LET announced == AccountingPeriod(schedule, clock) IN
       /\ announced.start <= clock /\ clock < announced.next
       /\ clock' < announced.next => AccountingPeriod(schedule, clock') = announced
       /\ clock' = announced.next => AccountingPeriod(schedule, clock').start = clock'
    ]_calendarVars
=============================================================================
