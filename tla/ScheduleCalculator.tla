------------------------- MODULE ScheduleCalculator -------------------------
(***************************************************************************)
(* calculateNextRunAt: the moment after now at which a scheduled task is   *)
(* due.  A moment is a number of slots since the first day of a calendar   *)
(* whose months repeat; a schedule is a record with its kind and trigger.  *)
(***************************************************************************)
EXTENDS Integers, Sequences

CONSTANTS MonthLengths,   \* days of the months, repeated for ever
          SlotsPerDay,    \* resolution of the clock
          FirstWeekday,   \* day of the week of day 0, Sunday is 0
          CronReach       \* how far ahead a cron match is looked for: 366 days

ASSUME CalendarAssumption ==
    /\ MonthLengths \in Seq(Nat \ {0}) /\ MonthLengths # <<>>
    /\ SlotsPerDay \in Nat \ {0} /\ FirstWeekday \in 0..6
    /\ CronReach \in Nat \ {0}

Never == -1      \* null

Length(m) == MonthLengths[(m % Len(MonthLengths)) + 1]
FirstDay[m \in Nat] == IF m = 0 THEN 0 ELSE FirstDay[m - 1] + Length(m - 1)

Day(time) == time \div SlotsPerDay
Month(day) == CHOOSE m \in 0..day : FirstDay[m] <= day /\ day < FirstDay[m + 1]
Weekday(day) == (day + FirstWeekday) % 7
At(day, slot) == day * SlotsPerDay + slot

\* readPositiveNumber: anything but a positive number gives the default.
Positive(n, default) == IF n > 0 THEN n ELSE default

NextDaily(now, slot) ==
    LET today == At(Day(now), slot)
    IN  IF today <= now THEN today + SlotsPerDay ELSE today

\* A slip: a moment that is now is not over.
NextWeeklyFromNow(now, weekday, slot) ==
    LET ahead == (Positive(weekday, 1) - Weekday(Day(now)) + 7) % 7
        candidate == At(Day(now) + ahead, slot)
    IN  IF candidate < now THEN candidate + 7 * SlotsPerDay ELSE candidate

NextWeekly(now, weekday, slot) ==
    LET ahead == (Positive(weekday, 1) - Weekday(Day(now)) + 7) % 7
        candidate == At(Day(now) + ahead, slot)
    IN  IF candidate <= now THEN candidate + 7 * SlotsPerDay ELSE candidate

\* A day the month does not have overflows into the next month, and the month
\* after the one the candidate is in by then is taken.
NextMonthly(now, monthday, slot) ==
    LET month == Month(Day(now))
        day == FirstDay[month] + Positive(monthday, 1) - 1
        next == Month(day) + 1
        last == IF monthday < Length(next) THEN Positive(monthday, 1) ELSE Length(next)
    IN  IF Month(day) # month \/ At(day, slot) <= now
        THEN At(FirstDay[next] + last - 1, slot)
        ELSE At(day, slot)

\* The slots a cron expression matches are given; none within reach is an error.
CronMatches(now, matches) == {m \in matches : now < m /\ m <= now + CronReach}
NextCron(now, matches) ==
    CHOOSE m \in CronMatches(now, matches) : \A k \in CronMatches(now, matches) : m <= k

Throws(now, s) == s.kind = "cron" /\ CronMatches(now, s.matches) = {}

Next(now, s) ==
    CASE s.kind = "once" -> IF s.runAt > now THEN s.runAt ELSE Never
      [] s.kind \in {"interval", "condition"} -> now + s.every
      [] s.kind = "daily" -> NextDaily(now, s.slot)
      [] s.kind = "weekly" -> NextWeekly(now, s.weekday, s.slot)
      [] s.kind = "monthly" -> NextMonthly(now, s.monthday, s.slot)
      [] s.kind = "cron" -> NextCron(now, s.matches)
      [] OTHER -> Never

-----------------------------------------------------------------------------
\* What validateScheduleDefinition accepts, each number given (one that is not
\* positive counts as left out); manual_only asks for nothing.
Valid(s) ==
    /\ s.kind = "once" => s.runAt \in Nat
    /\ s.kind \in {"interval", "condition"} => s.every \in Nat \ {0}
    /\ s.kind \in {"daily", "weekly", "monthly"} => s.slot \in 0..(SlotsPerDay - 1)
    /\ s.kind = "weekly" => s.weekday \in 0..6
    /\ s.kind = "monthly" => s.monthday \in 1..31
    /\ s.kind = "cron" => s.matches \subseteq Nat

\* Two that mean something else than they do: Sunday is taken for Monday, and
\* of the months that are too short some are passed over.
Sunday(s) == s.kind = "weekly" /\ s.weekday = 0
MonthEnd(s) ==
    /\ s.kind = "monthly"
    /\ \E i \in DOMAIN MonthLengths : MonthLengths[i] < s.monthday

\* What a schedule means: whether it is due at a moment, given the moment
\* since when it is scheduled.
Occurs(s, time, since) ==
    LET day == Day(time)
        month == Month(day)
        monthday == day - FirstDay[month] + 1
        daily == time % SlotsPerDay = s.slot
    IN  CASE s.kind = "once" -> time = s.runAt
          [] s.kind \in {"interval", "condition"} -> time = since + s.every
          [] s.kind = "daily" -> daily
          [] s.kind = "weekly" -> daily /\ Weekday(day) = s.weekday
          [] s.kind = "monthly" ->
                /\ daily
                /\ \/ monthday = s.monthday
                   \/ monthday = Length(month) /\ Length(month) < s.monthday
          [] s.kind = "cron" -> time \in s.matches
          [] OTHER -> FALSE

\* A later moment at which the schedule occurs, with none passed over.
First(s, time, since) ==
    /\ since < time
    /\ ~Sunday(s) =>
          /\ Occurs(s, time, since)
          /\ ~MonthEnd(s) => \A k \in (since + 1)..(time - 1) : ~Occurs(s, k, since)
=============================================================================
