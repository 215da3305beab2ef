------------------------ MODULE TaskScheduler_proofs ------------------------
(***************************************************************************)
(* For every calendar, set of tasks, schedules and processes: nextRunAt is *)
(* the first moment at which the schedule occurs, a moment of a task has   *)
(* one run, and a once task one run in its life, but for one more at each  *)
(* crash.                                                                  *)
(***************************************************************************)
EXTENDS TaskScheduler, WellFoundedInduction, TLAPS

\* A set of natural numbers has a least one: the form in which the proofs
\* below use induction.
LEMMA LeastNat ==
    ASSUME NEW S \in SUBSET Nat, S # {}
    PROVE  \E n \in S : \A m \in S : n <= m
<1>1. PICK n \in S : \A m \in S : ~ (<<m, n>> \in OpToRel(<, Nat))
  BY WFMin, NatLessThanWellFounded, Zenon
<1>2. \A m \in S : ~ (m < n)
  BY <1>1 DEF OpToRel
<1>. QED
  BY <1>2

-----------------------------------------------------------------------------
(* Days and slots.                                                         *)

LEMMA Later ==
    ASSUME NEW a \in Int, NEW b \in Int, a < b, NEW n \in Nat
    PROVE  a * n + n <= b * n
<1>1. b * n = (b - a - 1) * n + a * n + n
  OBVIOUS
<1>2. (b - a - 1) * n >= 0
  OBVIOUS
<1>. QED
  BY <1>1, <1>2

LEMMA DayAndSlot ==
    ASSUME NEW time \in Nat
    PROVE  /\ Day(time) \in Nat /\ time % SlotsPerDay \in 0..(SlotsPerDay - 1)
           /\ time = At(Day(time), time % SlotsPerDay)
BY CalendarAssumption DEF Day, At

LEMMA DayOfAt ==
    ASSUME NEW day \in Nat, NEW slot \in 0..(SlotsPerDay - 1)
    PROVE  /\ At(day, slot) \in Nat
           /\ Day(At(day, slot)) = day /\ At(day, slot) % SlotsPerDay = slot
BY CalendarAssumption DEF Day, At

LEMMA AtLater ==
    ASSUME NEW a \in Nat, NEW b \in Nat, a < b,
           NEW slot \in 0..(SlotsPerDay - 1), NEW other \in 0..(SlotsPerDay - 1)
    PROVE  At(a, slot) < At(b, other) /\ At(a, slot) + SlotsPerDay <= At(b, slot)
BY Later, CalendarAssumption DEF At

LEMMA Ahead ==
    ASSUME NEW day \in Nat, NEW slot \in 0..(SlotsPerDay - 1)
    PROVE  /\ At(day + 1, slot) = At(day, slot) + SlotsPerDay
           /\ At(day + 7, slot) = At(day, slot) + 7 * SlotsPerDay
<1>1. /\ (day + 1) * SlotsPerDay = day * SlotsPerDay + SlotsPerDay
      /\ (day + 7) * SlotsPerDay = day * SlotsPerDay + 7 * SlotsPerDay
  BY CalendarAssumption
<1>2. day * SlotsPerDay \in Int /\ SlotsPerDay \in Int /\ slot \in Int
  BY CalendarAssumption
<1>. QED
  BY <1>1, <1>2 DEF At

-----------------------------------------------------------------------------
(* Each kind of schedule.                                                  *)

\* A moment as calculateNextRunAt should answer it, Never if there is none.
FirstOrNone(s, moment, from) ==
    \/ moment = Never /\ \A k \in Nat : from < k => ~Occurs(s, k, from)
    \/ moment \in Nat /\ First(s, moment, from)

LEMMA OnceIsOver ==
    ASSUME NEW time \in Nat, NEW s, s.kind = "once", s.runAt \in Nat, s.runAt <= time
    PROVE  FirstOrNone(s, Never, time)
BY DEF FirstOrNone, Occurs

LEMMA OnceIsFirst ==
    ASSUME NEW time \in Nat, NEW s, Valid(s), s.kind = "once"
    PROVE  FirstOrNone(s, Next(time, s), time)
<1>1. Next(time, s) = IF s.runAt > time THEN s.runAt ELSE Never
  BY DEF Next
<1>2. \A k : Occurs(s, k, time) <=> k = s.runAt
  BY DEF Occurs
<1>. QED
  BY <1>1, <1>2, OnceIsOver DEF FirstOrNone, First, Valid

LEMMA IntervalIsFirst ==
    ASSUME NEW time \in Nat, NEW s, Valid(s), s.kind \in {"interval", "condition"}
    PROVE  Next(time, s) \in Nat /\ First(s, Next(time, s), time)
<1>1. Next(time, s) = time + s.every
  BY DEF Next
<1>2. \A k : Occurs(s, k, time) <=> k = time + s.every
  BY DEF Occurs
<1>. QED
  BY <1>1, <1>2 DEF First, Valid

LEMMA DailyIsFirst ==
    ASSUME NEW time \in Nat, NEW s, Valid(s), s.kind = "daily"
    PROVE  Next(time, s) \in Nat /\ First(s, Next(time, s), time)
<1>1. Next(time, s) = NextDaily(time, s.slot)
  BY DEF Next
<1>2. \A k : Occurs(s, k, time) <=> k % SlotsPerDay = s.slot
  BY DEF Occurs
<1>3. s.slot \in 0..(SlotsPerDay - 1)
  BY DEF Valid
<1>. DEFINE n == NextDaily(time, s.slot)
            today == At(Day(time), s.slot)
            tomorrow == At(Day(time) + 1, s.slot)
<1>4. n = IF today <= time THEN tomorrow ELSE today
  <2>1. tomorrow = today + SlotsPerDay
    BY <1>3, DayAndSlot, Ahead
  <2>. QED
    BY <2>1 DEF NextDaily
<1>5. n \in Nat /\ time < n /\ n % SlotsPerDay = s.slot
  <2>1. time < tomorrow
    BY <1>3, DayAndSlot, AtLater
  <2>2. Day(time) \in Nat /\ Day(time) + 1 \in Nat
    BY DayAndSlot
  <2>3. /\ today \in Nat /\ today % SlotsPerDay = s.slot
        /\ tomorrow \in Nat /\ tomorrow % SlotsPerDay = s.slot
    BY <1>3, <2>2, DayOfAt
  <2>. HIDE DEF n, today, tomorrow
  <2>. QED
    BY <2>1, <2>3, <1>4
<1>6. ASSUME NEW k \in (time + 1)..(n - 1), k % SlotsPerDay = s.slot PROVE FALSE
  <2>1. k \in Nat /\ k = At(Day(k), s.slot) /\ Day(k) \in Nat /\ Day(time) \in Nat
    BY <1>5, <1>6, DayAndSlot
  <2>2. CASE Day(k) < Day(time)
    BY <2>1, <2>2, <1>3, AtLater, DayAndSlot
  <2>3. CASE Day(k) = Day(time)
    BY <2>1, <2>3, <1>4, <1>5
  <2>4. CASE Day(k) = Day(time) + 1
    BY <2>1, <2>4, <1>4, <1>5, <1>3, AtLater, DayOfAt
  <2>5. CASE Day(k) > Day(time) + 1
    BY <2>1, <2>5, <1>4, <1>5, <1>3, AtLater, DayOfAt
  <2>. QED
    BY <2>1, <2>2, <2>3, <2>4, <2>5
<1>. QED
  BY <1>1, <1>2, <1>5, <1>6 DEF First

LEMMA WeekdayAhead ==
    ASSUME NEW d \in Nat, NEW w \in 0..6, NEW ahead, ahead = (w - Weekday(d) + 7) % 7
    PROVE  /\ ahead \in 0..6
           /\ Weekday(d + ahead) = w /\ Weekday(d + ahead + 7) = w
           /\ \A e \in Nat : Weekday(e) = w /\ e >= d =>
                  e = d + ahead \/ e = d + ahead + 7 \/ e > d + ahead + 7
<1>. DEFINE r == d + FirstWeekday
<1>1. r \in Nat /\ Weekday(d) = r % 7 /\ FirstWeekday \in Nat
  BY CalendarAssumption DEF Weekday
<1>2. ahead = (w - (r % 7) + 7) % 7
  BY <1>1
<1>. HIDE DEF r
<1>3. ahead \in 0..6 /\ (r + ahead) % 7 = w
  BY <1>1, <1>2
<1>4. (r + ahead + 7) % 7 = w
  BY <1>1, <1>3
<1>5. \A e \in Nat : (e + FirstWeekday) % 7 = w /\ e + FirstWeekday >= r =>
         LET f == e + FirstWeekday IN
         f = r + ahead \/ f = r + ahead + 7 \/ f > r + ahead + 7
  BY <1>1, <1>3
<1>. QED
  BY <1>1, <1>3, <1>4, <1>5 DEF r, Weekday

LEMMA WeeklyIsFirst ==
    ASSUME NEW time \in Nat, NEW s, Valid(s), s.kind = "weekly"
    PROVE  Next(time, s) \in Nat /\ First(s, Next(time, s), time)
<1>. DEFINE w == Positive(s.weekday, 1)
            d == Day(time)
            ahead == (w - Weekday(d) + 7) % 7
            n == NextWeekly(time, s.weekday, s.slot)
            this == At(d + ahead, s.slot)
            that == At(d + ahead + 7, s.slot)
<1>1. Next(time, s) = n
  BY DEF Next
<1>2. s.slot \in 0..(SlotsPerDay - 1) /\ s.weekday \in 0..6 /\ w \in 1..6
  BY DEF Valid, Positive
<1>3. ~Sunday(s) => w = s.weekday
  BY <1>2 DEF Sunday, Positive
<1>4. d \in Nat
  BY DayAndSlot
<1>. HIDE DEF w, d
<1>5. /\ ahead \in 0..6
      /\ Weekday(d + ahead) = w /\ Weekday(d + ahead + 7) = w
      /\ \A e \in Nat : Weekday(e) = w /\ e >= d =>
             e = d + ahead \/ e = d + ahead + 7 \/ e > d + ahead + 7
  BY <1>2, <1>4, WeekdayAhead
<1>. HIDE DEF ahead
<1>6. n = IF this <= time THEN that ELSE this
  <2>1. that = this + 7 * SlotsPerDay
    BY <1>2, <1>4, <1>5, Ahead
  <2>. QED
    BY <2>1 DEF NextWeekly, w, d, ahead
<1>7. /\ this \in Nat /\ this % SlotsPerDay = s.slot /\ Day(this) = d + ahead
      /\ that \in Nat /\ that % SlotsPerDay = s.slot /\ Day(that) = d + ahead + 7
  BY <1>2, <1>4, <1>5, DayOfAt
<1>8. time < that
  <2>1. time % SlotsPerDay \in 0..(SlotsPerDay - 1) /\ time = At(d, time % SlotsPerDay)
    BY DayAndSlot DEF d
  <2>2. d + ahead + 7 \in Nat /\ d < d + ahead + 7
    BY <1>4, <1>5
  <2>. QED
    BY <1>2, <1>4, <2>1, <2>2, AtLater
<1>9. /\ n \in Nat /\ time < n /\ n % SlotsPerDay = s.slot
      /\ Weekday(Day(n)) = w
  BY <1>5, <1>6, <1>7, <1>8
<1>10. ASSUME NEW k \in (time + 1)..(n - 1),
              k % SlotsPerDay = s.slot, Weekday(Day(k)) = w
       PROVE  FALSE
  <2>1. k \in Nat /\ k = At(Day(k), s.slot) /\ Day(k) \in Nat
    BY <1>9, <1>10, DayAndSlot
  <2>2. Day(k) >= d
    BY <2>1, <1>10, DayAndSlot, AtLater, <1>2, <1>4 DEF d
  <2>3. CASE Day(k) = d + ahead
    BY <2>1, <2>3, <1>6, <1>9
  <2>4. CASE Day(k) = d + ahead + 7
    BY <2>1, <2>4, <1>6, <1>7, <1>9, AtLater, <1>2, <1>4, <1>5
  <2>5. CASE Day(k) > d + ahead + 7
    BY <2>1, <2>5, <1>6, <1>7, <1>9, AtLater, <1>2, <1>4, <1>5
  <2>. QED
    BY <2>1, <2>2, <2>3, <2>4, <2>5, <1>5, <1>10
<1>11. ASSUME ~Sunday(s) PROVE \A k : Occurs(s, k, time) <=>
           k % SlotsPerDay = s.slot /\ Weekday(Day(k)) = w
  BY <1>3, <1>11 DEF Occurs
<1>. QED
  BY <1>1, <1>9, <1>10, <1>11 DEF First

LEMMA CronIsFirst ==
    ASSUME NEW time \in Nat, NEW s, Valid(s), s.kind = "cron", ~Throws(time, s)
    PROVE  Next(time, s) \in Nat /\ First(s, Next(time, s), time)
<1>. DEFINE matches == CronMatches(time, s.matches)
            n == NextCron(time, s.matches)
<1>1. Next(time, s) = n
  BY DEF Next
<1>2. matches \in SUBSET Nat /\ matches # {}
  BY DEF Valid, Throws, CronMatches
<1>3. n \in matches /\ \A k \in matches : n <= k
  BY <1>2, LeastNat DEF NextCron
<1>4. n \in Nat /\ time < n /\ n <= time + CronReach /\ n \in s.matches
  BY <1>2, <1>3 DEF CronMatches
<1>5. \A k \in (time + 1)..(n - 1) : k \notin s.matches
  <2>1. SUFFICES ASSUME NEW k \in (time + 1)..(n - 1), k \in s.matches PROVE k \in matches
    BY <1>3, <1>4
  <2>. QED
    BY <1>4, <2>1, CalendarAssumption DEF CronMatches
<1>6. \A k : Occurs(s, k, time) <=> k \in s.matches
  BY DEF Occurs
<1>. HIDE DEF n
<1>. QED
  BY <1>1, <1>4, <1>5, <1>6 DEF First

-----------------------------------------------------------------------------
(* Months.                                                                 *)

LEMMA LengthType == \A m \in Nat : Length(m) \in Nat \ {0}
<1>. SUFFICES ASSUME NEW m \in Nat PROVE Length(m) \in Nat \ {0}
  OBVIOUS
<1>1. Len(MonthLengths) \in Nat \ {0}
  BY CalendarAssumption
<1>2. (m % Len(MonthLengths)) + 1 \in 1..Len(MonthLengths)
  BY <1>1
<1>. QED
  BY <1>2, CalendarAssumption DEF Length

\* The first days of the months 0 to n.
FirstDays(n) ==
    {f \in [0..n -> Nat] : f[0] = 0 /\ \A i \in 1..n : f[i] = f[i - 1] + Length(i - 1)}

LEMMA FirstDaysExist == \A n \in Nat : FirstDays(n) # {}
<1>. DEFINE Bad == {n \in Nat : FirstDays(n) = {}}
<1>. SUFFICES ASSUME Bad # {} PROVE FALSE
  OBVIOUS
<1>1. PICK n \in Bad : \A m \in Bad : n <= m
  BY LeastNat
<1>2. n # 0
  <2>1. [i \in 0..0 |-> 0] \in FirstDays(0)
    BY DEF FirstDays
  <2>. QED
    BY <2>1
<1>3. n - 1 \in Nat /\ n - 1 \notin Bad
  BY <1>1, <1>2
<1>4. PICK f : f \in FirstDays(n - 1)
  BY <1>3
<1>. DEFINE g == [i \in 0..n |-> IF i = n THEN f[n - 1] + Length(n - 1) ELSE f[i]]
<1>5. /\ f \in [0..(n - 1) -> Nat] /\ f[0] = 0
      /\ \A i \in 1..(n - 1) : f[i] = f[i - 1] + Length(i - 1)
  BY <1>4 DEF FirstDays
<1>6. /\ g[n] = f[n - 1] + Length(n - 1)
      /\ \A i \in 0..(n - 1) : g[i] = f[i]
  BY <1>3
<1>7. g \in [0..n -> Nat]
  <2>1. f[n - 1] + Length(n - 1) \in Nat
    BY <1>3, <1>5, LengthType
  <2>2. \A i \in 0..n : i # n => i \in 0..(n - 1)
    BY <1>3
  <2>. QED
    BY <1>5, <2>1, <2>2
<1>. HIDE DEF g
<1>8. g[0] = 0 /\ \A i \in 1..n : g[i] = g[i - 1] + Length(i - 1)
  BY <1>3, <1>5, <1>6
<1>. QED
  BY <1>7, <1>8 DEF FirstDays

LEMMA FirstDaysAgree ==
    ASSUME NEW m \in Nat, NEW n \in Nat, NEW f \in FirstDays(m), NEW g \in FirstDays(n),
           NEW i \in 0..m, i <= n
    PROVE  f[i] = g[i]
<1>. DEFINE Bad == {j \in Nat : j <= m /\ j <= n /\ f[j] # g[j]}
<1>. SUFFICES ASSUME Bad # {} PROVE FALSE
  BY DEF Bad
<1>1. PICK j \in Bad : \A k \in Bad : j <= k
  BY LeastNat
<1>2. j # 0
  BY <1>1 DEF FirstDays
<1>3. j - 1 \in Nat /\ j - 1 \notin Bad
  BY <1>1, <1>2
<1>4. f[j - 1] = g[j - 1]
  BY <1>1, <1>3
<1>. QED
  BY <1>1, <1>2, <1>4 DEF FirstDays

\* The recursive definition defines a function.
LEMMA FirstDayIs ==
    FirstDay = [m \in Nat |-> IF m = 0 THEN 0 ELSE FirstDay[m - 1] + Length(m - 1)]
<1>. DEFINE some == [n \in Nat |-> CHOOSE f : f \in FirstDays(n)]
            F == [n \in Nat |-> some[n][n]]
<1>1. \A n \in Nat : some[n] \in FirstDays(n)
  BY FirstDaysExist
<1>. HIDE DEF some
<1>2. ASSUME NEW n \in Nat
      PROVE  F[n] = IF n = 0 THEN 0 ELSE F[n - 1] + Length(n - 1)
  <2>1. CASE n = 0
    BY <2>1, <1>1 DEF FirstDays
  <2>2. CASE n # 0
    <3>1. n - 1 \in Nat /\ n - 1 \in 0..(n - 1)
      BY <2>2
    <3>2. some[n][n - 1] = some[n - 1][n - 1]
      BY <3>1, <1>1, FirstDaysAgree
    <3>3. some[n][n] = some[n][n - 1] + Length(n - 1)
      BY <1>1, <2>2 DEF FirstDays
    <3>. QED
      BY <2>2, <3>1, <3>2, <3>3
  <2>. QED
    BY <2>1, <2>2
<1>3. F = [m \in Nat |-> IF m = 0 THEN 0 ELSE F[m - 1] + Length(m - 1)]
  BY <1>2
<1>. HIDE DEF F
<1>. QED
  BY <1>3, Zenon DEF FirstDay

LEMMA FirstDayStep ==
    /\ FirstDay[0] = 0
    /\ \A m \in Nat : FirstDay[m] \in Nat
    /\ \A m \in Nat : FirstDay[m + 1] = FirstDay[m] + Length(m)
<1>1. \A m \in Nat : FirstDay[m] = IF m = 0 THEN 0 ELSE FirstDay[m - 1] + Length(m - 1)
  BY FirstDayIs, Zenon
<1>2. \A m \in Nat : FirstDay[m + 1] = FirstDay[m] + Length(m)
  BY <1>1
<1>3. \A m \in Nat : FirstDay[m] \in Nat
  <2>. DEFINE Bad == {m \in Nat : FirstDay[m] \notin Nat}
  <2>. SUFFICES ASSUME Bad # {} PROVE FALSE
    OBVIOUS
  <2>1. PICK m \in Bad : \A k \in Bad : m <= k
    BY LeastNat
  <2>2. m - 1 \in Nat /\ m - 1 \notin Bad
    BY <2>1, <1>1
  <2>. QED
    BY <2>2, <1>1, LengthType
<1>. QED
  BY <1>1, <1>2, <1>3

LEMMA FirstDayGrows ==
    ASSUME NEW m \in Nat, NEW n \in Nat, m < n
    PROVE  FirstDay[m] + Length(m) <= FirstDay[n]
<1>. DEFINE base == FirstDay[m] + Length(m)
            Bad == {k \in Nat : m < k /\ ~ (base <= FirstDay[k])}
<1>1. base \in Nat /\ base = FirstDay[m + 1]
  BY FirstDayStep, LengthType
<1>. HIDE DEF base
<1>2. Bad = {}
  <2>. SUFFICES ASSUME Bad # {} PROVE FALSE
    OBVIOUS
  <2>1. PICK k \in Bad : \A j \in Bad : k <= j
    BY LeastNat
  <2>2. k # m + 1
    BY <2>1, <1>1
  <2>3. k - 1 \in Nat /\ m < k - 1 /\ k - 1 \notin Bad
    BY <2>1, <2>2
  <2>4. base <= FirstDay[k - 1]
    BY <2>3
  <2>5. FirstDay[k] = FirstDay[k - 1] + Length(k - 1)
    <3>1. k = (k - 1) + 1
      BY <2>1
    <3>. QED
      BY <3>1, <2>3, FirstDayStep
  <2>6. FirstDay[k - 1] \in Nat /\ Length(k - 1) \in Nat
    BY <2>3, FirstDayStep, LengthType
  <2>. QED
    BY <2>1, <2>4, <2>5, <2>6, <1>1
<1>. QED
  BY <1>2 DEF base

LEMMA FirstDayMonotone ==
    ASSUME NEW m \in Nat, NEW n \in Nat, m <= n
    PROVE  FirstDay[m] <= FirstDay[n]
<1>1. FirstDay[m] \in Nat /\ FirstDay[n] \in Nat /\ Length(m) \in Nat
  BY FirstDayStep, LengthType
<1>2. CASE m = n
  BY <1>1, <1>2
<1>3. CASE m < n
  <2>1. FirstDay[m] + Length(m) <= FirstDay[n]
    BY <1>3, FirstDayGrows
  <2>. QED
    BY <1>1, <2>1
<1>. QED
  BY <1>2, <1>3

\* A day is in one month.
LEMMA MonthIs ==
    ASSUME NEW day \in Nat
    PROVE  /\ Month(day) \in Nat
           /\ FirstDay[Month(day)] <= day /\ day < FirstDay[Month(day) + 1]
           /\ \A m \in Nat : FirstDay[m] <= day /\ day < FirstDay[m + 1] => m = Month(day)
<1>1. \A n \in Nat : n <= FirstDay[n]
  <2>. DEFINE Bad == {n \in Nat : ~ (n <= FirstDay[n])}
  <2>. SUFFICES ASSUME Bad # {} PROVE FALSE
    OBVIOUS
  <2>1. PICK n \in Bad : \A k \in Bad : n <= k
    BY LeastNat
  <2>2. n - 1 \in Nat /\ n - 1 \notin Bad
    BY <2>1, FirstDayStep
  <2>3. FirstDay[n] = FirstDay[n - 1] + Length(n - 1)
    <3>1. n = (n - 1) + 1
      BY <2>1
    <3>. QED
      BY <3>1, <2>2, FirstDayStep
  <2>4. FirstDay[n - 1] \in Nat /\ Length(n - 1) \in Nat \ {0} /\ n - 1 <= FirstDay[n - 1]
    BY <2>2, FirstDayStep, LengthType
  <2>. QED
    BY <2>1, <2>3, <2>4
<1>2. PICK m \in Nat : FirstDay[m] > day /\ \A k \in Nat : FirstDay[k] > day => m <= k
  <2>. DEFINE After == {k \in Nat : FirstDay[k] > day}
  <2>1. day + 1 \in After
    BY <1>1, FirstDayStep
  <2>. QED
    BY <2>1, LeastNat
<1>3. m - 1 \in Nat /\ FirstDay[m - 1] <= day
  <2>1. m # 0
    BY <1>2, FirstDayStep
  <2>2. m - 1 \in Nat /\ ~ (FirstDay[m - 1] > day)
    BY <1>2, <2>1
  <2>. QED
    BY <2>2, FirstDayStep
<1>4. m - 1 \in 0..day /\ (m - 1) + 1 = m
  <2>1. m - 1 <= FirstDay[m - 1] /\ FirstDay[m - 1] \in Nat
    BY <1>1, <1>3, FirstDayStep
  <2>. QED
    BY <1>3, <2>1
<1>5. \E k \in 0..day : FirstDay[k] <= day /\ day < FirstDay[k + 1]
  <2>1. day < FirstDay[(m - 1) + 1]
    BY <1>2, <1>4, FirstDayStep
  <2>. QED
    BY <1>3, <1>4, <2>1
<1>6. Month(day) \in 0..day /\ FirstDay[Month(day)] <= day /\ day < FirstDay[Month(day) + 1]
  BY <1>5 DEF Month
<1>7. ASSUME NEW j \in Nat, day < FirstDay[j + 1], NEW k \in Nat, FirstDay[k] <= day, j < k
      PROVE  FALSE
  <2>1. FirstDay[j] + Length(j) <= FirstDay[k]
    BY <1>7, FirstDayGrows
  <2>2. FirstDay[j + 1] = FirstDay[j] + Length(j) /\ FirstDay[j + 1] \in Nat /\ FirstDay[k] \in Nat
    BY FirstDayStep
  <2>. QED
    BY <1>7, <2>1, <2>2
<1>. QED
  BY <1>6, <1>7

LEMMA MonthlyIsFirst ==
    ASSUME NEW time \in Nat, NEW s, Valid(s), s.kind = "monthly"
    PROVE  Next(time, s) \in Nat /\ First(s, Next(time, s), time)
<1>. DEFINE D == s.monthday
            d == Day(time)
            M == Month(d)
            day == FirstDay[M] + Positive(D, 1) - 1
            nextMonth == Month(day) + 1
            last == IF D < Length(nextMonth) THEN Positive(D, 1) ELSE Length(nextMonth)
            this == At(day, s.slot)
            that == At(FirstDay[nextMonth] + last - 1, s.slot)
            n == NextMonthly(time, D, s.slot)
<1>1. Next(time, s) = n
  BY DEF Next
<1>2. n = IF Month(day) # M \/ this <= time THEN that ELSE this
  BY DEF NextMonthly
<1>3. D \in Nat \ {0} /\ Positive(D, 1) = D /\ s.slot \in 0..(SlotsPerDay - 1)
  BY DEF Valid, Positive
<1>4. d \in Nat /\ time = At(d, time % SlotsPerDay) /\ time % SlotsPerDay \in 0..(SlotsPerDay - 1)
  BY DayAndSlot
<1>. HIDE DEF D, d, n, this, that
<1>5. M \in Nat /\ FirstDay[M] <= d /\ d < FirstDay[M + 1]
  BY <1>4, MonthIs
<1>. HIDE DEF M
<1>6. day \in Nat /\ day = FirstDay[M] + D - 1 /\ FirstDay[M] \in Nat
  BY <1>3, <1>5, FirstDayStep
<1>. HIDE DEF day
<1>7. nextMonth \in Nat /\ FirstDay[nextMonth - 1] <= day /\ day < FirstDay[nextMonth] /\ nextMonth - 1 = Month(day)
  BY <1>6, MonthIs
<1>8. M < nextMonth
  <2>1. SUFFICES ASSUME nextMonth <= M PROVE FALSE
    BY <1>5, <1>7
  <2>2. FirstDay[nextMonth] <= FirstDay[M]
    BY <2>1, <1>5, <1>7, FirstDayMonotone
  <2>. QED
    BY <2>2, <1>3, <1>6, <1>7, FirstDayStep
<1>. HIDE DEF nextMonth
<1>9. /\ last \in 1..Length(nextMonth) /\ Length(nextMonth) \in Nat \ {0}
      /\ last = D \/ (last = Length(nextMonth) /\ Length(nextMonth) < D)
  BY <1>3, <1>7, LengthType
<1>. HIDE DEF last
<1>10. FirstDay[nextMonth] \in Nat /\ d < FirstDay[nextMonth] /\ FirstDay[nextMonth + 1] = FirstDay[nextMonth] + Length(nextMonth)
  <2>1. FirstDay[M + 1] <= FirstDay[nextMonth]
    BY <1>5, <1>7, <1>8, FirstDayMonotone
  <2>. QED
    BY <2>1, <1>4, <1>5, <1>7, FirstDayStep
<1>. DEFINE thatDay == FirstDay[nextMonth] + last - 1
<1>11. /\ thatDay \in Nat /\ d < thatDay /\ Month(thatDay) = nextMonth
  <2>1. thatDay \in Nat /\ FirstDay[nextMonth] <= thatDay /\ thatDay < FirstDay[nextMonth + 1]
    BY <1>9, <1>10
  <2>. QED
    BY <2>1, <1>4, <1>7, <1>10, MonthIs
<1>12. that = At(thatDay, s.slot)
  BY DEF that
<1>. HIDE DEF thatDay
<1>13. /\ that \in Nat /\ Day(that) = thatDay /\ that % SlotsPerDay = s.slot
       /\ this \in Nat /\ Day(this) = day /\ this % SlotsPerDay = s.slot
  BY <1>3, <1>6, <1>11, <1>12, DayOfAt DEF this
<1>14. time < that
  BY <1>3, <1>4, <1>11, <1>12, AtLater
<1>15. \A k : Occurs(s, k, time) <=>
         /\ k % SlotsPerDay = s.slot
         /\ LET m == Month(Day(k)) IN
            \/ Day(k) - FirstDay[m] + 1 = D
            \/ Day(k) - FirstDay[m] + 1 = Length(m) /\ Length(m) < D
  BY DEF Occurs, D
<1>16. n \in Nat /\ time < n /\ Occurs(s, n, time)
  <2>1. CASE n = that
    <3>1. Day(n) - FirstDay[nextMonth] + 1 = last
      BY <2>1, <1>9, <1>10, <1>13 DEF thatDay
    <3>. QED
      BY <2>1, <3>1, <1>9, <1>11, <1>13, <1>14, <1>15
  <2>2. CASE n = this /\ Month(day) = M /\ ~ (this <= time)
    <3>1. Day(n) - FirstDay[M] + 1 = D
      BY <2>2, <1>3, <1>6, <1>13
    <3>. QED
      BY <2>2, <3>1, <1>13, <1>15
  <2>. QED
    BY <2>1, <2>2, <1>2
<1>17. ASSUME ~MonthEnd(s), NEW k \in (time + 1)..(n - 1), Occurs(s, k, time)
       PROVE  FALSE
  <2>1. ASSUME NEW m \in Nat PROVE D <= Length(m) /\ Length(m) \in Nat
    <3>1. (m % Len(MonthLengths)) + 1 \in DOMAIN MonthLengths
      BY CalendarAssumption
    <3>2. ~ (Length(m) < D)
      BY <1>17, <3>1 DEF MonthEnd, Length, D
    <3>. QED
      BY <3>2, <1>3, LengthType
  <2>2. Month(day) = M /\ nextMonth = M + 1
    <3>1. FirstDay[M + 1] = FirstDay[M] + Length(M)
      BY <1>5, FirstDayStep
    <3>2. FirstDay[M] <= day /\ day < FirstDay[M + 1]
      BY <3>1, <2>1, <1>3, <1>5, <1>6
    <3>. QED
      BY <3>2, <1>5, <1>6, <1>7, MonthIs
  <2>3. last = D
    BY <2>1, <1>7, <1>9, <1>3
  <2>4. k \in Nat /\ time < k /\ k < n
    BY <1>16
  <2>5. k = At(Day(k), s.slot) /\ Day(k) \in Nat
    BY <2>4, <1>15, <1>17, DayAndSlot
  <2>6. d <= Day(k)
    <3>1. SUFFICES ASSUME Day(k) < d PROVE FALSE
      BY <2>5, <1>4
    <3>. QED
      BY <3>1, <2>4, <2>5, <1>3, <1>4, AtLater
  <2>. DEFINE K == Month(Day(k))
  <2>7. K \in Nat /\ FirstDay[K] <= Day(k) /\ Day(k) < FirstDay[K + 1]
    BY <2>5, MonthIs
  <2>8. Day(k) = FirstDay[K] + D - 1
    <3>1. ~ (Length(K) < D) /\ FirstDay[K] \in Nat
      BY <2>1, <2>7, <1>3, FirstDayStep
    <3>. QED
      BY <3>1, <2>5, <1>3, <1>15, <1>17
  <2>. HIDE DEF K
  <2>9. M <= K
    <3>1. SUFFICES ASSUME K + 1 <= M PROVE FALSE
      BY <2>7, <1>5
    <3>2. FirstDay[K + 1] <= FirstDay[M]
      BY <3>1, <2>7, <1>5, FirstDayMonotone
    <3>. QED
      BY <3>2, <2>5, <2>6, <2>7, <1>4, <1>5, FirstDayStep
  <2>10. this < that
    <3>1. day < thatDay
      BY <2>2, <2>3, <1>3, <1>5, <1>6, <1>7, <1>9, <1>10 DEF thatDay
    <3>. QED
      BY <3>1, <1>3, <1>6, <1>11, <1>12, AtLater DEF this
  <2>11. CASE K = M
    BY <2>11, <2>4, <2>5, <2>8, <2>2, <1>2, <1>6, <1>13 DEF this
  <2>12. CASE K = M + 1
    <3>1. k = that
      BY <2>12, <2>2, <2>3, <2>5, <2>8, <1>12 DEF thatDay
    <3>. QED
      BY <3>1, <2>10, <2>4, <1>2, <1>13
  <2>13. CASE M + 1 < K
    <3>1. FirstDay[nextMonth] + Length(nextMonth) <= FirstDay[K]
      BY <2>13, <2>2, <2>7, <1>7, FirstDayGrows
    <3>2. thatDay < Day(k)
      BY <3>1, <2>3, <2>5, <2>7, <1>3, <1>9, <1>10, FirstDayStep DEF thatDay
    <3>3. that < k
      BY <3>2, <2>5, <1>3, <1>11, <1>12, AtLater
    <3>. QED
      BY <3>3, <2>10, <2>4, <1>2, <1>13
  <2>. QED
    BY <2>7, <2>9, <2>11, <2>12, <2>13, <1>5
<1>. QED
  BY <1>1, <1>16, <1>17 DEF First

\* calculateNextRunAt answers with the first moment after now at which the
\* schedule occurs, or with none if there is none, for every calendar and every
\* schedule it accepts, but for those that First excepts: weekly on a Sunday and,
\* where a month is too short for its day, monthly ones.
THEOREM NextIsFirst ==
    ASSUME NEW time \in Nat, NEW s, Valid(s), ~Throws(time, s)
    PROVE  FirstOrNone(s, Next(time, s), time)
<1>1. CASE s.kind = "once"
  BY <1>1, OnceIsFirst
<1>2. CASE s.kind \in {"interval", "condition"}
  BY <1>2, IntervalIsFirst DEF FirstOrNone
<1>3. CASE s.kind = "daily"
  BY <1>3, DailyIsFirst DEF FirstOrNone
<1>4. CASE s.kind = "weekly"
  BY <1>4, WeeklyIsFirst DEF FirstOrNone
<1>5. CASE s.kind = "monthly"
  BY <1>5, MonthlyIsFirst DEF FirstOrNone
<1>6. CASE s.kind = "cron"
  BY <1>6, CronIsFirst DEF FirstOrNone
<1>7. CASE s.kind \notin {"once", "interval", "condition", "daily", "weekly", "monthly", "cron"}
  BY <1>7 DEF Next, Occurs, FirstOrNone
<1>. QED
  BY <1>1, <1>2, <1>3, <1>4, <1>5, <1>6, <1>7

-----------------------------------------------------------------------------
(* The scheduler.                                                          *)

Inserted(t) == serving = t /\ phase = "inserted"

\* A moment's account is paid for by the crashes, but for the run the tick has
\* inserted and not yet put behind the task.
Accounted ==
    \A t \in Task : Schedule[t].kind # "cron" =>
        runs[t] <= crashes \/ (Inserted(t) /\ runs[t] <= 1 + crashes)

\* A once task is due at its moment or never, and the tick serves it after that
\* moment only; a run too many is the one inserted now, or the task is over.
OnceOver(t) == next[t] = Never /\ Schedule[t].runAt <= now
Once ==
    \A t \in Task : Schedule[t].kind = "once" =>
        /\ next[t] \in {Schedule[t].runAt, Never}
        /\ serving = t => next[t] # Never /\ Schedule[t].runAt <= now
        /\ \/ total[t] <= crashes
           \/ total[t] <= 1 + crashes /\ (Inserted(t) \/ OnceOver(t))

IInv == TypeOK /\ FirstOccurrence /\ Accounted /\ Once

-----------------------------------------------------------------------------
LEMMA NextOfOnce ==
    ASSUME NEW s, NEW time, s.kind = "once"
    PROVE  Next(time, s) = IF s.runAt > time THEN s.runAt ELSE Never
BY DEF Next

LEMMA OnceRunAt ==
    ASSUME NEW t \in Task, Schedule[t].kind = "once"
    PROVE  Schedule[t].runAt \in Nat
BY SchedulerAssumption DEF Valid

LEMMA InitIInv == Init => IInv
<1>. SUFFICES ASSUME Init PROVE IInv
  OBVIOUS
<1>1. \A t \in Task : FirstOrNone(Schedule[t], next[t], 0)
  BY SchedulerAssumption, NextIsFirst DEF Init
<1>2. TypeOK
  BY <1>1, SchedulerAssumption DEF Init, TypeOK, FirstOrNone
<1>3. FirstOccurrence
  BY <1>1, SchedulerAssumption DEF Init, FirstOccurrence, FirstOrNone, Never
<1>4. Accounted
  BY DEF Init, Accounted
<1>5. Once
  BY SchedulerAssumption, NextOfOnce DEF Init, Once, Idle, Never, Valid
<1>. QED
  BY <1>2, <1>3, <1>4, <1>5 DEF IInv

LEMMA ClaimKeeps == ASSUME IInv, NEW t \in Task, Claim(t) PROVE IInv'
<1>1. TypeOK'
  BY SchedulerAssumption DEF IInv, TypeOK, Idle, Claim, Claimable, Due, history, rows
<1>2. FirstOccurrence'
  BY DEF IInv, FirstOccurrence, Claim, Claimable, Due, history, rows
<1>3. Accounted'
  BY SchedulerAssumption DEF IInv, TypeOK, Accounted, Inserted, Idle, Claim, Claimable, Due, history, rows
<1>4. Once'
  BY SchedulerAssumption DEF IInv, TypeOK, Once, OnceOver, Inserted, Idle, Never, Claim, Claimable, Due, history, rows
<1>. QED
  BY <1>1, <1>2, <1>3, <1>4 DEF IInv

LEMMA InsertKeeps == ASSUME IInv, NEW t \in Task, Insert(t) PROVE IInv'
<1>1. TypeOK'
  BY SchedulerAssumption DEF IInv, TypeOK, Idle, Insert, rows, leases
<1>2. FirstOccurrence'
  BY DEF IInv, FirstOccurrence, Insert, rows, leases
<1>3. Accounted'
  BY SchedulerAssumption DEF IInv, TypeOK, Accounted, Inserted, Idle, Insert, rows, leases
<1>4. Once'
  BY SchedulerAssumption DEF IInv, TypeOK, Once, OnceOver, Inserted, Idle, Never, Insert, rows, leases
<1>. QED
  BY <1>1, <1>2, <1>3, <1>4 DEF IInv

LEMMA MissKeeps == ASSUME IInv, NEW t \in Task, Miss(t) PROVE IInv'
<1>1. TypeOK'
  BY SchedulerAssumption DEF IInv, TypeOK, Idle, Miss, rows, leases, history
<1>2. FirstOccurrence'
  BY DEF IInv, FirstOccurrence, Miss, rows, leases, history
<1>3. Accounted'
  BY SchedulerAssumption DEF IInv, TypeOK, Accounted, Inserted, Idle, Miss, rows, leases, history
<1>4. Once'
  BY SchedulerAssumption DEF IInv, TypeOK, Once, OnceOver, Inserted, Idle, Never, Miss, rows, leases, history
<1>. QED
  BY <1>1, <1>2, <1>3, <1>4 DEF IInv

LEMMA AdvanceKeeps == ASSUME IInv, NEW t \in Task, Advance(t) PROVE IInv'
<1>1. PICK moment : Reschedule(t, moment) /\ FirstOrNone(Schedule[t], moment, now)
  BY SchedulerAssumption, OnceRunAt, OnceIsOver, NextIsFirst DEF IInv, TypeOK, Once, Advance
<1>2. TypeOK'
  BY <1>1, SchedulerAssumption DEF IInv, TypeOK, FirstOrNone, Idle, Advance, Reschedule, Release
<1>3. FirstOccurrence'
  BY <1>1, SchedulerAssumption DEF IInv, TypeOK, FirstOccurrence, FirstOrNone, Never, Reschedule
<1>4. Accounted'
  BY SchedulerAssumption DEF IInv, TypeOK, Accounted, Inserted, Idle, Advance, Reschedule, Release
<1>5. now \in Nat /\ crashes \in Nat /\ next \in [Task -> Nat \cup {Never}] /\ total \in [Task -> Nat]
  BY SchedulerAssumption DEF IInv, TypeOK
<1>6. Once'
  BY <1>5, OnceRunAt, SchedulerAssumption DEF IInv, Once, OnceOver, Inserted, Idle, Never, Advance, Reschedule, Release
<1>. QED
  BY <1>2, <1>3, <1>4, <1>6 DEF IInv

LEMMA AbortKeeps == ASSUME IInv, NEW t \in Task, Abort(t) PROVE IInv'
<1>1. TypeOK'
  BY SchedulerAssumption DEF IInv, TypeOK, Idle, Abort, Throws, rows, leases, history
<1>2. FirstOccurrence'
  BY DEF IInv, FirstOccurrence, Abort, Throws, rows, leases, history
<1>3. Accounted'
  BY SchedulerAssumption DEF IInv, TypeOK, Accounted, Inserted, Idle, Abort, Throws, rows, leases, history
<1>4. Once'
  BY SchedulerAssumption DEF IInv, TypeOK, Once, OnceOver, Inserted, Idle, Never, Abort, Throws, rows, leases, history
<1>. QED
  BY <1>1, <1>2, <1>3, <1>4 DEF IInv

LEMMA EnableKeeps == ASSUME IInv, NEW t \in Task, Enable(t) PROVE IInv'
<1>1. TypeOK'
  BY SchedulerAssumption DEF IInv, TypeOK, Idle, Enable, ByHand, leases, tick, history
<1>2. FirstOccurrence'
  BY DEF IInv, FirstOccurrence, Enable, ByHand, leases, tick, history
<1>3. Accounted'
  BY SchedulerAssumption DEF IInv, TypeOK, Accounted, Inserted, Idle, Enable, ByHand, leases, tick, history
<1>4. Once'
  BY SchedulerAssumption DEF IInv, TypeOK, Once, OnceOver, Inserted, Idle, Never, Enable, ByHand, leases, tick, history
<1>. QED
  BY <1>1, <1>2, <1>3, <1>4 DEF IInv

LEMMA DisableKeeps == ASSUME IInv, NEW t \in Task, Disable(t) PROVE IInv'
<1>1. TypeOK'
  BY SchedulerAssumption DEF IInv, TypeOK, Idle, Disable, ByHand, leases, tick, history
<1>2. FirstOccurrence'
  BY DEF IInv, FirstOccurrence, Disable, ByHand, leases, tick, history
<1>3. Accounted'
  BY SchedulerAssumption DEF IInv, TypeOK, Accounted, Inserted, Idle, Disable, ByHand, leases, tick, history
<1>4. Once'
  BY SchedulerAssumption DEF IInv, TypeOK, Once, OnceOver, Inserted, Idle, Never, Disable, ByHand, leases, tick, history
<1>. QED
  BY <1>1, <1>2, <1>3, <1>4 DEF IInv

LEMMA EditKeeps == ASSUME IInv, NEW t \in Task, Edit(t) PROVE IInv'
<1>1. PICK moment : Reschedule(t, moment) /\ FirstOrNone(Schedule[t], moment, now)
  BY SchedulerAssumption, OnceRunAt, OnceIsOver, NextIsFirst DEF IInv, TypeOK, Edit
<1>2. TypeOK'
  BY <1>1, SchedulerAssumption DEF IInv, TypeOK, FirstOrNone, Idle, Edit, ByHand, Reschedule, leases, tick
<1>3. FirstOccurrence'
  BY <1>1, SchedulerAssumption DEF IInv, TypeOK, FirstOccurrence, FirstOrNone, Never, Reschedule
<1>4. Accounted'
  BY SchedulerAssumption DEF IInv, TypeOK, Accounted, Inserted, Idle, Edit, ByHand, Reschedule, leases, tick
<1>5. now \in Nat /\ crashes \in Nat /\ next \in [Task -> Nat \cup {Never}] /\ total \in [Task -> Nat]
  BY SchedulerAssumption DEF IInv, TypeOK
<1>6. Once'
  BY <1>5, OnceRunAt, NextOfOnce, SchedulerAssumption DEF IInv, Once, OnceOver, Inserted, Idle, Never, Edit, ByHand, Reschedule, leases, tick
<1>. QED
  BY <1>2, <1>3, <1>4, <1>6 DEF IInv

LEMMA DeleteKeeps == ASSUME IInv, NEW t \in Task, Delete(t) PROVE IInv'
<1>1. TypeOK'
  BY SchedulerAssumption DEF IInv, TypeOK, Idle, Delete, ByHand, leases, tick, history
<1>2. FirstOccurrence'
  BY DEF IInv, FirstOccurrence, Delete, ByHand, leases, tick, history
<1>3. Accounted'
  BY SchedulerAssumption DEF IInv, TypeOK, Accounted, Inserted, Idle, Delete, ByHand, leases, tick, history
<1>4. Once'
  BY SchedulerAssumption DEF IInv, TypeOK, Once, OnceOver, Inserted, Idle, Never, Delete, ByHand, leases, tick, history
<1>. QED
  BY <1>1, <1>2, <1>3, <1>4 DEF IInv

LEMMA PassKeeps == ASSUME IInv, Pass PROVE IInv'
<1>1. TypeOK'
  BY SchedulerAssumption DEF IInv, TypeOK, Idle, Pass, rows, leases, history
<1>2. FirstOccurrence'
  BY DEF IInv, FirstOccurrence, Pass, rows, leases, history
<1>3. Accounted'
  BY SchedulerAssumption DEF IInv, TypeOK, Accounted, Inserted, Idle, Pass, rows, leases, history
<1>4. now \in Nat
  BY SchedulerAssumption DEF IInv, TypeOK
<1>5. Once'
  BY <1>4, OnceRunAt, SchedulerAssumption DEF IInv, Once, OnceOver, Inserted, Idle, Never, Pass, rows, leases, history
<1>. QED
  BY <1>1, <1>2, <1>3, <1>5 DEF IInv

LEMMA CrashKeeps == ASSUME IInv, Crash PROVE IInv'
<1>1. TypeOK'
  BY SchedulerAssumption DEF IInv, TypeOK, Idle, Crash, rows, leases, history
<1>2. FirstOccurrence'
  BY DEF IInv, FirstOccurrence, Crash, rows, leases, history
<1>3. Accounted'
  BY SchedulerAssumption DEF IInv, TypeOK, Accounted, Inserted, Idle, Crash, rows, leases, history
<1>4. Once'
  BY SchedulerAssumption DEF IInv, TypeOK, Once, OnceOver, Inserted, Idle, Never, Crash, rows, leases, history
<1>. QED
  BY <1>1, <1>2, <1>3, <1>4 DEF IInv

LEMMA RestartKeeps == ASSUME IInv, Restart PROVE IInv'
<1>1. TypeOK'
  BY SchedulerAssumption DEF IInv, TypeOK, Idle, Restart, rows, leases, tick, history
<1>2. FirstOccurrence'
  BY DEF IInv, FirstOccurrence, Restart, rows, leases, tick, history
<1>3. Accounted'
  BY SchedulerAssumption DEF IInv, TypeOK, Accounted, Inserted, Idle, Restart, rows, leases, tick, history
<1>4. Once'
  BY SchedulerAssumption DEF IInv, TypeOK, Once, OnceOver, Inserted, Idle, Never, Restart, rows, leases, tick, history
<1>. QED
  BY <1>1, <1>2, <1>3, <1>4 DEF IInv

-----------------------------------------------------------------------------
\* The invariant holds in every state of the scheduler.
THEOREM Invariance == Spec => []IInv
<1>1. IInv /\ [Step]_vars => IInv'
  <2>. SUFFICES ASSUME IInv, [Step]_vars PROVE IInv'
    OBVIOUS
  <2>1. ASSUME Serve PROVE IInv'
    <3>1. PICK t \in Task : Claim(t) \/ Insert(t) \/ Miss(t) \/ Advance(t) \/ Abort(t)
      BY <2>1 DEF Serve
    <3>. QED
      BY <3>1, ClaimKeeps, InsertKeeps, MissKeeps, AdvanceKeeps, AbortKeeps
  <2>2. ASSUME NEW t \in Task, Enable(t) \/ Disable(t) \/ Edit(t) \/ Delete(t)
        PROVE  IInv'
    BY <2>2, EnableKeeps, DisableKeeps, EditKeeps, DeleteKeeps
  <2>3. CASE UNCHANGED vars
    BY <2>3 DEF vars, rows, leases, tick, history, IInv, TypeOK, FirstOccurrence, Accounted, Once, OnceOver, Inserted
  <2>. QED
    BY <2>1, <2>2, <2>3, PassKeeps, CrashKeeps, RestartKeeps DEF Step
<1>. QED
  BY InitIInv, <1>1, PTL DEF Spec

\* Rows, leases and the tick keep their shape, for every calendar, set of tasks
\* and processes.
THEOREM TypeCorrect == Spec => []TypeOK
BY Invariance, PTL DEF IInv

\* The moment a row holds is the first after its computation at which the task's
\* schedule occurs, whatever delayed the tick: for every schedule the API
\* accepts and every calendar, but for the tasks FirstOccurrence names.
THEOREM MomentsAreFirst == Spec => []FirstOccurrence
BY Invariance, PTL DEF IInv

\* Whatever is crashed, edited, disabled or enabled in between, a moment of a
\* task that is no cron task makes at most one run more than there were crashes.
THEOREM MomentsAreServedOnce == Spec => []OneRunPerMoment
<1>1. IInv => OneRunPerMoment
  BY DEF IInv, TypeOK, Accounted, OneRunPerMoment
<1>. QED
  BY Invariance, <1>1, PTL

\* A once task has at most one run more than there were crashes: enabling it
\* again, or an edit of it, does not bring it back.
THEOREM OnceIsOnce == Spec => []OnceRunsOnce
<1>1. IInv => OnceRunsOnce
  BY DEF IInv, TypeOK, Once, OnceRunsOnce
<1>. QED
  BY Invariance, <1>1, PTL
=============================================================================
