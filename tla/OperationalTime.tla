-------------------------- MODULE OperationalTime --------------------------
(***************************************************************************)
(* The time expressions an analytics plan may use and how the resolver     *)
(* turns one into a half-open interval (agents/ops_analytics.py).  A moment*)
(* is a number of hours of the business zone, Hours to a day, from the     *)
(* first day of FirstYear, a Monday; Years is a bound on the calendar.     *)
(***************************************************************************)
EXTENDS Integers

CONSTANTS Hours, FirstYear, Years

ASSUME TimeAssumption == Hours \in Nat \ {0} /\ FirstYear \in Nat /\ Years \in Nat \ {0}

Leap(y) == ((y % 4) = 0 /\ (y % 100) # 0) \/ (y % 400) = 0

YearOf(k) == FirstYear + (k \div 12)
DaysIn(k) ==
  LET m == (k % 12) + 1
  IN IF m = 2 THEN IF Leap(YearOf(k)) THEN 29 ELSE 28
     ELSE IF m \in {4, 6, 9, 11} THEN 30 ELSE 31

\* The first day of each month; months are numbered from the first one.
MonthStart[k \in 0 .. 12 * Years] ==
  IF k = 0 THEN 0 ELSE MonthStart[k - 1] + DaysIn(k - 1)

Day(t) == t \div Hours
Midnight(d) == d * Hours
MonthOf(d) == CHOOSE k \in 0 .. 12 * Years - 1 : MonthStart[k] <= d /\ d < MonthStart[k + 1]

Kinds == {"ALL_TIME", "TODAY", "YESTERDAY", "THIS_WEEK", "LAST_WEEK", "LAST_N_DAYS", "THIS_MONTH",
          "LAST_MONTH", "CALENDAR_MONTH", "BETWEEN_DATES", "BEFORE_DATE", "AFTER_DATE"}

\* An expression has every field; 0 is a number, None a date, that was not given.
None == -1
Open == -1
TimeExpressions ==
  [kind : Kinds, days : Nat, month : 0 .. 12, year : Nat,
   from : Nat \cup {None}, to : Nat \cup {None}]

\* OperationalTimeExpression.validate_components.
ExpressionValid(e) ==
  /\ (e.kind = "LAST_N_DAYS") = (e.days # 0)
  /\ (e.kind = "CALENDAR_MONTH") = (e.month # 0)
  /\ IF e.kind = "BETWEEN_DATES" THEN e.from # None /\ e.to # None /\ e.from <= e.to
     ELSE IF e.kind \in {"BEFORE_DATE", "AFTER_DATE"} THEN e.from # None /\ e.to = None
     ELSE e.from = None /\ e.to = None
  /\ e.year # 0 => e.kind \in {"CALENDAR_MONTH", "BETWEEN_DATES"}

\* The month an expression names: without a year the latest that has begun.
NamedMonth(e, today) ==
  LET this == MonthOf(today)
      year == IF e.year # 0 THEN e.year
              ELSE IF e.month <= (this % 12) + 1 THEN YearOf(this) ELSE YearOf(this) - 1
  IN 12 * (year - FirstYear) + e.month - 1

\* OperationalTemporalResolver.resolve.
Resolve(e, now) ==
  LET today == Day(now)
      monday == today - (today % 7)
      month == MonthOf(today)
      from(d, end) == [start |-> Midnight(d), end |-> end]
  IN CASE e.kind = "ALL_TIME" -> [start |-> Open, end |-> Open]
       [] e.kind = "TODAY" -> from(today, now)
       [] e.kind = "YESTERDAY" -> from(today - 1, Midnight(today))
       [] e.kind = "THIS_WEEK" -> from(monday, now)
       [] e.kind = "LAST_WEEK" -> from(monday - 7, Midnight(monday))
       [] e.kind = "LAST_N_DAYS" -> [start |-> now - e.days * Hours, end |-> now]
       [] e.kind = "THIS_MONTH" -> from(MonthStart[month], now)
       [] e.kind = "LAST_MONTH" -> from(MonthStart[month - 1], Midnight(MonthStart[month]))
       [] e.kind = "CALENDAR_MONTH" ->
            LET k == NamedMonth(e, today) IN from(MonthStart[k], Midnight(MonthStart[k + 1]))
       [] e.kind = "BETWEEN_DATES" -> from(e.from, Midnight(e.to + 1))
       [] e.kind = "BEFORE_DATE" -> [start |-> Open, end |-> Midnight(e.from)]
       [] e.kind = "AFTER_DATE" -> from(e.from + 1, now)

\* ResolvedTimeWindow refuses an interval that is empty.
WindowValid(w) == w.start = Open \/ w.end = Open \/ w.start < w.end

\* Mutated form: the interval has its end.
InClosedWindow(w, t) == (w.start = Open \/ w.start <= t) /\ (w.end = Open \/ t <= w.end)

InWindow(w, t) == (w.start = Open \/ w.start <= t) /\ (w.end = Open \/ t < w.end)

\* What the words of an expression say of a moment before now, without intervals.
Means(e, now, t) ==
  LET d == Day(t)  today == Day(now)
  IN CASE e.kind = "ALL_TIME" -> TRUE
       [] e.kind = "TODAY" -> d = today
       [] e.kind = "YESTERDAY" -> d = today - 1
       [] e.kind = "THIS_WEEK" -> (d \div 7) = (today \div 7)
       [] e.kind = "LAST_WEEK" -> (d \div 7) = (today \div 7) - 1
       [] e.kind = "LAST_N_DAYS" -> now - t <= e.days * Hours
       [] e.kind = "THIS_MONTH" -> MonthOf(d) = MonthOf(today)
       [] e.kind = "LAST_MONTH" -> MonthOf(d) = MonthOf(today) - 1
       [] e.kind = "CALENDAR_MONTH" ->
            /\ (MonthOf(d) % 12) + 1 = e.month
            /\ IF e.year # 0 THEN YearOf(MonthOf(d)) = e.year ELSE MonthOf(today) - MonthOf(d) < 12
       [] e.kind = "BETWEEN_DATES" -> e.from <= d /\ d <= e.to
       [] e.kind = "BEFORE_DATE" -> d < e.from
       [] e.kind = "AFTER_DATE" -> d > e.from

=============================================================================
