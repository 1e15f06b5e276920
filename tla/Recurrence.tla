----------------------------- MODULE Recurrence -----------------------------
(***************************************************************************)
(* When a scheduled task is due next: calculate_next_datetime of           *)
(* services/scheduler.py, over any calendar, and what it should compute.   *)
(*                                                                         *)
(* An instant is a day, counted from a Monday, and a second of that day.   *)
(* MonthStart[m] is the first day of month m, counted over the years, and  *)
(* MonthOf[d] the month of day d: datetime's and monthrange's knowledge.   *)
(***************************************************************************)
EXTENDS Integers

CONSTANTS DayLength, NumMonths, MonthStart, MonthOf

Days == 0..(MonthStart[NumMonths] - 1)

ASSUME CalendarAssumption ==
    /\ DayLength \in Nat \ {0} /\ NumMonths \in Nat \ {0}
    /\ MonthStart \in [0..NumMonths -> Nat] /\ MonthStart[0] = 0
    /\ \A m, n \in 0..NumMonths : m < n => MonthStart[m] < MonthStart[n]
    /\ MonthOf \in [Days -> 0..(NumMonths - 1)]
    /\ \A d \in Days : /\ MonthStart[MonthOf[d]] <= d
                       /\ d < MonthStart[MonthOf[d] + 1]

Seconds == 0..(DayLength - 1)
At(d, s) == [day |-> d, sec |-> s]
Instant == [day : Nat, sec : Seconds]
Never == At(-1, 0)
Before(a, b) == a.day < b.day \/ (a.day = b.day /\ a.sec < b.sec)

(* What validate_recurrence_constraints lets through; day counts from      *)
(* Monday for a weekly task and from 1 for a monthly one.                  *)
Recurrence == {rec \in [type : {"once", "daily", "weekly", "monthly"},
                        time : Seconds, day : Nat] :
                 /\ rec.type = "weekly" => rec.day <= 6
                 /\ rec.type = "monthly" => rec.day \in 1..31}
-----------------------------------------------------------------------------
(* The scheduled day of month m, or its last day in a shorter month. *)
DayIn(m, day) == LET length == MonthStart[m + 1] - MonthStart[m]
                 IN  MonthStart[m] + (IF day <= length THEN day ELSE length) - 1

Daily(from, time) == IF Before(from, At(from.day, time)) THEN At(from.day, time)
                                                         ELSE At(from.day + 1, time)

(* Mutant: today's weekday is taken without a look at the time. *)
Weekly_EvenPassed(from, day, time) == At(from.day + ((day - from.day) % 7), time)

Weekly(from, day, time) ==
    LET daysAhead == (day - from.day) % 7
        passed == daysAhead = 0 /\ ~Before(from, At(from.day, time))
    IN  At(from.day + (IF passed THEN 7 ELSE daysAhead), time)

Monthly(from, day, time) ==
    LET month == MonthOf[from.day]
        this == At(DayIn(month, day), time)
    IN  IF Before(from, this) THEN this ELSE At(DayIn(month + 1, day), time)

CalculateNextDatetime(rec, from, allowOnce) ==
    CASE rec.type = "once" /\ ~allowOnce -> Never
      [] rec.type = "once" /\ allowOnce -> Daily(from, rec.time)
      [] rec.type = "daily" -> Daily(from, rec.time)
      [] rec.type = "weekly" -> Weekly(from, rec.day, rec.time)
      [] rec.type = "monthly" -> Monthly(from, rec.day, rec.time)
-----------------------------------------------------------------------------
(* What a recurrence means: the instants at which the task is due. *)
Matches(rec, t) ==
    /\ t.sec = rec.time
    /\ rec.type = "weekly" => t.day % 7 = rec.day
    /\ rec.type = "monthly" => t.day = DayIn(MonthOf[t.day], rec.day)

(* n is the first of them after the instant from. *)
IsFirstAfter(rec, from, n) ==
    /\ Before(from, n) /\ Matches(rec, n)
    /\ \A d \in from.day..n.day, s \in Seconds :
          Before(from, At(d, s)) /\ Before(At(d, s), n) => ~Matches(rec, At(d, s))
=============================================================================
