-------------------------- MODULE SchedulerProofs --------------------------
(***************************************************************************)
(* calculate_next_datetime returns the first matching instant, for every   *)
(* calendar and every recurrence that passes validation; the counters of a *)
(* task agree with its executions; no occurrence is dispatched twice.      *)
(***************************************************************************)
EXTENDS Scheduler, FiniteSetTheorems, TLAPS

LEMMA DailyIsFirst ==
    ASSUME NEW rec \in Recurrence, NEW from \in Instant, rec.type \in {"once", "daily"}
    PROVE  /\ Daily(from, rec.time) \in Instant
           /\ IsFirstAfter(rec, from, Daily(from, rec.time))
BY DEF Recurrence, Instant, Daily, IsFirstAfter, Matches, Before, At, Seconds

(* The days between two Wednesdays are no Wednesdays. *)
LEMMA DaysAhead ==
    ASSUME NEW day \in 0..6, NEW d \in Nat
    PROVE  LET a == (day - d) % 7 IN
           /\ a \in 0..6 /\ (d + a) % 7 = day /\ (d + 7) % 7 = d % 7
           /\ \A e \in (d + 1)..(d + a - 1) : e % 7 # day
           /\ a = 0 => \A e \in (d + 1)..(d + 6) : e % 7 # day
           /\ a > 0 => d % 7 # day
OBVIOUS

LEMMA WeeklyIsFirst ==
    ASSUME NEW rec \in Recurrence, NEW from \in Instant, rec.type = "weekly"
    PROVE  /\ Weekly(from, rec.day, rec.time) \in Instant
           /\ IsFirstAfter(rec, from, Weekly(from, rec.day, rec.time))
<1> DEFINE a == (rec.day - from.day) % 7
           passed == a = 0 /\ ~Before(from, At(from.day, rec.time))
           n == At(from.day + (IF passed THEN 7 ELSE a), rec.time)
<1>1. /\ rec.day \in 0..6 /\ rec.time \in Seconds /\ from.day \in Nat /\ from.sec \in Seconds
      /\ Weekly(from, rec.day, rec.time) = n
  BY DEF Recurrence, Instant, Weekly
<1>2. /\ a \in 0..6 /\ (from.day + a) % 7 = rec.day
      /\ (from.day + 7) % 7 = from.day % 7
      /\ \A e \in (from.day + 1)..(from.day + a - 1) : e % 7 # rec.day
      /\ a = 0 => \A e \in (from.day + 1)..(from.day + 6) : e % 7 # rec.day
      /\ a > 0 => from.day % 7 # rec.day
  BY ONLY <1>1, DaysAhead
<1> HIDE DEF a
<1>3. n.day \in Nat /\ n.sec = rec.time /\ n.day % 7 = rec.day
  BY <1>1, <1>2 DEF At
<1>4. Before(from, n)
  BY <1>1, <1>2 DEF Before, At, Seconds
<1>5. ASSUME NEW d \in from.day..n.day, NEW s \in Seconds,
             Before(from, At(d, s)), Before(At(d, s), n), s = rec.time
      PROVE  d % 7 # rec.day
  <2>1. CASE d = from.day
    <3>1. CASE a = 0
      <4>1. Before(from, At(from.day, rec.time))
        BY <1>5, <2>1
      <4>2. n = At(from.day, rec.time)
        BY <4>1, <3>1, <1>1
      <4> QED BY <4>2, <1>5, <2>1, <1>1 DEF Before, At, Seconds
    <3>2. CASE a > 0
      BY <3>2, <1>2, <2>1
    <3> QED BY <3>1, <3>2, <1>2
  <2>2. CASE d = n.day
    BY <2>2, <1>5, <1>1 DEF Before, At, Seconds
  <2>3. CASE d \in (from.day + 1)..(n.day - 1)
    <3>1. CASE passed
      <4>1. a = 0 /\ n.day = from.day + 7
        BY <3>1 DEF At
      <4>2. d \in (from.day + 1)..(from.day + 6)
        BY <4>1, <2>3, <1>1
      <4> QED BY ONLY <4>1, <4>2, <1>2
    <3>2. CASE ~passed
      <4>1. n.day = from.day + a
        BY <3>2 DEF At
      <4>2. a \in Int /\ from.day \in Int
        BY <1>1, <1>2
      <4> HIDE DEF n
      <4>3. d \in (from.day + 1)..(from.day + a - 1)
        BY ONLY <4>1, <4>2, <2>3
      <4> QED BY ONLY <4>3, <1>2
    <3> QED BY <3>1, <3>2
  <2> QED BY <2>1, <2>2, <2>3, <1>1, <1>3
<1>6. \A d \in from.day..n.day, s \in Seconds :
         Before(from, At(d, s)) /\ Before(At(d, s), n) => ~Matches(rec, At(d, s))
  BY <1>5 DEF Matches, At
<1>7. Matches(rec, n)
  BY <1>3 DEF Matches
<1>8. n \in Instant
  BY <1>1, <1>2, <1>3 DEF Instant, At
<1> QED BY <1>1, <1>4, <1>6, <1>7, <1>8 DEF IsFirstAfter

(* A day between the starts of a month and of the next one is in it. *)
LEMMA DayOfMonth ==
    ASSUME NEW m \in 0..(NumMonths - 1), NEW d \in Int,
           MonthStart[m] <= d, d < MonthStart[m + 1]
    PROVE  d \in Days /\ MonthOf[d] = m
<1>1. /\ NumMonths \in Nat \ {0} /\ MonthStart \in [0..NumMonths -> Nat]
      /\ \A i, j \in 0..NumMonths : i < j => MonthStart[i] < MonthStart[j]
      /\ MonthOf \in [Days -> 0..(NumMonths - 1)]
      /\ \A e \in Days : MonthStart[MonthOf[e]] <= e /\ e < MonthStart[MonthOf[e] + 1]
  BY CalendarAssumption
<1>2. MonthStart[m + 1] <= MonthStart[NumMonths] /\ MonthStart[NumMonths] \in Nat
  <2>1. CASE m + 1 = NumMonths
    BY <2>1, <1>1
  <2>2. CASE m + 1 < NumMonths
    BY <2>2, <1>1
  <2> QED BY <2>1, <2>2, <1>1
<1>3. d \in Days
  BY <1>1, <1>2 DEF Days
<1>4. MonthOf[d] \in 0..(NumMonths - 1)
  BY <1>1, <1>3
<1>5. MonthStart[MonthOf[d]] <= d /\ d < MonthStart[MonthOf[d] + 1]
  BY <1>1, <1>3
<1>6. ~(MonthOf[d] < m)
  <2> SUFFICES ASSUME MonthOf[d] < m PROVE FALSE
    OBVIOUS
  <2>1. MonthStart[MonthOf[d] + 1] <= MonthStart[m]
    <3>1. CASE MonthOf[d] + 1 = m
      BY <3>1, <1>1
    <3>2. CASE MonthOf[d] + 1 < m
      BY <3>2, <1>1, <1>4
    <3> QED BY <3>1, <3>2, <1>4, <1>1
  <2> QED BY <2>1, <1>1, <1>4, <1>5
<1>7. ~(m < MonthOf[d])
  <2> SUFFICES ASSUME m < MonthOf[d] PROVE FALSE
    OBVIOUS
  <2>1. MonthStart[m + 1] <= MonthStart[MonthOf[d]]
    <3>1. CASE m + 1 = MonthOf[d]
      BY <3>1, <1>1
    <3>2. CASE m + 1 < MonthOf[d]
      BY <3>2, <1>1, <1>4
    <3> QED BY <3>1, <3>2, <1>4, <1>1
  <2> QED BY <2>1, <1>1, <1>4, <1>5
<1> QED BY <1>3, <1>4, <1>6, <1>7, <1>1

(* The scheduled day of a month, or its last day, is a day of that month. *)
LEMMA ScheduledDay ==
    ASSUME NEW m \in 0..(NumMonths - 1), NEW day \in Nat \ {0}
    PROVE  /\ DayIn(m, day) \in Days /\ MonthOf[DayIn(m, day)] = m
           /\ MonthStart[m] <= DayIn(m, day) /\ DayIn(m, day) < MonthStart[m + 1]
<1>1. /\ MonthStart[m] \in Nat /\ MonthStart[m + 1] \in Nat
      /\ MonthStart[m] < MonthStart[m + 1]
  BY CalendarAssumption
<1>2. /\ MonthStart[m] <= DayIn(m, day) /\ DayIn(m, day) < MonthStart[m + 1]
      /\ DayIn(m, day) \in Int
  BY <1>1 DEF DayIn
<1> QED BY <1>2, DayOfMonth

LEMMA MonthlyIsFirst ==
    ASSUME NEW rec \in Recurrence, NEW from \in Instant, rec.type = "monthly",
           from.day \in Days, MonthOf[from.day] + 1 < NumMonths
    PROVE  /\ Monthly(from, rec.day, rec.time) \in Instant
           /\ IsFirstAfter(rec, from, Monthly(from, rec.day, rec.time))
<1> DEFINE m == MonthOf[from.day]
           this == At(DayIn(m, rec.day), rec.time)
           next == At(DayIn(m + 1, rec.day), rec.time)
           n == IF Before(from, this) THEN this ELSE next
<1>1. /\ rec.day \in Nat \ {0} /\ rec.time \in Seconds
      /\ from.day \in Nat /\ from.sec \in Seconds /\ Seconds \subseteq Int
      /\ Monthly(from, rec.day, rec.time) = n
  BY DEF Recurrence, Instant, Monthly, Seconds
<1>2. /\ m \in 0..(NumMonths - 1) /\ m + 1 \in 0..(NumMonths - 1)
      /\ MonthStart[m] <= from.day /\ from.day < MonthStart[m + 1]
  BY CalendarAssumption
<1>3. /\ DayIn(m, rec.day) \in Nat /\ DayIn(m + 1, rec.day) \in Nat
      /\ MonthOf[DayIn(m, rec.day)] = m /\ MonthOf[DayIn(m + 1, rec.day)] = m + 1
      /\ DayIn(m, rec.day) < MonthStart[m + 1]
      /\ MonthStart[m + 1] <= DayIn(m + 1, rec.day)
      /\ DayIn(m + 1, rec.day) < MonthStart[(m + 1) + 1]
  <2>1. MonthStart[NumMonths] \in Nat
    BY CalendarAssumption
  <2>2. Days \subseteq Nat
    BY <2>1 DEF Days
  <2> QED BY ONLY <1>1, <1>2, <2>2, ScheduledDay
<1>4. MonthStart[m + 1] \in Int /\ MonthStart[(m + 1) + 1] \in Int
  BY <1>2, CalendarAssumption
<1>5. n \in Instant
  BY <1>1, <1>3 DEF Instant, At
<1>6. Matches(rec, n)
  BY <1>3 DEF Matches, At
<1>7. Before(from, n)
  BY <1>1, <1>2, <1>3, <1>4 DEF Before, At
<1>8. ASSUME NEW d \in from.day..n.day, NEW s \in Seconds,
             Before(from, At(d, s)), Before(At(d, s), n), s = rec.time
      PROVE  d # DayIn(MonthOf[d], rec.day)
  <2>1. d \in Int /\ from.day <= d /\ d < n.day
    BY <1>1, <1>5, <1>8 DEF Before, At, Instant
  <2>2. CASE d < MonthStart[m + 1]
    <3>1. MonthOf[d] = m
      BY <2>1, <2>2, <1>1, <1>2, <1>4, DayOfMonth, CalendarAssumption
    <3>2. CASE Before(from, this)
      BY <3>1, <3>2, <2>1, <1>3 DEF At
    <3>3. CASE ~Before(from, this)
      <4> SUFFICES ASSUME d = DayIn(m, rec.day) PROVE FALSE
        BY <3>1
      <4> QED BY <3>3, <1>8
    <3> QED BY <3>2, <3>3
  <2>3. CASE MonthStart[m + 1] <= d
    <3>1. ~Before(from, this)
      <4> SUFFICES ASSUME Before(from, this) PROVE FALSE
        OBVIOUS
      <4>1. n.day = DayIn(m, rec.day)
        BY DEF At
      <4> QED BY <4>1, <2>1, <2>3, <1>3, <1>4
    <3>2. n.day = DayIn(m + 1, rec.day)
      BY <3>1 DEF At
    <3>3. d < MonthStart[(m + 1) + 1]
      BY <3>2, <2>1, <1>3, <1>4
    <3>4. MonthOf[d] = m + 1
      BY <3>3, <2>1, <2>3, <1>2, DayOfMonth
    <3> QED BY <3>2, <3>4, <2>1, <1>3
  <2> QED BY <2>1, <2>2, <2>3, <1>4
<1>9. \A d \in from.day..n.day, s \in Seconds :
         Before(from, At(d, s)) /\ Before(At(d, s), n) => ~Matches(rec, At(d, s))
  BY <1>8 DEF Matches, At
<1> QED BY <1>1, <1>5, <1>6, <1>7, <1>9 DEF IsFirstAfter

(* The task is due at the first instant after from that matches its        *)
(* recurrence: none is skipped, and from itself is not repeated.           *)
THEOREM NextDatetimeIsFirst ==
    ASSUME NEW rec \in Recurrence, NEW from \in Instant, NEW allowOnce \in BOOLEAN,
           rec.type = "once" => allowOnce,
           from.day \in Days, MonthOf[from.day] + 1 < NumMonths
    PROVE  /\ CalculateNextDatetime(rec, from, allowOnce) \in Instant
           /\ IsFirstAfter(rec, from, CalculateNextDatetime(rec, from, allowOnce))
<1> DEFINE n == CalculateNextDatetime(rec, from, allowOnce)
<1>1. CASE rec.type \in {"once", "daily"}
  <2>1. n = Daily(from, rec.time)
    BY <1>1 DEF CalculateNextDatetime
  <2> QED BY <2>1, <1>1, DailyIsFirst
<1>2. CASE rec.type = "weekly"
  <2>1. n = Weekly(from, rec.day, rec.time)
    BY <1>2 DEF CalculateNextDatetime
  <2> QED BY <2>1, <1>2, WeeklyIsFirst
<1>3. CASE rec.type = "monthly"
  <2>1. n = Monthly(from, rec.day, rec.time)
    BY <1>3 DEF CalculateNextDatetime
  <2> QED BY <2>1, <1>3, MonthlyIsFirst
<1> QED BY <1>1, <1>2, <1>3 DEF Recurrence
-----------------------------------------------------------------------------
(* Days of the model have a month after theirs. *)
LEMMA Covered ==
    ASSUME NEW d \in Nat, d <= MaxDay
    PROVE  d \in Days /\ MonthOf[d] + 1 < NumMonths
<1>1. /\ MonthStart \in [0..NumMonths -> Nat] /\ NumMonths \in Nat
      /\ \A m, n \in 0..NumMonths : m < n => MonthStart[m] < MonthStart[n]
      /\ MonthOf \in [Days -> 0..(NumMonths - 1)]
      /\ \A e \in Days : MonthStart[MonthOf[e]] <= e /\ e < MonthStart[MonthOf[e] + 1]
      /\ MaxDay \in Days /\ MonthOf[MaxDay] + 1 < NumMonths
  BY CalendarAssumption, SchedulerAssumption
<1>2. MonthStart[NumMonths] \in Nat /\ MaxDay \in Nat
  BY <1>1 DEF Days
<1>3. d \in Days
  BY <1>1, <1>2 DEF Days
<1> DEFINE m == MonthOf[d]
           n == MonthOf[MaxDay]
<1>4. m \in 0..(NumMonths - 1) /\ n \in 0..(NumMonths - 1)
  BY <1>1, <1>3
<1>5. MonthStart[m] <= d /\ MaxDay < MonthStart[n + 1]
  BY <1>1, <1>3
<1> HIDE DEF m, n
<1>6. ~(n < m)
  <2> SUFFICES ASSUME n < m PROVE FALSE
    OBVIOUS
  <2>1. MonthStart[n + 1] <= MonthStart[m] /\ MonthStart[m] \in Nat
    <3>1. n + 1 = m \/ n + 1 < m
      BY <1>4
    <3>2. n + 1 \in 0..NumMonths /\ m \in 0..NumMonths
      BY <1>1, <1>4
    <3>3. MonthStart[n + 1] \in Nat /\ MonthStart[m] \in Nat
      BY <1>1, <3>2
    <3> QED BY <1>1, <3>1, <3>2, <3>3
  <2>2. MonthStart[n + 1] \in Nat
    BY <1>1, <1>4
  <2> QED BY <1>2, <1>5, <2>1, <2>2
<1> QED BY <1>1, <1>3, <1>4, <1>6 DEF m, n


(* What the callers of calculate_next_datetime rely on. *)
LEMMA NextAfter ==
    ASSUME NEW rec \in Recurrences, NEW from \in Instant, from.day <= MaxDay
    PROVE  /\ CalculateNextDatetime(rec, from, TRUE) \in Instant
           /\ IsFirstAfter(rec, from, CalculateNextDatetime(rec, from, TRUE))
           /\ \/ CalculateNextDatetime(rec, from, FALSE) = Never
              \/ /\ CalculateNextDatetime(rec, from, FALSE) \in Instant
                 /\ Before(from, CalculateNextDatetime(rec, from, FALSE))
<1>1. rec \in Recurrence
  BY SchedulerAssumption
<1>2. from.day \in Days /\ MonthOf[from.day] + 1 < NumMonths
  BY Covered DEF Instant
<1>3. CASE rec.type = "once"
  <2>1. CalculateNextDatetime(rec, from, FALSE) = Never
    BY <1>3 DEF CalculateNextDatetime
  <2> QED BY <1>1, <1>2, <2>1, NextDatetimeIsFirst
<1>4. CASE rec.type # "once"
  BY <1>1, <1>2, <1>4, NextDatetimeIsFirst DEF IsFirstAfter
<1> QED BY <1>3, <1>4

Columns == {"exists", "enabled", "status", "rec", "next", "executions", "failures"}

(* The commit of an ORM session writes a row, column by column. *)
LEMMA FlushedRow ==
    ASSUME NEW r \in Row, NEW seen \in Row, NEW new \in Row
    PROVE  /\ Flushed(r, seen, new) \in Row
           /\ \A c \in Columns : Flushed(r, seen, new)[c] = IF new[c] # seen[c] THEN new[c]
                                                                               ELSE r[c]
<1>1. DOMAIN r = Columns /\ DOMAIN seen = Columns /\ DOMAIN new = Columns
  BY DEF Row, Columns
<1>2. \A c \in Columns : Flushed(r, seen, new)[c] = IF new[c] # seen[c] THEN new[c] ELSE r[c]
  BY <1>1 DEF Flushed
<1>3. Flushed(r, seen, new) = [c \in Columns |-> IF new[c] # seen[c] THEN new[c] ELSE r[c]]
  BY <1>1 DEF Flushed
<1>4. Flushed(r, seen, new) \in Row
  BY <1>3 DEF Row, Columns
<1> QED BY <1>2, <1>4

(* Columns that only an execution writes. *)
SameCounts(new, r) == /\ new.exists = r.exists /\ new.executions = r.executions
                      /\ new.failures = r.failures

(* What a request makes of the row it has read. *)
LEMMA EditedRow ==
    ASSUME now \in Instant, now.day <= MaxDay, NEW r \in Row,
           NEW recs \in SUBSET Recurrences, NEW enabled \in {{}, {TRUE}, {FALSE}}
    PROVE  /\ ToggleTask(r) \in Row /\ SameCounts(ToggleTask(r), r)
           /\ UpdateTask(r, recs, enabled) \in Row
           /\ SameCounts(UpdateTask(r, recs, enabled), r)
<1>1. ASSUME NEW q \in Row, NEW changed \in BOOLEAN
      PROVE  EnableTask(q, changed) \in Row /\ SameCounts(EnableTask(q, changed), q)
  <2>1. Initial(q.rec) \in Instant
    BY NextAfter DEF Initial, Row
  <2> QED BY <2>1 DEF EnableTask, Row, SameCounts
<1>2. ASSUME NEW q \in Row PROVE PauseTask(q) \in Row /\ SameCounts(PauseTask(q), q)
  BY DEF PauseTask, Row, SameCounts
<1>3. Reschedule(r, recs) \in Row /\ SameCounts(Reschedule(r, recs), r)
  <2>1. CASE recs = {}
    BY <2>1 DEF Reschedule, SameCounts
  <2>2. CASE recs # {}
    <3> DEFINE rec == CHOOSE rec \in recs : TRUE
    <3>1. rec \in Recurrences
      BY <2>2
    <3>2. Initial(rec) \in Instant
      BY <3>1, NextAfter DEF Initial
    <3>3. Reschedule(r, recs) = [r EXCEPT !.rec = rec, !.next = Initial(rec)]
      BY <2>2 DEF Reschedule
    <3> HIDE DEF rec
    <3> QED BY <3>1, <3>2, <3>3 DEF Row, SameCounts
  <2> QED BY <2>1, <2>2
<1>4. ToggleTask(r) \in Row /\ SameCounts(ToggleTask(r), r)
  BY <1>1, <1>2 DEF ToggleTask
<1>5. UpdateTask(r, recs, enabled) \in Row /\ SameCounts(UpdateTask(r, recs, enabled), r)
  <2> DEFINE q == Reschedule(r, recs)
  <2>1. CASE enabled = {}
    BY <1>3, <2>1 DEF UpdateTask
  <2>2. CASE enabled = {TRUE}
    <3>1. UpdateTask(r, recs, enabled) = EnableTask(q, recs # {})
      BY <2>2 DEF UpdateTask
    <3> QED BY <1>1, <1>3, <3>1 DEF SameCounts
  <2>3. CASE enabled = {FALSE}
    <3>1. UpdateTask(r, recs, enabled) = PauseTask(q)
      BY <2>3 DEF UpdateTask
    <3> QED BY <1>2, <1>3, <3>1 DEF SameCounts
  <2> QED BY <2>1, <2>2, <2>3
<1> QED BY <1>4, <1>5

(* What the periodic check and the end of an execution make of it. *)
LEMMA AdvancedRow ==
    ASSUME NEW r \in Row, NEW at \in Instant, at.day <= MaxDay
    PROVE  /\ Advanced(r, at) \in Row /\ SameCounts(Advanced(r, at), r)
           /\ Advanced(r, at).next = Never \/ Before(at, Advanced(r, at).next)
<1> DEFINE next == CalculateNextDatetime(r.rec, at, FALSE)
<1>1. next = Never \/ (next \in Instant /\ Before(at, next))
  BY NextAfter DEF Row
<1>2. Advanced(r, at) = [r EXCEPT !.next = next, !.status = IF next = Never THEN "PENDING"
                                                                            ELSE @]
  BY DEF Advanced
<1> HIDE DEF next
<1> QED BY <1>1, <1>2 DEF Row, SameCounts

LEMMA ExecutedRow ==
    ASSUME NEW r \in Row, NEW start \in Instant, start.day <= MaxDay, NEW ok \in BOOLEAN
    PROVE  /\ AfterExecution(r, start, ok) \in Row
           /\ AfterExecution(r, start, ok).exists = r.exists
           /\ AfterExecution(r, start, ok).executions = IF ok THEN r.executions + 1
                                                              ELSE r.executions
           /\ AfterExecution(r, start, ok).failures = IF ok THEN r.failures
                                                            ELSE r.failures + 1
           /\ \/ AfterExecution(r, start, ok).next = Never
              \/ Before(start, AfterExecution(r, start, ok).next)
<1> DEFINE next == CalculateNextDatetime(r.rec, start, FALSE)
           counted == IF ok THEN [r EXCEPT !.executions = @ + 1]
                            ELSE [r EXCEPT !.failures = @ + 1]
<1>1. next = Never \/ (next \in Instant /\ Before(start, next))
  BY NextAfter DEF Row
<1>2. /\ counted \in Row /\ counted.exists = r.exists
      /\ counted.executions = IF ok THEN r.executions + 1 ELSE r.executions
      /\ counted.failures = IF ok THEN r.failures ELSE r.failures + 1
  BY DEF Row
<1>3. AfterExecution(r, start, ok) =
        IF next = Never
        THEN [counted EXCEPT !.enabled = FALSE, !.status = "COMPLETED", !.next = Never]
        ELSE [counted EXCEPT !.next = next]
  BY DEF AfterExecution
<1> HIDE DEF next, counted
<1> QED BY <1>1, <1>2, <1>3 DEF Row
-----------------------------------------------------------------------------
(* The clock stays within the days of the model, and with it the instants  *)
(* that checks and executions have taken from it.                          *)
TimeInv ==
    /\ now.day <= MaxDay
    /\ \A k \in Checks : check[k].step # "idle" =>
           check[k].at \in Instant /\ check[k].at.day <= MaxDay
    /\ \A r \in Runs : run[r].pc # "free" =>
           run[r].start \in Instant /\ run[r].start.day <= MaxDay

TypeInv == TypeOK /\ TimeInv

LEMMA Empty ==
    NoRow \in Row /\ (CHOOSE t \in Tasks : TRUE) \in Tasks
BY SchedulerAssumption DEF NoRow, Row

Edits == [step : {"none", "save"}, kind : {"toggle", "update"}, task : Tasks, seen : Row,
          rec : SUBSET Recurrences, enabled : {{}, {TRUE}, {FALSE}}]
CheckState == [step : {"idle", "commit", "send"}, at : Instant \cup {Never},
               due : SUBSET Tasks, seen : [Tasks -> Row]]
RunState == [task : Tasks, start : Instant \cup {Never}, seen : Row, ok : BOOLEAN,
             exec : {"none", "RUNNING", "SUCCESS", "FAILED"},
             pc : {"free", "check", "load", "validate", "setup", "stream",
                   "finish", "commit", "ended", "done"}]

LEMMA EmptyStates == NoEdit \in Edits /\ NoCheck \in CheckState /\ NoRun \in RunState
<1>1. NoRow \in Row
  BY Empty
<1>2. NoEdit \in Edits
  <2> DEFINE task == CHOOSE t \in Tasks : TRUE
  <2>1. /\ task \in Tasks
        /\ NoEdit = [step |-> "none", kind |-> "toggle", task |-> task, seen |-> NoRow,
                     rec |-> {}, enabled |-> {}]
    BY Empty DEF NoEdit
  <2> HIDE DEF task
  <2> QED BY <1>1, <2>1 DEF Edits
<1>3. NoCheck \in CheckState
  BY <1>1 DEF NoCheck, CheckState
<1>4. NoRun \in RunState
  <2> DEFINE task == CHOOSE t \in Tasks : TRUE
  <2>1. /\ task \in Tasks
        /\ NoRun = [task |-> task, pc |-> "free", start |-> Never, exec |-> "none",
                    seen |-> NoRow, ok |-> FALSE]
    BY Empty DEF NoRun
  <2> HIDE DEF task
  <2> QED BY <1>1, <2>1 DEF RunState
<1> QED BY <1>2, <1>3, <1>4

LEMMA TypeInit == Init => TypeInv
<1> SUFFICES ASSUME Init PROVE TypeInv
  OBVIOUS
<1>1. now \in Instant /\ now.day <= MaxDay
  BY CalendarAssumption, SchedulerAssumption DEF Init, Instant, At, Seconds, Days
<1>2. row \in [Tasks -> Row] /\ edit \in Edits /\ check \in [Checks -> CheckState]
      /\ run \in [Runs -> RunState]
  BY Empty, EmptyStates DEF Init
<1>3. /\ queued \in [Tasks -> Nat] /\ slot \in [Tasks -> Instant \cup {Never}]
      /\ alone \subseteq Tasks /\ edits \in 0..MaxEdits /\ faults \in 0..MaxFaults
  BY SchedulerAssumption DEF Init
<1>4. TimeInv
  BY <1>1 DEF TimeInv, Init, NoCheck, NoRun
<1> QED BY <1>1, <1>2, <1>3, <1>4 DEF TypeInv, TypeOK, Edits, CheckState, RunState

LEMMA RequestType == TypeInv /\ Request => TypeInv'
<1> SUFFICES ASSUME TypeInv, Request PROVE TypeInv'
  OBVIOUS
<1> USE DEF budget, history
<1>1. /\ now \in Instant /\ now.day <= MaxDay /\ row \in [Tasks -> Row] /\ edit \in Edits
      /\ run \in [Runs -> RunState] /\ edits \in 0..MaxEdits
      /\ slot \in [Tasks -> Instant \cup {Never}]
  BY DEF TypeInv, TypeOK, TimeInv, Edits, RunState
<1>2. ASSUME NEW t \in Tasks, NEW rec \in Recurrences, CreateTask(t, rec)
      PROVE  TypeInv'
  <2>1. Initial(rec) \in Instant
    BY <1>1, NextAfter DEF Initial
  <2>2. row' \in [Tasks -> Row]
    BY <1>1, <1>2, <2>1, Empty DEF CreateTask, Row
  <2> QED BY <1>2, <2>2 DEF CreateTask, TypeInv, TypeOK, TimeInv
<1>3. ASSUME NEW t \in Tasks, NEW kind \in {"toggle", "update"},
             NEW rec \in SUBSET Recurrences, NEW enabled \in {{}, {TRUE}, {FALSE}},
             LoadTask(t, kind, rec, enabled)
      PROVE  TypeInv'
  <2>1. edit' \in Edits
    <3>1. row[t] \in Row
      BY <1>1
    <3>2. edit' = [step |-> "save", kind |-> kind, task |-> t, seen |-> row[t],
                   rec |-> rec, enabled |-> enabled]
      BY <1>3 DEF LoadTask
    <3> QED BY <3>1, <3>2 DEF Edits
  <2>2. edits' \in 0..MaxEdits
    BY <1>1, <1>3, SchedulerAssumption DEF LoadTask
  <2> QED BY <1>3, <2>1, <2>2 DEF LoadTask, TypeInv, TypeOK, TimeInv, Edits
<1>4. CASE SaveTask
  <2> DEFINE new == IF edit.kind = "toggle" THEN ToggleTask(edit.seen)
                    ELSE UpdateTask(edit.seen, edit.rec, edit.enabled)
  <2>1. edit.task \in Tasks /\ edit.seen \in Row /\ new \in Row
    BY <1>1, EditedRow DEF Edits
  <2>2. row' \in [Tasks -> Row]
    <3>1. row[edit.task] \in Row
      BY <1>1, <2>1
    <3>2. Flushed(row[edit.task], edit.seen, new) \in Row
      BY <2>1, <3>1, FlushedRow
    <3> QED BY <1>1, <1>4, <2>1, <3>2 DEF SaveTask
  <2>3. edit' \in Edits /\ slot' \in [Tasks -> Instant \cup {Never}]
    BY <1>1, <1>4, EmptyStates DEF SaveTask
  <2> QED BY <1>4, <2>2, <2>3 DEF SaveTask, TypeInv, TypeOK, TimeInv, Edits
<1>5. ASSUME NEW t \in Tasks, DeleteTask(t) PROVE TypeInv'
  <2>1. row' \in [Tasks -> Row]
    BY <1>1, <1>5 DEF DeleteTask, Row
  <2>2. run' \in [Runs -> RunState] /\ edits' \in 0..MaxEdits
    <3>1. ASSUME NEW r \in Runs PROVE [run[r] EXCEPT !.exec = "none"] \in RunState
      BY <1>1, <3>1 DEF RunState
    <3>2. run' \in [Runs -> RunState]
      BY <1>1, <1>5, <3>1 DEF DeleteTask
    <3>3. edits' \in 0..MaxEdits
      BY <1>1, <1>5, SchedulerAssumption DEF DeleteTask
    <3> QED BY <3>2, <3>3
  <2>3. \A r \in Runs : run'[r].pc = run[r].pc /\ run'[r].start = run[r].start
    BY <1>1, <1>5 DEF DeleteTask, RunState
  <2> QED BY <1>5, <2>1, <2>2, <2>3 DEF DeleteTask, TypeInv, TypeOK, TimeInv, RunState
<1> QED BY <1>2, <1>3, <1>4, <1>5 DEF Request

LEMMA CheckType ==
    ASSUME TypeInv, NEW k \in Checks, CheckTasks(k) \/ CheckFails(k)
    PROVE  TypeInv'
<1> USE DEF budget, history
<1>1. /\ now \in Instant /\ now.day <= MaxDay /\ row \in [Tasks -> Row]
      /\ check \in [Checks -> CheckState] /\ check[k] \in CheckState
      /\ check[k].step # "idle" => check[k].at \in Instant /\ check[k].at.day <= MaxDay
      /\ queued \in [Tasks -> Nat] /\ slot \in [Tasks -> Instant \cup {Never}]
  BY DEF TypeInv, TypeOK, TimeInv, CheckState
<1>2. CASE CheckRead(k)
  <2> DEFINE read == [step |-> "commit", at |-> now, due |-> {t \in Tasks : Due(row[t])},
                      seen |-> row]
  <2>1. read \in CheckState /\ read.at = now
    BY <1>1 DEF CheckState
  <2>2. check' = [check EXCEPT ![k] = read]
    BY <1>2 DEF CheckRead
  <2> HIDE DEF read
  <2>3. /\ check' \in [Checks -> CheckState]
        /\ \A q \in Checks : check'[q].step # "idle" =>
               check'[q].at \in Instant /\ check'[q].at.day <= MaxDay
    BY <1>1, <2>1, <2>2 DEF TypeInv, TimeInv
  <2> QED BY <1>2, <2>3 DEF CheckRead, TypeInv, TypeOK, TimeInv, CheckState
<1>3. CASE CheckCommit(k)
  <2>1. check' \in [Checks -> CheckState]
    BY <1>1, <1>3, EmptyStates DEF CheckCommit, CheckState
  <2>2. \A q \in Checks : check'[q].step # "idle" =>
               check'[q].at \in Instant /\ check'[q].at.day <= MaxDay
    <3>1. check' \in {[check EXCEPT ![k].step = "send"], [check EXCEPT ![k] = NoCheck]}
      BY <1>3 DEF CheckCommit
    <3>2. check[k].step = "commit"
      BY <1>3 DEF CheckCommit
    <3> QED BY <1>1, <3>1, <3>2 DEF CheckState, NoCheck, TypeInv, TimeInv
  <2>3. row' \in [Tasks -> Row]
    <3>1. ASSUME NEW t \in Tasks
          PROVE  Flushed(row[t], check[k].seen[t],
                         Advanced(check[k].seen[t], check[k].at)) \in Row
      <4>1. row[t] \in Row /\ check[k].seen[t] \in Row
        BY <1>1 DEF CheckState
      <4>2. check[k].at \in Instant /\ check[k].at.day <= MaxDay
        BY <1>1, <1>3 DEF CheckCommit
      <4> QED BY <4>1, <4>2, AdvancedRow, FlushedRow
    <3> QED BY <1>1, <1>3, <3>1 DEF CheckCommit
  <2>4. slot' \in [Tasks -> Instant \cup {Never}] /\ alone' \subseteq Tasks
    <3>1. \A t \in Tasks : check[k].seen[t].next \in Instant \cup {Never}
      BY <1>1 DEF CheckState, Row
    <3>2. alone \subseteq Tasks
      BY DEF TypeInv, TypeOK
    <3> QED BY <1>1, <1>3, <3>1, <3>2 DEF CheckCommit
  <2> QED BY <1>3, <2>1, <2>2, <2>3, <2>4 DEF CheckCommit, TypeInv, TypeOK, TimeInv,
                                             CheckState
<1>4. ASSUME NEW t \in Tasks, Send(k, t) PROVE TypeInv'
  <2>1. queued' \in [Tasks -> Nat]
    BY <1>1, <1>4 DEF Send
  <2>2. check' \in [Checks -> CheckState]
    BY <1>1, <1>4, EmptyStates DEF Send, CheckState
  <2>3. \A q \in Checks : check'[q].step # "idle" =>
               check'[q].at \in Instant /\ check'[q].at.day <= MaxDay
    BY <1>1, <1>4 DEF Send, CheckState, NoCheck, TypeInv, TimeInv
  <2> QED BY <1>4, <2>1, <2>2, <2>3 DEF Send, TypeInv, TypeOK, TimeInv, CheckState
<1>5. CASE CheckFails(k)
  <2>1. check' \in [Checks -> CheckState] /\ faults' \in 0..MaxFaults
    BY <1>1, <1>5, EmptyStates, SchedulerAssumption DEF CheckFails, TypeInv, TypeOK
  <2>2. \A q \in Checks : check'[q].step # "idle" =>
               check'[q].at \in Instant /\ check'[q].at.day <= MaxDay
    BY <1>1, <1>5 DEF CheckFails, CheckState, NoCheck, TypeInv, TimeInv
  <2> QED BY <1>5, <2>1, <2>2 DEF CheckFails, TypeInv, TypeOK, TimeInv, CheckState
<1> QED BY <1>2, <1>3, <1>4, <1>5 DEF CheckTasks

LEMMA ExecuteType ==
    ASSUME TypeInv, NEW r \in Runs, Execute(r)
    PROVE  TypeInv'
<1> USE DEF budget, history
<1>1. /\ now \in Instant /\ now.day <= MaxDay /\ row \in [Tasks -> Row]
      /\ run \in [Runs -> RunState] /\ run[r] \in RunState /\ queued \in [Tasks -> Nat]
      /\ run[r].pc # "free" => run[r].start \in Instant /\ run[r].start.day <= MaxDay
      /\ faults \in 0..MaxFaults /\ MaxFaults \in Nat
  BY SchedulerAssumption DEF TypeInv, TypeOK, TimeInv, RunState
<1>2. run[r].task \in Tasks /\ row[run[r].task] \in Row /\ run[r].seen \in Row
  BY <1>1 DEF RunState
(* A new state of this run is enough. *)
<1>3. ASSUME NEW new \in RunState, run' = [run EXCEPT ![r] = new],
             new.pc # "free" => new.start \in Instant /\ new.start.day <= MaxDay,
             row' \in [Tasks -> Row], queued' \in [Tasks -> Nat], faults' \in 0..MaxFaults,
             alone' \subseteq Tasks, UNCHANGED <<now, edit, check, slot, edits>>
      PROVE  TypeInv'
  <2>1. run' \in [Runs -> RunState]
    BY <1>1, <1>3
  <2>2. \A q \in Runs : run'[q].pc # "free" =>
            run'[q].start \in Instant /\ run'[q].start.day <= MaxDay
    BY <1>1, <1>3 DEF TypeInv, TimeInv
  <2> QED BY <1>3, <2>1, <2>2 DEF TypeInv, TypeOK, TimeInv, RunState
<1>4. alone \subseteq Tasks
  BY DEF TypeInv, TypeOK
<1>5. ASSUME NEW to \in {"check", "load", "validate", "setup", "stream", "finish",
                         "commit", "ended", "done"},
             Move(r, to), run[r].pc # "free",
             row' = row, queued' \in [Tasks -> Nat], faults' \in 0..MaxFaults,
             UNCHANGED <<now, edit, check, slot, alone, edits>>
      PROVE  TypeInv'
  <2> DEFINE new == [run[r] EXCEPT !.pc = to]
  <2>1. new \in RunState /\ new.start = run[r].start
    BY <1>1 DEF RunState
  <2>2. run' = [run EXCEPT ![r] = new]
    BY <1>1, <1>5 DEF Move
  <2> HIDE DEF new
  <2> QED BY <1>1, <1>3, <1>4, <1>5, <2>1, <2>2
<1>6. ASSUME NEW t \in Tasks, Start(r, t) PROVE TypeInv'
  <2> DEFINE new == [NoRun EXCEPT !.task = t, !.pc = "check", !.start = now]
  <2>1. new \in RunState /\ new.start = now
    BY <1>1, EmptyStates DEF RunState
  <2>2. run' = [run EXCEPT ![r] = new]
    BY <1>6 DEF Start
  <2>3. queued' \in [Tasks -> Nat] /\ alone' \subseteq Tasks
    BY <1>1, <1>4, <1>6 DEF Start
  <2> HIDE DEF new
  <2> QED BY <1>1, <1>3, <1>6, <2>1, <2>2, <2>3 DEF Start
<1>7. CASE CheckDuplicateExecution(r)
  BY <1>1, <1>5, <1>7 DEF CheckDuplicateExecution
<1>8. CASE LoadTaskAndUser(r)
  <2> DEFINE seen == row[run[r].task]
             runs == seen.exists = "yes" /\ seen.enabled
             new == [run[r] EXCEPT !.pc = IF runs THEN "validate" ELSE "ended",
                                   !.seen = IF runs THEN seen ELSE @]
  <2>1. new \in RunState /\ new.start = run[r].start
    BY <1>1, <1>2 DEF RunState
  <2>2. run' = [run EXCEPT ![r] = new]
    BY <1>1, <1>8 DEF LoadTaskAndUser, RunState
  <2> HIDE DEF new
  <2> QED BY <1>1, <1>3, <1>4, <1>8, <2>1, <2>2 DEF LoadTaskAndUser
<1>9. ASSUME NEW ok \in BOOLEAN, Record(r, ok), run[r].pc # "free",
             UNCHANGED <<now, edit, queued, check, history, budget>>
      PROVE  TypeInv'
  <2> DEFINE new == [run[r] EXCEPT !.pc = "ended",
                                   !.exec = IF ok THEN "SUCCESS" ELSE "FAILED"]
  <2>1. new \in RunState /\ new.start = run[r].start
    BY <1>1 DEF RunState
  <2>2. run' = [run EXCEPT ![r] = new]
    BY <1>1, <1>9 DEF Record, RunState
  <2>3. row' \in [Tasks -> Row]
    <3>1. AfterExecution(run[r].seen, run[r].start, ok) \in Row
      BY <1>1, <1>2, <1>9, ExecutedRow
    <3>2. Flushed(row[run[r].task], run[r].seen,
                  AfterExecution(run[r].seen, run[r].start, ok)) \in Row
      BY <1>2, <3>1, FlushedRow
    <3> QED BY <1>1, <1>9, <3>2 DEF Record
  <2> HIDE DEF new
  <2> QED BY <1>1, <1>3, <1>4, <1>9, <2>1, <2>2, <2>3
<1>10. CASE KeysMissing(r)
  BY <1>1, <1>5, <1>9, <1>10 DEF KeysMissing
<1>11. CASE InsertExecution(r)
  <2> DEFINE new == IF Exists(run[r].task)
                    THEN [run[r] EXCEPT !.pc = "setup", !.exec = "RUNNING"]
                    ELSE [run[r] EXCEPT !.pc = "ended"]
  <2>1. new \in RunState /\ new.start = run[r].start
    BY <1>1 DEF RunState
  <2>2. run' = [run EXCEPT ![r] = new]
    BY <1>1, <1>11 DEF InsertExecution, RunState
  <2> HIDE DEF new
  <2> QED BY <1>1, <1>3, <1>4, <1>11, <2>1, <2>2 DEF InsertExecution
<1>12. CASE SetUp(r)
  BY <1>1, <1>5, <1>12 DEF SetUp
<1>13. ASSUME NEW ok \in BOOLEAN, Stream(r, ok) PROVE TypeInv'
  <2> DEFINE new == [run[r] EXCEPT !.pc = "finish", !.ok = ok]
  <2>1. new \in RunState /\ new.start = run[r].start
    BY <1>1 DEF RunState
  <2>2. run' = [run EXCEPT ![r] = new]
    BY <1>1, <1>13 DEF Stream, RunState
  <2> HIDE DEF new
  <2> QED BY <1>1, <1>3, <1>4, <1>13, <2>1, <2>2 DEF Stream
<1>14. CASE ReadForUpdate(r)
  <2> DEFINE new == [run[r] EXCEPT !.pc = "commit", !.seen = row[run[r].task]]
  <2>1. new \in RunState /\ new.start = run[r].start
    BY <1>1, <1>2 DEF RunState
  <2>2. run' = [run EXCEPT ![r] = new]
    BY <1>1, <1>14 DEF ReadForUpdate, RunState
  <2> HIDE DEF new
  <2> QED BY <1>1, <1>3, <1>4, <1>14, <2>1, <2>2 DEF ReadForUpdate
<1>15. CASE CompleteExecution(r)
  <2>1. run[r].ok \in BOOLEAN
    BY <1>1 DEF RunState
  <2> QED BY <1>1, <1>5, <1>9, <1>15, <2>1 DEF CompleteExecution
<1>16. CASE CommitFails(r)
  <2> DEFINE new == [run[r] EXCEPT !.pc = IF run[r].ok THEN "finish" ELSE "ended",
                                   !.ok = FALSE]
  <2>1. new \in RunState /\ new.start = run[r].start
    BY <1>1 DEF RunState
  <2>2. run' = [run EXCEPT ![r] = new]
    BY <1>1, <1>16 DEF CommitFails, RunState
  <2>3. faults' \in 0..MaxFaults
    BY <1>1, <1>16 DEF CommitFails
  <2> HIDE DEF new
  <2> QED BY <1>1, <1>3, <1>4, <1>16, <2>1, <2>2, <2>3 DEF CommitFails
<1>17. CASE Acknowledge(r)
  BY <1>1, <1>5, <1>17 DEF Acknowledge
<1>18. CASE Crash(r)
  <2>1. queued' \in [Tasks -> Nat] /\ faults' \in 0..MaxFaults
    BY <1>1, <1>2, <1>18 DEF Crash
  <2> QED BY <1>1, <1>5, <1>18, <2>1 DEF Crash
<1> QED BY <1>6, <1>7, <1>8, <1>10, <1>11, <1>12, <1>13, <1>14, <1>15, <1>16, <1>17,
           <1>18 DEF Execute

LEMMA TickType == TypeInv /\ Tick => TypeInv'
<1> SUFFICES ASSUME TypeInv, Tick PROVE TypeInv'
  OBVIOUS
<1>1. now' \in Instant /\ now'.day <= MaxDay
  <2>1. now.day \in Nat /\ now.sec \in 0..(DayLength - 1) /\ DayLength \in Nat \ {0}
    BY CalendarAssumption DEF TypeInv, TypeOK, Instant, Seconds
  <2> QED BY <2>1 DEF Tick, Instant, At, Seconds
<1> QED BY <1>1 DEF Tick, TypeInv, TypeOK, TimeInv, budget, history

LEMMA TypeStep == TypeInv /\ [Next]_vars => TypeInv'
<1> SUFFICES ASSUME TypeInv, [Next]_vars PROVE TypeInv'
  OBVIOUS
<1>1. CASE UNCHANGED vars
  BY <1>1 DEF vars, budget, history, TypeInv, TypeOK, TimeInv
<1> QED BY <1>1, TickType, RequestType, CheckType, ExecuteType DEF Next

THEOREM TimeInvariant == Spec => []TypeInv
BY TypeInit, TypeStep, PTL DEF Spec

(* Every reachable state of the scheduler is well typed. *)
THEOREM TypeCorrect == Spec => []TypeOK
<1>1. TypeInv => TypeOK
  BY DEF TypeInv
<1> QED BY <1>1, TimeInvariant, PTL

(* Whenever a task is created, enabled or rescheduled, it is due at the    *)
(* first matching instant after now.                                       *)
THEOREM NextIsAlwaysFirst == Spec => []NextIsFirst
<1>1. TypeInv => NextIsFirst
  BY NextAfter DEF TypeInv, TypeOK, TimeInv, NextIsFirst
<1> QED BY <1>1, TimeInvariant, PTL
-----------------------------------------------------------------------------
(* The counters of a task.  A task whose runs met no other has at most one *)
(* in progress, and the row that this one holds has the counters that the  *)
(* database has: nobody else writes them.                                  *)
MidRun == {"setup", "stream", "finish", "commit"}

ExecInv(r) ==
    /\ run[r].pc \in {"free", "check", "load", "validate"} => run[r].exec = "none"
    /\ run[r].pc \in MidRun => run[r].exec \in {"none", "RUNNING"}
    /\ run[r].exec # "none" => Exists(run[r].task)
    /\ run[r].pc \in {"validate"} \cup MidRun => row[run[r].task].exists # "no"

OneRun(t) == \A q, r \in InProgress(t) : q = r

SeenCounts(t) ==
    \A r \in Runs : run[r].task = t /\ run[r].pc \in {"validate", "commit"} =>
        /\ run[r].seen.executions = row[t].executions
        /\ run[r].seen.failures = row[t].failures

CountInv == /\ \A r \in Runs : ExecInv(r)
            /\ \A t \in alone : OneRun(t) /\ SeenCounts(t)
            /\ CountsAgree

Done(t, result) == {r \in Runs : run[r].task = t /\ run[r].exec = result}

LEMMA DoneFinite ==
    ASSUME NEW t, NEW result
    PROVE  IsFiniteSet(Done(t, result)) /\ IsFiniteSet(Done(t, result)')
<1>1. IsFiniteSet(Runs)
  BY SchedulerAssumption, FS_Interval DEF Runs
<1>2. Done(t, result) \subseteq Runs /\ Done(t, result)' \subseteq Runs
  BY DEF Done
<1> QED BY <1>1, <1>2, FS_Subset

LEMMA CountsAreDone ==
    CountsAgree <=> \A t \in alone : Exists(t) =>
                        /\ row[t].executions = Cardinality(Done(t, "SUCCESS"))
                        /\ row[t].failures = Cardinality(Done(t, "FAILED"))
BY DEF CountsAgree, Done

(* Requests and checks write neither counters nor runs. *)
LEMMA CountsStay ==
    ASSUME CountInv, UNCHANGED run, alone \subseteq Tasks, alone' \subseteq alone,
           \A r \in Runs : run[r].task \in Tasks,
           \A t \in Tasks : SameCounts(row'[t], row[t])
    PROVE  CountInv'
<1>1. \A r \in Runs : ExecInv(r)'
  BY DEF CountInv, ExecInv, SameCounts, Exists
<1>2. \A t \in alone' : OneRun(t)' /\ SeenCounts(t)'
  BY DEF CountInv, OneRun, SeenCounts, SameCounts, InProgress
<1>3. CountsAgree'
  BY DEF CountInv, CountsAgree, SameCounts, Exists
<1> QED BY <1>1, <1>2, <1>3 DEF CountInv

(* One run goes on, and no row is written. *)
Active == {"check", "load", "validate"} \cup MidRun
Ended == {"SUCCESS", "FAILED"}

LEMMA RunGoesOn ==
    ASSUME CountInv, NEW r \in Runs, NEW new \in RunState, run \in [Runs -> RunState],
           run' = [run EXCEPT ![r] = new], UNCHANGED row, alone' \subseteq alone,
           new.exec \in Ended \/ run[r].exec \in Ended =>
               new.task = run[r].task /\ new.exec = run[r].exec,
           ExecInv(r)',
           \/ new.pc \notin Active
           \/ new.task = run[r].task /\ run[r].pc \in Active
           \/ new.task \in alone' => InProgress(new.task) = {},
           new.pc \in {"validate", "commit"} =>
               /\ new.seen.executions = row[new.task].executions
               /\ new.seen.failures = row[new.task].failures
    PROVE  CountInv'
<1>1. \A q \in Runs : run'[q] = IF q = r THEN new ELSE run[q]
  OBVIOUS
<1>2. \A q \in Runs : ExecInv(q)'
  BY <1>1 DEF CountInv, ExecInv, Exists
<1>3. ASSUME NEW t \in alone' PROVE OneRun(t)'
  <2>1. \A q \in Runs : q \in InProgress(t) <=> run[q].task = t /\ run[q].pc \in Active
    BY DEF InProgress, RunState, Active, MidRun
  <2>2. \A q \in Runs : q \in InProgress(t)' <=> run'[q].task = t /\ run'[q].pc \in Active
    BY <1>1 DEF InProgress, RunState, Active, MidRun
  <2>3. OneRun(t)
    BY <1>3 DEF CountInv
  <2>4. InProgress(t) \subseteq Runs /\ InProgress(t)' \subseteq Runs
    BY DEF InProgress
  <2>5. InProgress(t)' \subseteq InProgress(t) \/ InProgress(t)' \subseteq {r}
    BY <1>1, <1>3, <2>1, <2>2, <2>4
  <2> QED BY <2>3, <2>5 DEF OneRun
<1>4. \A t \in alone' : SeenCounts(t)'
  BY <1>1 DEF CountInv, SeenCounts
<1>5. CountsAgree'
  <2>1. ASSUME NEW t \in alone', NEW result \in Ended
        PROVE  Done(t, result)' = Done(t, result)
    BY <1>1 DEF Done
  <2>2. \A t \in alone' : Exists(t)' => Exists(t) /\ t \in alone
    BY DEF Exists
  <2> QED BY <2>1, <2>2 DEF CountInv, CountsAgree, Done, Ended
<1> QED BY <1>2, <1>3, <1>4, <1>5 DEF CountInv

(* An execution and its task are written in one commit. *)
LEMMA RecordCounts ==
    ASSUME TypeInv, CountInv, NEW r \in Runs, NEW ok \in BOOLEAN, Record(r, ok),
           run[r].pc \in {"validate", "commit"}, Exists(run[r].task), UNCHANGED alone
    PROVE  CountInv'
<1>t. PICK t : t = run[r].task
  OBVIOUS
<1>a. PICK after : after = AfterExecution(run[r].seen, run[r].start, ok)
  OBVIOUS
<1>n. PICK new : new = [run[r] EXCEPT !.pc = "ended",
                                     !.exec = IF ok THEN "SUCCESS" ELSE "FAILED"]
  OBVIOUS
<1>1. /\ row \in [Tasks -> Row] /\ run \in [Runs -> RunState] /\ alone \subseteq Tasks
      /\ t \in Tasks /\ row[t] \in Row /\ run[r].seen \in Row
      /\ run[r].start \in Instant /\ run[r].start.day <= MaxDay
  BY <1>t DEF TypeInv, TypeOK, TimeInv, RunState
<1>2. /\ \A q \in Runs : run'[q] = IF q = r THEN new ELSE run[q]
      /\ new.pc = "ended" /\ new.task = t
      /\ new.exec = IF ok THEN "SUCCESS" ELSE "FAILED"
  BY <1>t, <1>n, <1>1 DEF Record, RunState
<1>3. /\ after \in Row /\ after.exists = run[r].seen.exists
      /\ after.executions = IF ok THEN run[r].seen.executions + 1
                                  ELSE run[r].seen.executions
      /\ after.failures = IF ok THEN run[r].seen.failures ELSE run[r].seen.failures + 1
  BY <1>a, <1>1, ExecutedRow
<1>4. row' = [row EXCEPT ![t] = Flushed(row[t], run[r].seen, after)]
  BY <1>t, <1>a DEF Record
<1>5. /\ row'[t].exists = row[t].exists
      /\ row'[t].executions = IF after.executions # run[r].seen.executions
                              THEN after.executions ELSE row[t].executions
      /\ row'[t].failures = IF after.failures # run[r].seen.failures
                            THEN after.failures ELSE row[t].failures
      /\ \A u \in Tasks \ {t} : row'[u] = row[u]
  <2>1. row'[t] = Flushed(row[t], run[r].seen, after)
    BY <1>1, <1>4
  <2>2. \A c \in {"exists", "executions", "failures"} :
            row'[t][c] = IF after[c] # run[r].seen[c] THEN after[c] ELSE row[t][c]
    BY <1>1, <1>3, <2>1, FlushedRow DEF Columns
  <2> QED BY <1>1, <1>3, <1>4, <2>2
<1>6. run[r].exec \in {"none", "RUNNING"} /\ r \in InProgress(t) /\ Exists(t)
  BY <1>t DEF CountInv, ExecInv, MidRun, InProgress
<1>7. \A u \in Tasks : Exists(u)' <=> Exists(u)
  BY <1>1, <1>5 DEF Exists
<1>8. \A q \in Runs : ExecInv(q)'
  <2>1. \A u \in Tasks : row'[u].exists = row[u].exists
    BY <1>5
  <2>2. \A q \in Runs : run[q].task \in Tasks
    BY <1>1 DEF RunState
  <2> QED BY <1>t, <1>1, <1>2, <1>6, <2>1, <2>2 DEF CountInv, ExecInv, Exists, MidRun
<1>9. ASSUME NEW u \in alone' PROVE OneRun(u)' /\ SeenCounts(u)'
  <2>1. InProgress(u)' \subseteq InProgress(u) /\ OneRun(u) /\ SeenCounts(u) /\ u \in Tasks
    BY <1>t, <1>1, <1>2, <1>9 DEF InProgress, CountInv
  <2>2. OneRun(u)'
    BY <2>1 DEF OneRun
  <2>3. CASE u # t
    BY <1>2, <1>5, <2>1, <2>2, <2>3 DEF SeenCounts
  <2>4. CASE u = t
    <3>1. ASSUME NEW q \in Runs, run'[q].task = u, run'[q].pc \in {"validate", "commit"}
          PROVE  FALSE
      <4>1. q # r /\ q \in InProgress(u)
        BY <1>2, <3>1 DEF InProgress
      <4> QED BY <1>6, <2>1, <2>4, <4>1 DEF OneRun
    <3> QED BY <2>2, <3>1 DEF SeenCounts
  <2> QED BY <2>2, <2>3, <2>4
<1>10. CountsAgree'
  <2> SUFFICES ASSUME NEW u \in alone', Exists(u)'
               PROVE  /\ row'[u].executions = Cardinality(Done(u, "SUCCESS")')
                      /\ row'[u].failures = Cardinality(Done(u, "FAILED")')
    BY DEF CountsAgree, Done
  <2>1. /\ u \in Tasks /\ Exists(u)
        /\ row[u].executions = Cardinality(Done(u, "SUCCESS"))
        /\ row[u].failures = Cardinality(Done(u, "FAILED"))
    BY <1>1, <1>7, CountsAreDone DEF CountInv
  <2>2. CASE u # t
    <3>1. \A result \in Ended : Done(u, result)' = Done(u, result)
      BY <1>t, <1>2, <2>2 DEF Done, Ended
    <3> QED BY <1>5, <2>1, <2>2, <3>1 DEF Ended
  <2>3. CASE u = t
    <3>1. /\ run[r].seen.executions = row[t].executions
          /\ run[r].seen.failures = row[t].failures
      BY <1>t, <2>3 DEF CountInv, SeenCounts
    <3>2. row[t].executions \in Nat /\ row[t].failures \in Nat
      BY <1>1 DEF Row
    <3>3. CASE ok
      <4>1. /\ Done(t, "SUCCESS")' = Done(t, "SUCCESS") \cup {r}
            /\ Done(t, "FAILED")' = Done(t, "FAILED") /\ r \notin Done(t, "SUCCESS")
        BY <1>2, <1>6, <3>3 DEF Done
      <4>2. Cardinality(Done(t, "SUCCESS")') = Cardinality(Done(t, "SUCCESS")) + 1
        BY <4>1, DoneFinite, FS_AddElement
      <4> QED BY <1>3, <1>5, <2>1, <2>3, <3>1, <3>2, <3>3, <4>1, <4>2
    <3>4. CASE ~ok
      <4>1. /\ Done(t, "FAILED")' = Done(t, "FAILED") \cup {r}
            /\ Done(t, "SUCCESS")' = Done(t, "SUCCESS") /\ r \notin Done(t, "FAILED")
        BY <1>2, <1>6, <3>4 DEF Done
      <4>2. Cardinality(Done(t, "FAILED")') = Cardinality(Done(t, "FAILED")) + 1
        BY <4>1, DoneFinite, FS_AddElement
      <4> QED BY <1>3, <1>5, <2>1, <2>3, <3>1, <3>2, <3>4, <4>1, <4>2
    <3> QED BY <3>3, <3>4
  <2> QED BY <2>2, <2>3
<1> QED BY <1>8, <1>9, <1>10 DEF CountInv

LEMMA CountInit == Init => CountInv
<1> SUFFICES ASSUME Init PROVE CountInv
  OBVIOUS
<1>1. \A r \in Runs : run[r].pc = "free" /\ run[r].exec = "none"
  BY DEF Init, NoRun
<1>2. \A r \in Runs : ExecInv(r)
  BY <1>1 DEF ExecInv, MidRun
<1>3. \A t \in alone : OneRun(t) /\ SeenCounts(t)
  BY <1>1 DEF OneRun, SeenCounts, InProgress
<1>4. CountsAgree
  BY DEF Init, CountsAgree, Exists, NoRow
<1> QED BY <1>2, <1>3, <1>4 DEF CountInv

LEMMA RequestCounts == TypeInv /\ CountInv /\ Request => CountInv'
<1> SUFFICES ASSUME TypeInv, CountInv, Request PROVE CountInv'
  OBVIOUS
<1> USE DEF budget, history
<1>1. /\ now \in Instant /\ now.day <= MaxDay /\ row \in [Tasks -> Row] /\ edit \in Edits
      /\ run \in [Runs -> RunState] /\ alone \subseteq Tasks
      /\ \A r \in Runs : run[r].task \in Tasks
  BY DEF TypeInv, TypeOK, TimeInv, Edits, RunState
<1>2. ASSUME NEW t \in Tasks, NEW rec \in Recurrences, CreateTask(t, rec)
      PROVE  CountInv'
  <2>1. /\ row'[t].exists = "yes" /\ row'[t].executions = 0 /\ row'[t].failures = 0
        /\ \A u \in Tasks \ {t} : row'[u] = row[u]
        /\ row[t].exists = "no" /\ UNCHANGED <<run, alone>>
    BY <1>1, <1>2 DEF CreateTask, NoRow
  <2>2. \A r \in Runs : run[r].task = t =>
            run[r].exec = "none" /\ run[r].pc \notin {"validate"} \cup MidRun
    BY <2>1 DEF CountInv, ExecInv, Exists
  <2>3. \A r \in Runs : ExecInv(r)'
    BY <1>1, <2>1, <2>2 DEF CountInv, ExecInv, Exists
  <2>4. \A u \in alone' : OneRun(u)' /\ SeenCounts(u)'
    <3> SUFFICES ASSUME NEW u \in alone' PROVE OneRun(u)' /\ SeenCounts(u)'
      OBVIOUS
    <3>1. u \in alone /\ u \in Tasks /\ OneRun(u) /\ SeenCounts(u)
      BY <1>1, <2>1 DEF CountInv
    <3>2. OneRun(u)'
      BY <2>1, <3>1 DEF OneRun, InProgress
    <3>3. SeenCounts(u)'
      BY <2>1, <2>2, <3>1 DEF SeenCounts, MidRun
    <3> QED BY <3>2, <3>3
  <2>5. CountsAgree'
    <3> SUFFICES ASSUME NEW u \in alone', Exists(u)'
                 PROVE  /\ row'[u].executions = Cardinality(Done(u, "SUCCESS")')
                        /\ row'[u].failures = Cardinality(Done(u, "FAILED")')
      BY DEF CountsAgree, Done
    <3>1. CASE u = t
      <4>1. Done(u, "SUCCESS")' = {} /\ Done(u, "FAILED")' = {}
        BY <2>1, <2>2, <3>1 DEF Done
      <4> QED BY <2>1, <3>1, <4>1, FS_EmptySet
    <3>2. CASE u # t
      BY <1>1, <2>1, <3>2 DEF CountInv, CountsAgree, Exists, Done
    <3> QED BY <3>1, <3>2
  <2> QED BY <2>3, <2>4, <2>5 DEF CountInv
<1>3. ASSUME NEW t \in Tasks, NEW kind, NEW rec, NEW enabled,
             LoadTask(t, kind, rec, enabled)
      PROVE  CountInv'
  BY <1>1, <1>3, CountsStay DEF LoadTask, SameCounts
<1>4. CASE SaveTask
  <2> DEFINE new == IF edit.kind = "toggle" THEN ToggleTask(edit.seen)
                    ELSE UpdateTask(edit.seen, edit.rec, edit.enabled)
             t == edit.task
  <2>1. /\ t \in Tasks /\ edit.seen \in Row /\ row[t] \in Row
        /\ new \in Row /\ SameCounts(new, edit.seen)
    BY <1>1, EditedRow DEF Edits
  <2>2. SameCounts(Flushed(row[t], edit.seen, new), row[t])
    BY <2>1, FlushedRow DEF SameCounts, Columns
  <2>3. /\ row' \in {row, [row EXCEPT ![t] = Flushed(row[t], edit.seen, new)]}
        /\ UNCHANGED <<run, alone>>
    BY <1>4 DEF SaveTask
  <2> HIDE DEF new, t
  <2>4. \A u \in Tasks : SameCounts(row'[u], row[u])
    BY <1>1, <2>1, <2>2, <2>3 DEF SameCounts
  <2> QED BY <1>1, <2>3, <2>4, CountsStay
<1>5. ASSUME NEW t \in Tasks, DeleteTask(t) PROVE CountInv'
  <2>1. /\ row'[t].exists = "deleted" /\ row'[t].executions = row[t].executions
        /\ row'[t].failures = row[t].failures
        /\ \A u \in Tasks \ {t} : row'[u] = row[u]
        /\ UNCHANGED alone
    BY <1>1, <1>5 DEF DeleteTask, Row
  <2>2. \A r \in Runs : /\ run'[r].task = run[r].task /\ run'[r].pc = run[r].pc
                        /\ run'[r].seen = run[r].seen
                        /\ run'[r].exec = IF run[r].task = t THEN "none" ELSE run[r].exec
    BY <1>1, <1>5 DEF DeleteTask, RunState
  <2>3. \A r \in Runs : ExecInv(r)'
    BY <1>1, <2>1, <2>2 DEF CountInv, ExecInv, Exists, MidRun
  <2>4. \A u \in alone' : OneRun(u)' /\ SeenCounts(u)'
    <3> SUFFICES ASSUME NEW u \in alone' PROVE OneRun(u)' /\ SeenCounts(u)'
      OBVIOUS
    <3>1. u \in Tasks /\ OneRun(u) /\ SeenCounts(u)
      BY <1>1, <2>1 DEF CountInv
    <3>2. OneRun(u)'
      BY <2>2, <3>1 DEF OneRun, InProgress
    <3>3. SeenCounts(u)'
      BY <2>1, <2>2, <3>1 DEF SeenCounts
    <3> QED BY <3>2, <3>3
  <2>5. CountsAgree'
    <3> SUFFICES ASSUME NEW u \in alone', Exists(u)'
                 PROVE  /\ row'[u].executions = Cardinality(Done(u, "SUCCESS")')
                        /\ row'[u].failures = Cardinality(Done(u, "FAILED")')
      BY DEF CountsAgree, Done
    <3>1. u # t /\ u \in alone /\ u \in Tasks /\ row'[u] = row[u] /\ Exists(u)
      BY <1>1, <2>1 DEF Exists
    <3>2. \A result \in Ended : Done(u, result)' = Done(u, result)
      BY <2>2, <3>1 DEF Done
    <3> QED BY <3>1, <3>2, CountsAreDone DEF CountInv, Ended
  <2> QED BY <2>3, <2>4, <2>5 DEF CountInv
<1> QED BY <1>2, <1>3, <1>4, <1>5 DEF Request

LEMMA CheckCounts ==
    ASSUME TypeInv, CountInv, NEW k \in Checks, CheckTasks(k) \/ CheckFails(k)
    PROVE  CountInv'
<1> USE DEF budget, history
<1>1. /\ row \in [Tasks -> Row] /\ check[k] \in CheckState /\ alone \subseteq Tasks
      /\ check[k].step # "idle" => check[k].at \in Instant /\ check[k].at.day <= MaxDay
      /\ \A r \in Runs : run[r].task \in Tasks
  BY DEF TypeInv, TypeOK, TimeInv, CheckState
<1>2. CASE CheckRead(k) \/ CheckFails(k) \/ \E t \in Tasks : Send(k, t)
  BY <1>1, <1>2, CountsStay DEF CheckRead, CheckFails, Send, SameCounts
<1>3. CASE CheckCommit(k)
  <2>1. ASSUME NEW t \in Tasks
        PROVE  SameCounts(Flushed(row[t], check[k].seen[t],
                                  Advanced(check[k].seen[t], check[k].at)), row[t])
    <3>1. row[t] \in Row /\ check[k].seen[t] \in Row
      BY <1>1 DEF CheckState
    <3>2. check[k].at \in Instant /\ check[k].at.day <= MaxDay
      BY <1>1, <1>3 DEF CheckCommit
    <3>3. /\ Advanced(check[k].seen[t], check[k].at) \in Row
          /\ SameCounts(Advanced(check[k].seen[t], check[k].at), check[k].seen[t])
      BY <3>1, <3>2, AdvancedRow
    <3> QED BY <3>1, <3>3, FlushedRow DEF SameCounts, Columns
  <2>2. \A t \in Tasks : SameCounts(row'[t], row[t])
    BY <1>3, <2>1 DEF CheckCommit, SameCounts
  <2> QED BY <1>1, <1>3, <2>2, CountsStay DEF CheckCommit
<1> QED BY <1>2, <1>3 DEF CheckTasks

LEMMA ExecuteCounts ==
    ASSUME TypeInv, CountInv, NEW r \in Runs, Execute(r)
    PROVE  CountInv'
<1> USE DEF budget, history
<1>1. /\ row \in [Tasks -> Row] /\ run \in [Runs -> RunState] /\ run[r] \in RunState
      /\ run[r].task \in Tasks /\ row[run[r].task] \in Row
      /\ now \in Instant /\ alone \subseteq Tasks
  BY DEF TypeInv, TypeOK, RunState
<1>2. ExecInv(r)
  BY DEF CountInv
(* The step of a run that does not end its execution. *)
<1>3. ASSUME NEW new \in RunState, run' = [run EXCEPT ![r] = new], UNCHANGED <<row, alone>>,
             new.task = run[r].task, new.pc \in Active => run[r].pc \in Active,
             new.exec \in Ended \/ run[r].exec \in Ended => new.exec = run[r].exec,
             /\ new.pc \in {"free", "check", "load", "validate"} => new.exec = "none"
             /\ new.pc \in MidRun => new.exec \in {"none", "RUNNING"}
             /\ new.exec # "none" => Exists(new.task)
             /\ new.pc \in {"validate"} \cup MidRun => row[new.task].exists # "no",
             new.pc \in {"validate", "commit"} =>
                 /\ new.seen.executions = row[new.task].executions
                 /\ new.seen.failures = row[new.task].failures
      PROVE  CountInv'
  <2>1. ExecInv(r)'
    BY <1>1, <1>3 DEF ExecInv, Exists
  <2> QED BY <1>1, <1>3, <2>1, RunGoesOn
<1>4. ASSUME Move(r, "ended"), run[r].pc # "free", UNCHANGED <<row, alone>>
      PROVE  CountInv'
  <2> DEFINE new == [run[r] EXCEPT !.pc = "ended"]
  <2>1. /\ new \in RunState /\ new.task = run[r].task /\ new.exec = run[r].exec
        /\ new.pc = "ended" /\ run' = [run EXCEPT ![r] = new]
    BY <1>1, <1>4 DEF Move, RunState
  <2> HIDE DEF new
  <2> QED BY <1>2, <1>3, <1>4, <2>1 DEF ExecInv, Active, MidRun
<1>5. ASSUME NEW t \in Tasks, Start(r, t) PROVE CountInv'
  <2> DEFINE new == [NoRun EXCEPT !.task = t, !.pc = "check", !.start = now]
  <2>1. /\ new \in RunState /\ new.task = t /\ new.exec = "none" /\ new.pc = "check"
    BY <1>1, EmptyStates DEF RunState, NoRun
  <2>2. /\ run' = [run EXCEPT ![r] = new] /\ run[r].pc = "free" /\ UNCHANGED row
        /\ alone' = IF InProgress(t) = {} THEN alone ELSE alone \ {t}
    BY <1>5 DEF Start
  <2> HIDE DEF new
  <2>3. /\ alone' \subseteq alone /\ t \in alone' => InProgress(t) = {}
    BY <2>2
  <2>4. run[r].exec = "none"
    BY <1>2, <2>2 DEF ExecInv
  <2>5. ExecInv(r)'
    BY <1>1, <2>1, <2>2 DEF ExecInv, MidRun
  <2> QED BY <1>1, <2>1, <2>2, <2>3, <2>4, <2>5, RunGoesOn DEF Ended
<1>6. CASE CheckDuplicateExecution(r)
  <2>1. PICK to \in {"load", "ended"} : Move(r, to)
    BY <1>6 DEF CheckDuplicateExecution
  <2> DEFINE new == [run[r] EXCEPT !.pc = to]
  <2>2. /\ new \in RunState /\ new.task = run[r].task /\ new.exec = run[r].exec
        /\ new.pc = to /\ run' = [run EXCEPT ![r] = new]
    BY <1>1, <2>1 DEF Move, RunState
  <2>3. run[r].pc = "check" /\ run[r].exec = "none" /\ UNCHANGED <<row, alone>>
    BY <1>2, <1>6 DEF CheckDuplicateExecution, ExecInv
  <2> HIDE DEF new
  <2> QED BY <1>3, <2>1, <2>2, <2>3 DEF Active, MidRun, Ended
<1>7. CASE LoadTaskAndUser(r)
  <2> DEFINE seen == row[run[r].task]
             runs == seen.exists = "yes" /\ seen.enabled
             new == [run[r] EXCEPT !.pc = IF runs THEN "validate" ELSE "ended",
                                   !.seen = IF runs THEN seen ELSE @]
  <2>1. /\ new \in RunState /\ new.task = run[r].task /\ new.exec = run[r].exec
        /\ \/ /\ new.pc = "validate" /\ new.seen = row[run[r].task]
              /\ row[run[r].task].exists = "yes"
           \/ new.pc = "ended"
    BY <1>1 DEF RunState
  <2>2. run' = [run EXCEPT ![r] = new]
    BY <1>1, <1>7 DEF LoadTaskAndUser, RunState
  <2>3. run[r].pc = "load" /\ run[r].exec = "none" /\ UNCHANGED <<row, alone>>
    BY <1>2, <1>7 DEF LoadTaskAndUser, ExecInv
  <2> HIDE DEF new
  <2> QED BY <1>3, <2>1, <2>2, <2>3 DEF Active, MidRun, Ended
<1>8. CASE KeysMissing(r)
  <2>1. run[r].pc = "validate" /\ UNCHANGED alone
    BY <1>8 DEF KeysMissing
  <2> QED BY <1>4, <1>8, <2>1, RecordCounts DEF KeysMissing
<1>9. CASE InsertExecution(r)
  <2> DEFINE new == IF Exists(run[r].task)
                    THEN [run[r] EXCEPT !.pc = "setup", !.exec = "RUNNING"]
                    ELSE [run[r] EXCEPT !.pc = "ended"]
  <2>1. /\ new \in RunState /\ new.task = run[r].task
        /\ \/ Exists(run[r].task) /\ new.pc = "setup" /\ new.exec = "RUNNING"
           \/ new.pc = "ended" /\ new.exec = run[r].exec
    BY <1>1 DEF RunState
  <2>2. run' = [run EXCEPT ![r] = new]
    BY <1>1, <1>9 DEF InsertExecution, RunState
  <2>3. run[r].pc = "validate" /\ run[r].exec = "none" /\ UNCHANGED <<row, alone>>
    BY <1>2, <1>9 DEF InsertExecution, ExecInv
  <2> HIDE DEF new
  <2> QED BY <1>3, <2>1, <2>2, <2>3 DEF Active, MidRun, Ended, Exists
<1>10. CASE SetUp(r)
  <2>1. PICK to \in {"stream", "ended"} : Move(r, to)
    BY <1>10 DEF SetUp
  <2> DEFINE new == [run[r] EXCEPT !.pc = to]
  <2>2. /\ new \in RunState /\ new.task = run[r].task /\ new.exec = run[r].exec
        /\ new.pc = to /\ run' = [run EXCEPT ![r] = new]
    BY <1>1, <2>1 DEF Move, RunState
  <2>3. run[r].pc = "setup" /\ UNCHANGED <<row, alone>>
    BY <1>10 DEF SetUp
  <2> HIDE DEF new
  <2> QED BY <1>2, <1>3, <2>1, <2>2, <2>3 DEF Active, MidRun, ExecInv
<1>11. ASSUME NEW ok \in BOOLEAN, Stream(r, ok) PROVE CountInv'
  <2> DEFINE new == [run[r] EXCEPT !.pc = "finish", !.ok = ok]
  <2>1. /\ new \in RunState /\ new.task = run[r].task /\ new.exec = run[r].exec
        /\ new.pc = "finish" /\ run' = [run EXCEPT ![r] = new]
    BY <1>1, <1>11 DEF Stream, RunState
  <2>2. run[r].pc = "stream" /\ UNCHANGED <<row, alone>>
    BY <1>11 DEF Stream
  <2> HIDE DEF new
  <2> QED BY <1>2, <1>3, <2>1, <2>2 DEF Active, MidRun, ExecInv
<1>12. CASE ReadForUpdate(r)
  <2> DEFINE new == [run[r] EXCEPT !.pc = "commit", !.seen = row[run[r].task]]
  <2>1. /\ new \in RunState /\ new.task = run[r].task /\ new.exec = run[r].exec
        /\ new.pc = "commit" /\ new.seen = row[run[r].task]
        /\ run' = [run EXCEPT ![r] = new]
    BY <1>1, <1>12 DEF ReadForUpdate, RunState
  <2>2. run[r].pc = "finish" /\ UNCHANGED <<row, alone>>
    BY <1>12 DEF ReadForUpdate
  <2> HIDE DEF new
  <2> QED BY <1>2, <1>3, <2>1, <2>2 DEF Active, MidRun, ExecInv
<1>13. CASE CompleteExecution(r)
  <2>1. run[r].ok \in BOOLEAN /\ run[r].pc = "commit" /\ UNCHANGED alone
    BY <1>1, <1>13 DEF CompleteExecution, RunState
  <2> QED BY <1>4, <1>13, <2>1, RecordCounts DEF CompleteExecution
<1>14. CASE CommitFails(r)
  <2> DEFINE new == [run[r] EXCEPT !.pc = IF run[r].ok THEN "finish" ELSE "ended",
                                   !.ok = FALSE]
  <2>1. /\ new \in RunState /\ new.task = run[r].task /\ new.exec = run[r].exec
        /\ new.pc \in {"finish", "ended"} /\ run' = [run EXCEPT ![r] = new]
    BY <1>1, <1>14 DEF CommitFails, RunState
  <2>2. run[r].pc = "commit" /\ UNCHANGED <<row, alone>>
    BY <1>14 DEF CommitFails
  <2> HIDE DEF new
  <2> QED BY <1>2, <1>3, <2>1, <2>2 DEF Active, MidRun, ExecInv
<1>15. CASE Acknowledge(r) \/ Crash(r)
  <2> DEFINE new == [run[r] EXCEPT !.pc = "done"]
  <2>1. /\ new \in RunState /\ new.task = run[r].task /\ new.exec = run[r].exec
        /\ new.pc = "done" /\ run' = [run EXCEPT ![r] = new]
    BY <1>1, <1>15 DEF Acknowledge, Crash, Move, RunState
  <2>2. UNCHANGED <<row, alone>>
    BY <1>15 DEF Acknowledge, Crash
  <2> HIDE DEF new
  <2> QED BY <1>2, <1>3, <2>1, <2>2 DEF Active, MidRun, ExecInv
<1> QED BY <1>5, <1>6, <1>7, <1>8, <1>9, <1>10, <1>11, <1>12, <1>13, <1>14, <1>15
        DEF Execute

LEMMA CountStep == TypeInv /\ CountInv /\ [Next]_vars => CountInv'
<1> SUFFICES ASSUME TypeInv, CountInv, [Next]_vars PROVE CountInv'
  OBVIOUS
<1>1. CASE Tick \/ UNCHANGED vars
  <2>1. UNCHANGED <<row, run, alone>>
    BY <1>1 DEF Tick, vars, history
  <2>2. alone \subseteq Tasks /\ \A r \in Runs : run[r].task \in Tasks
    BY DEF TypeInv, TypeOK
  <2> QED BY <2>1, <2>2, CountsStay DEF SameCounts
<1> QED BY <1>1, RequestCounts, CheckCounts, ExecuteCounts DEF Next

(* The counters of a task are the numbers of its executions that succeeded *)
(* and that failed, although every check, request and run writes the row   *)
(* over what it read: a session writes only the columns it changes.        *)
THEOREM CountersAgree == Spec => []CountsAgree
<1>1. Spec => []CountInv
  <2>1. TypeInv /\ TypeInv' /\ CountInv /\ [Next]_vars => CountInv'
    BY CountStep
  <2> QED BY <2>1, CountInit, TimeInvariant, PTL DEF Spec
<1>2. CountInv => CountsAgree
  BY DEF CountInv
<1> QED BY <1>1, <1>2, PTL
-----------------------------------------------------------------------------
(* No occurrence is dispatched twice.  The occurrence a task was last      *)
(* dispatched for is past, and lies before its next one, before the start  *)
(* of a run in progress and before what a check is about to dispatch.      *)
Times == Instant \cup {Never}

LEMMA BeforeOrder ==
    ASSUME NEW a \in Times, NEW b \in Times, NEW c \in Times
    PROVE  /\ Before(a, b) /\ Before(b, c) => Before(a, c)
           /\ ~Before(b, a) /\ Before(b, c) => Before(a, c)
           /\ ~Before(b, a) /\ ~Before(c, b) => ~Before(c, a)
           /\ Before(a, b) => b # Never
           /\ b # Never => Before(Never, b)
           /\ ~Before(b, Never) /\ ~Before(a, a)
BY CalendarAssumption DEF Times, Instant, Seconds, Never, At, Before

SlotOf(t) ==
    /\ ~Before(now, slot[t])
    /\ row[t].next = Never \/ Before(slot[t], row[t].next)
    /\ \A r \in InProgress(t) : ~Before(run[r].start, slot[t])
    /\ \A k \in Checks : check[k].step = "commit" /\ t \in check[k].due =>
           /\ Before(slot[t], check[k].seen[t].next)
           /\ ~Before(check[k].at, check[k].seen[t].next)
           /\ ~Before(now, check[k].at)

SlotInv == \A t \in alone : SlotOf(t)

(* Beat starts a check every five minutes: one has committed before the    *)
(* next one reads.                                                         *)
OneCheckAtATime ==
    \A j, k \in Checks : check[j].step = "commit" /\ check[k].step = "commit" => j = k

LEMMA SlotTypes ==
    TypeInv => /\ now \in Times /\ slot \in [Tasks -> Times] /\ alone \subseteq Tasks
               /\ row \in [Tasks -> Row] /\ \A t \in Tasks : row[t].next \in Times
               /\ run \in [Runs -> RunState] /\ \A r \in Runs : run[r].start \in Times
               /\ \A r \in Runs : run[r].pc # "free" => run[r].start \in Instant
               /\ check \in [Checks -> CheckState]
               /\ \A k \in Checks : /\ check[k].at \in Times
                                    /\ \A t \in Tasks : check[k].seen[t].next \in Times
BY DEF TypeInv, TypeOK, TimeInv, Row, RunState, CheckState, Times

LEMMA AloneShrinks == [Next]_vars => alone' \subseteq alone
BY DEF Next, vars, history, budget, Tick, Request, CreateTask, LoadTask, SaveTask,
       DeleteTask, CheckTasks, CheckRead, CheckCommit, Send, CheckFails, Execute, Start,
       CheckDuplicateExecution, LoadTaskAndUser, KeysMissing, InsertExecution, SetUp, Stream,
       ReadForUpdate, CompleteExecution, CommitFails, Acknowledge, Crash

(* Only a start puts a run in progress. *)
LEMMA StillInProgress ==
    ASSUME TypeInv, NEW r \in Runs, Execute(r), ~ \E t \in Tasks : Start(r, t),
           NEW t \in Tasks, NEW q \in InProgress(t)'
    PROVE  q \in InProgress(t) /\ run'[q].start = run[q].start
<1>1. run \in [Runs -> RunState] /\ run[r] \in RunState /\ q \in Runs
  BY DEF TypeInv, TypeOK, RunState, InProgress
<1>2. /\ run'[q].task = run[q].task /\ run'[q].start = run[q].start
      /\ run'[q].pc \in Active => run[q].pc \in Active
  <2> USE DEF Active, MidRun, RunState
  <2>1. CASE CheckDuplicateExecution(r)
    BY <1>1, <2>1 DEF CheckDuplicateExecution, Move
  <2>2. CASE LoadTaskAndUser(r)
    <3>1. run' \in [Runs -> RunState] /\ run[r].pc \in Active
      BY <2>2, ExecuteType DEF TypeInv, TypeOK, LoadTaskAndUser
    <3>2. \A c \in {"task", "start"} : run'[r][c] = run[r][c]
      BY <1>1, <2>2 DEF LoadTaskAndUser
    <3>3. q # r => run'[q] = run[q]
      BY <1>1, <2>2 DEF LoadTaskAndUser
    <3> QED BY <3>1, <3>2, <3>3
  <2>3. CASE KeysMissing(r)
    <3>1. CASE Record(r, FALSE)
      BY <1>1, <3>1 DEF Record
    <3>2. CASE Move(r, "ended")
      BY <1>1, <3>2 DEF Move
    <3> QED BY <2>3, <3>1, <3>2 DEF KeysMissing
  <2>4. CASE InsertExecution(r)
    BY <1>1, <2>4 DEF InsertExecution
  <2>5. CASE SetUp(r)
    BY <1>1, <2>5 DEF SetUp, Move
  <2>6. CASE \E ok \in BOOLEAN : Stream(r, ok)
    BY <1>1, <2>6 DEF Stream
  <2>7. CASE ReadForUpdate(r)
    BY <1>1, <2>7 DEF ReadForUpdate
  <2>8. CASE CompleteExecution(r)
    BY <1>1, <2>8 DEF CompleteExecution, Record, Move
  <2>9. CASE CommitFails(r)
    BY <1>1, <2>9 DEF CommitFails
  <2>10. CASE Acknowledge(r) \/ Crash(r)
    BY <1>1, <2>10 DEF Acknowledge, Crash, Move
  <2> QED BY <2>1, <2>2, <2>3, <2>4, <2>5, <2>6, <2>7, <2>8, <2>9, <2>10 DEF Execute
<1>3. run[q] \in RunState /\ run'[q].task = t /\ run'[q].pc \in Active
  <2>1. run' \in [Runs -> RunState]
    BY ExecuteType DEF TypeInv, TypeOK, RunState
  <2> QED BY <1>1, <2>1 DEF InProgress, Active, MidRun, RunState
<1> QED BY <1>1, <1>2, <1>3 DEF InProgress, Active, MidRun

LEMMA SlotInit == Init => SlotInv
<1> SUFFICES ASSUME Init, NEW t \in alone PROVE SlotOf(t)
  BY DEF SlotInv
<1>1. /\ slot[t] = Never /\ row[t].next = Never /\ now \in Times /\ Never \in Times
      /\ \A k \in Checks : check[k].step = "idle"
      /\ InProgress(t) = {}
  BY CalendarAssumption
     DEF Init, NoRow, NoCheck, NoRun, InProgress, Times, Instant, At, Seconds
<1>2. ~Before(now, slot[t])
  BY <1>1, BeforeOrder
<1> QED BY <1>1, <1>2 DEF SlotOf

(* What is read, started or sent changes no occurrence. *)
LEMMA SlotsStay ==
    ASSUME TypeInv, SlotInv, alone' \subseteq alone, UNCHANGED <<now, slot>>,
           \A t \in alone' : row'[t].next = row[t].next,
           \A t \in Tasks : \A r \in InProgress(t)' :
               r \in InProgress(t) /\ run'[r].start = run[r].start,
           \A k \in Checks : check'[k].step = "commit" => check'[k] = check[k]
    PROVE  SlotInv'
<1> SUFFICES ASSUME NEW t \in alone' PROVE SlotOf(t)'
  BY DEF SlotInv
<1>1. t \in Tasks /\ SlotOf(t)
  BY SlotTypes DEF SlotInv
<1> QED BY <1>1 DEF SlotOf

LEMMA RequestSlots == TypeInv /\ SlotInv /\ Request => SlotInv'
<1> SUFFICES ASSUME TypeInv, SlotInv, Request PROVE SlotInv'
  OBVIOUS
<1> USE DEF budget, history
<1>1. /\ now \in Instant /\ now.day <= MaxDay /\ row \in [Tasks -> Row] /\ edit \in Edits
      /\ run \in [Runs -> RunState] /\ alone \subseteq Tasks
      /\ now \in Times /\ slot \in [Tasks -> Times] /\ Never \in Times
      /\ \A t \in Tasks : row[t].next \in Times
  BY SlotTypes DEF TypeInv, TypeOK, TimeInv, Edits, RunState, Times
<1>2. ASSUME NEW t \in Tasks, NEW rec \in Recurrences, CreateTask(t, rec)
      PROVE  SlotInv'
  <2> SUFFICES ASSUME NEW u \in alone' PROVE SlotOf(u)'
    BY DEF SlotInv
  <2>1. /\ UNCHANGED <<now, slot, run, check, alone>> /\ u \in Tasks /\ SlotOf(u)
        /\ row'[u].next = IF u = t THEN Initial(rec) ELSE row[u].next
    BY <1>1, <1>2 DEF CreateTask, NoRow, SlotInv
  <2>2. Initial(rec) \in Times /\ Before(now, Initial(rec))
    BY <1>1, NextAfter DEF Initial, Times, IsFirstAfter
  <2>3. row'[u].next = Never \/ Before(slot[u], row'[u].next)
    <3>1. Before(slot[u], Initial(rec))
      BY <1>1, <2>1, <2>2, BeforeOrder DEF SlotOf
    <3> QED BY <2>1, <3>1 DEF SlotOf
  <2> QED BY <2>1, <2>3 DEF SlotOf, InProgress
<1>3. ASSUME NEW t \in Tasks, NEW kind, NEW rec, NEW enabled,
             LoadTask(t, kind, rec, enabled)
      PROVE  SlotInv'
  BY <1>3, SlotsStay DEF LoadTask, InProgress
<1>4. CASE SaveTask
  <2> SUFFICES ASSUME NEW u \in alone' PROVE SlotOf(u)'
    BY DEF SlotInv
  <2>1. /\ UNCHANGED <<now, run, check, alone>> /\ u \in Tasks /\ SlotOf(u)
        /\ slot'[u] = IF u = edit.task THEN Never ELSE slot[u]
        /\ u # edit.task => row'[u] = row[u]
    BY <1>1, <1>4 DEF SaveTask, SlotInv, Edits
  <2>2. row'[u].next \in Times
    BY <2>1, RequestType DEF TypeInv, TypeOK, Row, Times
  <2>3. CASE u = edit.task
    <3>1. row'[u].next = Never \/ Before(slot'[u], row'[u].next)
      BY <1>1, <2>1, <2>2, <2>3, BeforeOrder
    <3>2. ~Before(now, slot'[u]) /\ \A r \in InProgress(u) : ~Before(run[r].start, slot'[u])
      BY <1>1, <2>1, <2>3, BeforeOrder, SlotTypes DEF InProgress
    <3>3. ASSUME NEW k \in Checks, check[k].step = "commit", u \in check[k].due
          PROVE  Before(slot'[u], check[k].seen[u].next)
      <4>1. Before(slot[u], check[k].seen[u].next) /\ check[k].seen[u].next \in Times
        BY <2>1, <3>3, SlotTypes DEF SlotOf
      <4> QED BY <1>1, <2>1, <2>3, <4>1, BeforeOrder
    <3> QED BY <2>1, <3>1, <3>2, <3>3 DEF SlotOf, InProgress
  <2>4. CASE u # edit.task
    BY <2>1, <2>4 DEF SlotOf, InProgress
  <2> QED BY <2>3, <2>4
<1>5. ASSUME NEW t \in Tasks, DeleteTask(t) PROVE SlotInv'
  <2>1. \A u \in Tasks : row'[u].next = row[u].next
    BY <1>1, <1>5 DEF DeleteTask, Row
  <2>2. \A r \in Runs : /\ run'[r].task = run[r].task /\ run'[r].pc = run[r].pc
                        /\ run'[r].start = run[r].start
    BY <1>1, <1>5 DEF DeleteTask, RunState
  <2>3. UNCHANGED <<now, slot, check, alone>>
    BY <1>5 DEF DeleteTask
  <2> QED BY <1>1, <2>1, <2>2, <2>3, SlotsStay DEF InProgress
<1> QED BY <1>2, <1>3, <1>4, <1>5 DEF Request

LEMMA CheckSlots ==
    ASSUME TypeInv, SlotInv, OneCheckAtATime, NEW k \in Checks,
           CheckTasks(k) \/ CheckFails(k)
    PROVE  SlotInv'
<1> USE DEF budget, history
<1>1. /\ check \in [Checks -> CheckState] /\ check[k] \in CheckState
      /\ slot \in [Tasks -> Times] /\ alone \subseteq Tasks /\ now \in Times
  BY SlotTypes
<1>2. CASE CheckRead(k)
  <2> SUFFICES ASSUME NEW t \in alone' PROVE SlotOf(t)'
    BY DEF SlotInv
  <2>1. UNCHANGED <<now, row, run, slot, alone>> /\ t \in Tasks /\ SlotOf(t)
    BY <1>1, <1>2 DEF CheckRead, SlotInv
  <2>2. /\ \A j \in Checks : j # k => check'[j] = check[j]
        /\ check'[k].at = now /\ check'[k].seen = row
        /\ t \in check'[k].due => Due(row[t])
    BY <1>1, <1>2 DEF CheckRead
  <2>3. Due(row[t]) => Before(slot[t], row[t].next) /\ ~Before(now, row[t].next)
    BY <2>1 DEF SlotOf, Due
  <2>4. ~Before(now, now)
    BY <1>1, BeforeOrder
  <2> QED BY <2>1, <2>2, <2>3, <2>4 DEF SlotOf, InProgress
<1>3. CASE CheckCommit(k) /\ ~ \A t \in check[k].due : Exists(t)
  <2>1. /\ check' = [check EXCEPT ![k] = NoCheck]
        /\ UNCHANGED <<now, row, run, slot, alone>>
    BY <1>3 DEF CheckCommit
  <2>2. \A j \in Checks : check'[j].step = "commit" => check'[j] = check[j]
    BY <1>1, <2>1 DEF NoCheck
  <2> QED BY <1>1, <2>1, <2>2, SlotsStay DEF InProgress
<1>4. CASE CheckCommit(k) /\ \A t \in check[k].due : Exists(t)
  <2> SUFFICES ASSUME NEW t \in alone' PROVE SlotOf(t)'
    BY DEF SlotInv
  <2>1. /\ check[k].step = "commit" /\ UNCHANGED <<now, run>>
        /\ t \in Tasks /\ t \in alone /\ SlotOf(t)
        /\ t \in check[k].due => InProgress(t) = {}
    BY <1>1, <1>4 DEF CheckCommit, SlotInv
  <2>2. \A j \in Checks : check'[j].step # "commit"
    BY <1>1, <1>4, <2>1 DEF CheckCommit, CheckState, OneCheckAtATime
  <2>3. CASE t \notin check[k].due
    <3>1. row'[t] = row[t] /\ slot'[t] = slot[t]
      BY <1>4, <2>1, <2>3 DEF CheckCommit
    <3> QED BY <2>1, <2>2, <3>1 DEF SlotOf, InProgress
  <2>4. CASE t \in check[k].due
    <3> DEFINE seen == check[k].seen[t]
               new == Advanced(seen, check[k].at)
    <3>1. /\ row[t] \in Row /\ seen \in Row /\ seen.next \in Times /\ check[k].at \in Times
          /\ slot[t] \in Times
      BY <1>1, <2>1, SlotTypes DEF CheckState
    <3>2. check[k].at \in Instant /\ check[k].at.day <= MaxDay
      BY <2>1 DEF TypeInv, TimeInv
    <3>3. /\ Before(slot[t], seen.next) /\ ~Before(check[k].at, seen.next)
          /\ ~Before(now, check[k].at)
      BY <2>1, <2>4 DEF SlotOf
    <3>4. /\ new \in Row /\ new.next \in Times
          /\ new.next = Never \/ Before(check[k].at, new.next)
      BY <3>1, <3>2, AdvancedRow DEF Row, Times
    <3>5. slot'[t] = seen.next /\ row'[t] = Flushed(row[t], seen, new)
      BY <1>4, <2>1, <2>4 DEF CheckCommit
    <3> HIDE DEF seen, new
    <3>6. seen.next # Never
      BY <3>1, <3>3, BeforeOrder
    <3>7. new.next # seen.next
      BY <3>1, <3>3, <3>4, <3>6
    <3>8. row'[t].next = new.next
      BY <3>1, <3>4, <3>5, <3>7, FlushedRow DEF Columns
    <3>9. new.next = Never \/ Before(seen.next, new.next)
      BY <3>1, <3>3, <3>4, BeforeOrder
    <3>10. ~Before(now, seen.next)
      BY <1>1, <3>1, <3>3, BeforeOrder
    <3>11. InProgress(t)' = {}
      BY <2>1, <2>4 DEF InProgress
    <3> QED BY <2>1, <2>2, <3>5, <3>8, <3>9, <3>10, <3>11 DEF SlotOf
  <2> QED BY <2>3, <2>4
<1>5. ASSUME NEW t \in Tasks, Send(k, t) PROVE SlotInv'
  <2>1. UNCHANGED <<now, row, run, slot, alone>>
    BY <1>5 DEF Send
  <2>2. \A j \in Checks : check'[j].step = "commit" => check'[j] = check[j]
    BY <1>1, <1>5 DEF Send, NoCheck, CheckState
  <2> QED BY <1>1, <2>1, <2>2, SlotsStay DEF InProgress
<1>6. CASE CheckFails(k)
  <2>1. UNCHANGED <<now, row, run, slot, alone>>
    BY <1>6 DEF CheckFails
  <2>2. \A j \in Checks : check'[j].step = "commit" => check'[j] = check[j]
    BY <1>1, <1>6 DEF CheckFails, NoCheck
  <2> QED BY <1>1, <2>1, <2>2, SlotsStay DEF InProgress
<1> QED BY <1>2, <1>3, <1>4, <1>5, <1>6 DEF CheckTasks

LEMMA ExecuteSlots ==
    ASSUME TypeInv, SlotInv, NEW r \in Runs, Execute(r)
    PROVE  SlotInv'
<1> USE DEF budget, history
<1>1. /\ row \in [Tasks -> Row] /\ run \in [Runs -> RunState] /\ run[r].task \in Tasks
      /\ alone \subseteq Tasks /\ now \in Times
  BY SlotTypes DEF RunState
<1>2. ASSUME NEW t \in Tasks, Start(r, t) PROVE SlotInv'
  <2> SUFFICES ASSUME NEW u \in alone' PROVE SlotOf(u)'
    BY DEF SlotInv
  <2>1. UNCHANGED <<now, row, check, slot>> /\ u \in Tasks /\ SlotOf(u)
    BY <1>1, <1>2 DEF Start, SlotInv
  <2>2. \A q \in Runs : run'[q] = run[q] \/ run'[q].start = now
    BY <1>1, <1>2, EmptyStates DEF Start, RunState
  <2>3. \A q \in InProgress(u)' : ~Before(run'[q].start, slot[u])
    BY <2>1, <2>2 DEF SlotOf, InProgress
  <2> QED BY <2>1, <2>3 DEF SlotOf
<1>3. ASSUME ~ \E t \in Tasks : Start(r, t) PROVE SlotInv'
  <2>1. UNCHANGED <<now, check, slot, alone>>
    BY <1>3 DEF Execute, CheckDuplicateExecution, LoadTaskAndUser, KeysMissing,
                InsertExecution, SetUp, Stream, ReadForUpdate, CompleteExecution,
                CommitFails, Acknowledge, Crash
  <2>2. \A t \in Tasks : \A q \in InProgress(t)' :
            q \in InProgress(t) /\ run'[q].start = run[q].start
    BY <1>3, StillInProgress
  <2>3. CASE UNCHANGED row
    BY <1>1, <2>1, <2>2, <2>3, SlotsStay
  <2>4. ASSUME NEW ok \in BOOLEAN, Record(r, ok), run[r].pc \in {"validate", "commit"}
        PROVE  SlotInv'
    <3> SUFFICES ASSUME NEW u \in alone' PROVE SlotOf(u)'
      BY DEF SlotInv
    <3>1. u \in Tasks /\ SlotOf(u) /\ slot[u] \in Times /\ row[u] \in Row
      BY <1>1, <2>1, SlotTypes DEF SlotInv
    <3>2. CASE u # run[r].task
      <4>1. row'[u] = row[u]
        BY <1>1, <2>4, <3>1, <3>2 DEF Record
      <4> QED BY <2>1, <2>2, <3>1, <4>1 DEF SlotOf
    <3>3. CASE u = run[r].task
      <4> DEFINE seen == run[r].seen
                 new == AfterExecution(seen, run[r].start, ok)
      <4>1. row'[u] = Flushed(row[u], seen, new)
        BY <1>1, <2>4, <3>1, <3>3 DEF Record
      <4>2. /\ seen \in Row /\ run[r].start \in Instant /\ run[r].start.day <= MaxDay
            /\ run[r].start \in Times
        BY <1>1, <2>4 DEF TypeInv, TimeInv, RunState, Times
      <4>3. /\ new \in Row /\ new.next \in Times
            /\ new.next = Never \/ Before(run[r].start, new.next)
        <5>1. new \in Row /\ (new.next = Never \/ Before(run[r].start, new.next))
          BY <4>2, ExecutedRow
        <5> HIDE DEF new
        <5> QED BY <5>1 DEF Row, Times
      <4>4. ~Before(run[r].start, slot[u])
        BY <2>4, <3>1, <3>3 DEF SlotOf, InProgress
      <4> HIDE DEF seen, new
      <4>5. new.next = Never \/ Before(slot[u], new.next)
        BY <3>1, <4>2, <4>3, <4>4, BeforeOrder
      <4>6. row'[u].next \in {new.next, row[u].next}
        BY <3>1, <4>1, <4>2, <4>3, FlushedRow DEF Columns
      <4> QED BY <2>1, <2>2, <3>1, <4>5, <4>6 DEF SlotOf
    <3> QED BY <3>2, <3>3
  <2>5. \/ UNCHANGED row
        \/ \E ok \in BOOLEAN : Record(r, ok) /\ run[r].pc \in {"validate", "commit"}
    <3>1. run[r].ok \in BOOLEAN
      BY <1>1 DEF RunState
    <3> QED BY <1>3, <3>1
            DEF Execute, CheckDuplicateExecution, LoadTaskAndUser, KeysMissing,
                InsertExecution, SetUp, Stream, ReadForUpdate, CompleteExecution,
                CommitFails, Acknowledge, Crash
  <2> QED BY <2>3, <2>4, <2>5
<1> QED BY <1>2, <1>3

LEMMA TickSlots == TypeInv /\ SlotInv /\ Tick => SlotInv'
<1> SUFFICES ASSUME TypeInv, SlotInv, Tick, NEW t \in alone' PROVE SlotOf(t)'
  BY DEF SlotInv
<1>1. /\ UNCHANGED <<row, run, check, slot, alone>> /\ t \in Tasks /\ SlotOf(t)
      /\ now \in Times /\ slot[t] \in Times /\ \A k \in Checks : check[k].at \in Times
  BY SlotTypes DEF Tick, history, SlotInv
<1>2. now' \in Times /\ Before(now, now')
  <2>1. now \in Instant
    BY DEF TypeInv, TypeOK
  <2>2. now' = IF now.sec + 1 < DayLength THEN At(now.day, now.sec + 1)
                                          ELSE At(now.day + 1, 0)
    BY DEF Tick
  <2> QED BY <2>1, <2>2, CalendarAssumption DEF Times, Instant, Seconds, At, Before
<1>3. \A a \in Times : ~Before(now, a) => ~Before(now', a)
  BY <1>1, <1>2, BeforeOrder
<1> QED BY <1>1, <1>3 DEF SlotOf, InProgress

LEMMA SlotStep == TypeInv /\ SlotInv /\ OneCheckAtATime /\ [Next]_vars => SlotInv'
<1> SUFFICES ASSUME TypeInv, SlotInv, OneCheckAtATime, [Next]_vars PROVE SlotInv'
  OBVIOUS
<1>1. CASE UNCHANGED vars
  BY <1>1 DEF vars, history, SlotInv, SlotOf, InProgress
<1> QED BY <1>1, TickSlots, RequestSlots, CheckSlots, ExecuteSlots DEF Next

(* While no two checks of beat overlap, no occurrence is dispatched twice: *)
(* the commit of a check dispatches each task for a later occurrence than  *)
(* the last, whichever of the check, the end of a run and a request wrote  *)
(* next_execution in between, unless a run of the task met a dispatch.     *)
THEOREM DispatchedOnce == Spec /\ []OneCheckAtATime => OccurrenceOnce
<1> DEFINE Dispatch == \A k \in Checks, t \in Tasks :
                          /\ check[k].step = "commit" /\ check'[k].step = "send"
                          /\ t \in check[k].due \cap alone'
                          => Before(slot[t], check[k].seen[t].next)
<1>1. SlotInv /\ [Next]_vars => Dispatch
  BY AloneShrinks DEF SlotInv, SlotOf
<1>2. Spec /\ []OneCheckAtATime => []SlotInv
  BY SlotInit, SlotStep, TimeInvariant, PTL DEF Spec
<1>3. Spec /\ []OneCheckAtATime => [][Dispatch]_vars
  BY <1>1, <1>2, PTL DEF Spec
<1> QED BY <1>3 DEF OccurrenceOnce
=============================================================================
