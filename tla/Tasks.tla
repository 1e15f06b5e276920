------------------------------- MODULE Tasks -------------------------------
(***************************************************************************)
(* The scheduled tasks of the settings page: the list, the dialog with the *)
(* time of the browser's clock, and the requests, which the server answers *)
(* in any order; a request or its answer may be lost.                      *)
(*   frontend hooks/useTaskManagement.ts, hooks/queries/useScheduling.ts,  *)
(*   components/settings/tabs/TasksSettingsTab.tsx,                        *)
(*   components/settings/dialogs/TaskDialog.tsx, components/ui/            *)
(*   TimePicker.tsx, ConfirmDialog.tsx, utils/timezone.ts                  *)
(*   backend  services/scheduler.py                                        *)
(* Minutes are left out, and so are monthly tasks, whose day is handled as *)
(* that of a weekly one.  The module Scheduler has the executions.         *)
(***************************************************************************)
EXTENDS Naturals, FiniteSets

CONSTANTS
  PickedHours, \* hours of the picker, in 1 .. 12
  PickedDays,  \* days of the week, in 0 .. 6
  Offsets,     \* hours the browser's clock is ahead of UTC, modulo 24
  MaxTasks,    \* bound: tasks ever created
  Limit,       \* MAX_TASKS_PER_USER, MAX_TASKS_LIMIT
  MaxTouches,  \* bound: changes of the form
  MaxRequests, \* bound: requests
  MaxErrors,   \* bound: requests and fetches that fail
  MaxClock     \* bound: changes of the clock

VARIABLES
  offset,   \* of the browser, now
  tasks,    \* rows: id -> [hour, day, rec, enabled]
  list,     \* what the query holds of them
  fetch,    \* the query's call: [st, list, unheard], st "idle", "sent" or "read"; (history)
            \*   `unheard' is the tasks whose change may have come after the reading
  dialog,   \* what is open: [kind, id], kind "none", "task" or "delete"
  form,     \* of the dialog: [hour, day, rec]
  calls,    \* requests under way: [n, kind, id, data, st, asked]
  toggling, \* togglingTaskId, 0 for none
  deleting, \* deletingTaskId
  counts,   \* numbers of changes, requests, failures and changes of the clock there were
  asked,    \* (history) id -> what the form showed when the row was last written
  opened,   \* (history) the row the dialog was opened for, the offset then, and
            \*   whether the form was touched since
  unheard,  \* (history) tasks that the list may show as they were: the answer to a change
            \*   was lost, or that to the query
  crowded   \* (history) two requests checked the limit at a time

vars == <<offset, tasks, list, fetch, dialog, form, calls, toggling, deleting, counts, asked,
          opened, unheard, crowded>>

NoDay == 7
Default == [hour |-> 9, day |-> NoDay, rec |-> "daily"]
Closed == [kind |-> "none", id |-> 0]
Idle == [st |-> "idle", list |-> <<>>, unheard |-> {}]
Unopened == [row |-> Default, offset |-> 0, touched |-> TRUE]

Init ==
  /\ offset \in Offsets /\ tasks = <<>> /\ list = <<>> /\ fetch = Idle
  /\ dialog = Closed /\ form = Default /\ calls = {} /\ toggling = 0 /\ deleting = 0
  /\ counts = [touches |-> 0, requests |-> 0, errors |-> 0, clock |-> 0]
  /\ asked = <<>> /\ opened = Unopened /\ unheard = {} /\ crowded = FALSE

-----------------------------------------------------------------------------
(* Clocks *)

\* Mutant: the offset is added.
localTimeInputToUtc_Added(hour) == (hour + offset) % 24

localTimeInputToUtc(hour) == (hour + 24 - offset) % 24

\* Mutant: the hour is shown as it is stored.
utcTimeToLocalInput_Same(hour) == hour

utcTimeToLocalInput(hour) == (hour + offset) % 24

\* Mutant: noon is taken for midnight.
to24Hour_NoNoon(hour, period) == (hour % 12) + (IF period = "PM" /\ hour # 12 THEN 12 ELSE 0)

to24Hour(hour, period) ==
  CASE period = "AM" -> (IF hour = 12 THEN 0 ELSE hour)
    [] period = "PM" -> (IF hour = 12 THEN 12 ELSE hour + 12)

from24Hour(hour) ==
  CASE hour = 0  -> [hour |-> 12, period |-> "AM"]
    [] hour = 12 -> [hour |-> 12, period |-> "PM"]
    [] hour > 12 -> [hour |-> hour - 12, period |-> "PM"]
    [] OTHER     -> [hour |-> hour, period |-> "AM"]

\* Daylight saving, or a journey
ClockChanges ==
  /\ counts.clock < MaxClock /\ counts' = [counts EXCEPT !.clock = @ + 1]
  /\ offset' \in Offsets \ {offset}
  /\ UNCHANGED <<tasks, list, fetch, dialog, form, calls, toggling, deleting, asked, opened,
                 unheard, crowded>>

-----------------------------------------------------------------------------
(* The dialog *)

page == <<fetch, list, unheard>>
buttons == <<toggling, deleting>>

\* handleAddTask; the button counts all tasks of the list.
handleAddTask ==
  /\ dialog = Closed /\ Cardinality(DOMAIN list) < Limit
  /\ dialog' = [kind |-> "task", id |-> 0] /\ form' = Default
  /\ opened' = Unopened
  /\ UNCHANGED <<offset, tasks, page, calls, buttons, counts, asked, crowded>>

\* The form that shows a row
FormOf(row) ==
  [hour |-> utcTimeToLocalInput(row.hour), day |-> row.day, rec |-> row.rec]

handleEditTask(id) ==
  /\ dialog = Closed /\ id \in DOMAIN list
  /\ dialog' = [kind |-> "task", id |-> id] /\ form' = FormOf(list[id])
  /\ opened' = [row |-> list[id], offset |-> offset, touched |-> FALSE]
  /\ UNCHANGED <<offset, tasks, page, calls, buttons, counts, asked, crowded>>

handleTaskDialogClose ==
  /\ dialog.kind = "task"
  /\ dialog' = Closed /\ form' = Default /\ opened' = Unopened
  /\ UNCHANGED <<offset, tasks, page, calls, buttons, counts, asked, crowded>>

\* handleTaskFormChange
Touch(f) ==
  /\ dialog.kind = "task" /\ counts.touches < MaxTouches /\ f # form
  /\ counts' = [counts EXCEPT !.touches = @ + 1]
  /\ form' = f /\ opened' = [opened EXCEPT !.touched = TRUE]
  /\ UNCHANGED <<offset, tasks, page, dialog, calls, buttons, asked, crowded>>

\* The picker shows the value of the form: from24Hour(form.hour).
WithHour(hour) == to24Hour(hour, from24Hour(form.hour).period)
WithPeriod(period) == to24Hour(from24Hour(form.hour).hour, period)
PickHour(hour) == Touch([form EXCEPT !.hour = WithHour(hour)])
PickPeriod(period) == Touch([form EXCEPT !.hour = WithPeriod(period)])

\* handleRecurrenceChange: a weekly task begins on Monday, another has no day.
ChangeRecurrence(rec) ==
  Touch([form EXCEPT !.rec = rec, !.day = IF rec = "weekly" THEN 0 ELSE NoDay])

ChangeDay(day) == form.rec = "weekly" /\ Touch([form EXCEPT !.day = day])

NoData == [hour |-> 0, day |-> NoDay, rec |-> "daily"]
NoForm == [form |-> Default, offset |-> 0]

Ask(kind, id, data, shown) ==
  /\ counts.requests < MaxRequests
  /\ counts' = [counts EXCEPT !.requests = @ + 1]
  /\ calls' = calls \cup {[n |-> counts.requests + 1, kind |-> kind, id |-> id, data |-> data,
                           st |-> "sent", asked |-> shown]}

\* What is sent of the form
Data == [hour |-> localTimeInputToUtc(form.hour), day |-> form.day, rec |-> form.rec]

\* handleSaveTask with all that is required; the button may be pressed again before the answer.
handleSaveTask ==
  /\ dialog.kind = "task" /\ (form.rec = "weekly" => form.day # NoDay)
  /\ Ask(IF dialog.id = 0 THEN "create" ELSE "update", dialog.id, Data,
         [form |-> form, offset |-> offset])
  /\ UNCHANGED <<offset, tasks, page, dialog, form, buttons, asked, opened, crowded>>

\* handleToggleTask
handleToggleTask(id) ==
  /\ dialog = Closed /\ id \in DOMAIN list /\ toggling # id
  /\ toggling' = id /\ Ask("toggle", id, NoData, NoForm)
  /\ UNCHANGED <<offset, tasks, page, dialog, form, deleting, asked, opened, crowded>>

\* handleDeleteRequest
handleDeleteRequest(id) ==
  /\ dialog = Closed /\ id \in DOMAIN list /\ deleting # id
  /\ dialog' = [kind |-> "delete", id |-> id]
  /\ UNCHANGED <<offset, tasks, page, form, calls, buttons, counts, asked, opened, crowded>>

\* The dialog asks, and closes at once.
handleConfirmDelete ==
  /\ dialog.kind = "delete"
  /\ dialog' = Closed /\ deleting' = dialog.id /\ Ask("delete", dialog.id, NoData, NoForm)
  /\ UNCHANGED <<offset, tasks, page, form, toggling, asked, opened, crowded>>

handleCloseDeleteDialog ==
  /\ dialog.kind = "delete" /\ dialog' = Closed
  /\ UNCHANGED <<offset, tasks, page, form, calls, buttons, counts, asked, opened, crowded>>

-----------------------------------------------------------------------------
(* The server *)

Becomes(c, st) == {d \in calls : d.n # c.n} \cup {[c EXCEPT !.st = st]}
Enabled == {id \in DOMAIN tasks : tasks[id].enabled}
With(f, id, value) == [i \in DOMAIN f \cup {id} |-> IF i = id THEN value ELSE f[i]]

\* Mutant: a task is created without a look at the limit.
Limited_Toggle(c) == c.kind = "toggle" /\ c.id \in DOMAIN tasks /\ ~tasks[c.id].enabled

\* Requests that add to the tasks that are on
Limited(c) ==
  c.kind = "create" \/ (c.kind = "toggle" /\ c.id \in DOMAIN tasks /\ ~tasks[c.id].enabled)

\* _validate_task_limit, a query of its own
Check(c) ==
  /\ c.st = "sent" /\ Limited(c)
  /\ calls' = Becomes(c, IF Cardinality(Enabled) < Limit THEN "checked" ELSE "refused")
  /\ crowded' = (crowded \/ \E d \in calls : d.st = "checked")
  /\ UNCHANGED <<offset, tasks, page, dialog, form, buttons, counts, asked, opened>>

\* A day that is not sent is not changed.
Updated(row, data) ==
  [row EXCEPT !.hour = data.hour, !.rec = data.rec,
              !.day = IF data.day = NoDay THEN @ ELSE data.day]

\* The task a request is about
About(c) == IF c.kind = "create" THEN Cardinality(DOMAIN asked) + 1 ELSE c.id

Written(c) ==
  CASE c.kind = "create" ->
         With(tasks, About(c),
              [hour |-> c.data.hour, day |-> c.data.day, rec |-> c.data.rec, enabled |-> TRUE])
    [] c.kind = "update" -> With(tasks, c.id, Updated(tasks[c.id], c.data))
    [] c.kind = "toggle" -> With(tasks, c.id, [tasks[c.id] EXCEPT !.enabled = ~@])
    [] c.kind = "delete" -> [id \in DOMAIN tasks \ {c.id} |-> tasks[id]]

\* The request is done, or there is no such task.
Take(c) ==
  /\ IF Limited(c) THEN c.st = "checked" ELSE c.st \in {"sent", "checked"}
  /\ IF c.kind = "create" \/ c.id \in DOMAIN tasks
     THEN /\ c.kind = "create" => Cardinality(DOMAIN asked) < MaxTasks
          /\ tasks' = Written(c) /\ calls' = Becomes([c EXCEPT !.id = About(c)], "done")
          /\ asked' = IF c.kind \in {"create", "update"} THEN With(asked, About(c), c.asked)
                      ELSE asked
     ELSE calls' = Becomes(c, "refused") /\ UNCHANGED <<tasks, asked>>
  /\ UNCHANGED <<offset, page, dialog, form, buttons, counts, opened, crowded>>

-----------------------------------------------------------------------------
(* Answers *)

\* Mutant: an answer does not make the list old.
Invalidated_Not == fetch

\* invalidateQueries: the list is asked for anew, and an answer under way dropped.
Invalidated == [st |-> "sent", list |-> <<>>, unheard |-> {}]

\* The `finally' of a toggle and of a deletion
Ended(c) ==
  /\ calls' = calls \ {c}
  /\ toggling' = IF c.kind = "toggle" THEN 0 ELSE toggling
  /\ deleting' = IF c.kind = "delete" THEN 0 ELSE deleting

\* Once a task is saved the dialog of a task is closed, and once one is deleted the question,
\* whichever they are open for.
Return(c) ==
  /\ c.st = "done" /\ Ended(c) /\ fetch' = Invalidated
  /\ IF c.kind \in {"create", "update"}
     THEN /\ dialog' = (IF dialog.kind = "task" THEN Closed ELSE dialog)
          /\ form' = Default /\ opened' = Unopened
     ELSE /\ dialog' = (IF c.kind = dialog.kind THEN Closed ELSE dialog)
          /\ UNCHANGED <<form, opened>>
  /\ UNCHANGED <<offset, tasks, list, counts, asked, unheard, crowded>>

\* The list is not asked for, and the dialog stays open.
Refused(c) ==
  /\ c.st = "refused" /\ Ended(c)
  /\ UNCHANGED <<offset, tasks, page, dialog, form, counts, asked, opened, crowded>>

MayFail == counts.errors < MaxErrors
Failed == counts' = [counts EXCEPT !.errors = @ + 1]

\* The request or its answer is lost: the page takes it for refused, though the server may
\* have done it.
CallFails(c) ==
  /\ MayFail /\ Failed /\ Ended(c)
  /\ LET done == IF c.st = "done" THEN {c.id} ELSE {}
     IN /\ unheard' = unheard \cup done
        /\ fetch' = [fetch EXCEPT !.unheard = @ \cup IF fetch.st = "read" THEN done ELSE {}]
  /\ UNCHANGED <<offset, tasks, list, dialog, form, asked, opened, crowded>>

ListRead ==
  /\ fetch.st = "sent" /\ fetch' = [st |-> "read", list |-> tasks, unheard |-> {}]
  /\ UNCHANGED <<offset, tasks, list, dialog, form, calls, buttons, counts, asked, opened,
                 unheard, crowded>>

ListArrives ==
  /\ fetch.st = "read" /\ list' = fetch.list /\ unheard' = fetch.unheard /\ fetch' = Idle
  /\ UNCHANGED <<offset, tasks, dialog, form, calls, buttons, counts, asked, opened, crowded>>

\* The query and its one retry fail: the list stays.
ListFails ==
  /\ fetch.st # "idle" /\ MayFail /\ Failed
  /\ fetch' = Idle /\ unheard' = DOMAIN asked
  /\ UNCHANGED <<offset, tasks, list, dialog, form, calls, buttons, asked, opened, crowded>>

\* The picker of the time
TimePicker ==
  \/ \E hour \in PickedHours : PickHour(hour)
  \/ \E period \in {"AM", "PM"} : PickPeriod(period)

\* The dialog of a task: its fields, and the buttons
TaskDialog ==
  \/ \E rec \in {"daily", "weekly"} : ChangeRecurrence(rec)
  \/ \E day \in PickedDays : ChangeDay(day)
  \/ TimePicker \/ handleTaskDialogClose \/ handleSaveTask

\* The list: a button for a new task and three of each task, and the question
TasksSettingsTab ==
  \/ handleAddTask \/ handleConfirmDelete \/ handleCloseDeleteDialog
  \/ \E id \in 1 .. MaxTasks : handleEditTask(id) \/ handleToggleTask(id) \/ handleDeleteRequest(id)

Next ==
  \/ ClockChanges \/ TaskDialog \/ TasksSettingsTab \/ ListRead \/ ListArrives \/ ListFails
  \/ \E c \in calls : Check(c) \/ Take(c) \/ Return(c) \/ Refused(c) \/ CallFails(c)

Spec == Init /\ [][Next]_vars

-----------------------------------------------------------------------------
(* Properties *)

Rows == [hour : 0 .. 23, day : 0 .. NoDay, rec : {"daily", "weekly"}, enabled : BOOLEAN]

TypeOK ==
  /\ offset \in Offsets /\ form.hour \in 0 .. 23 /\ form.day \in 0 .. NoDay
  /\ \A id \in DOMAIN tasks : tasks[id] \in Rows
  /\ DOMAIN tasks \cup unheard \cup fetch.unheard \subseteq DOMAIN asked
  /\ \A c \in calls : c.st \in {"sent", "checked", "done", "refused"}

\* A task runs at the hour the form showed when it was saved, on the clock of then: past
\* midnight, at noon, and after edits.
HourAsShown ==
  \A id \in DOMAIN tasks : (tasks[id].hour + asked[id].offset) % 24 = asked[id].form.hour

\* A task that is opened and saved untouched, on the same clock, stays as it is.
UntouchedIsKept ==
  dialog.kind = "task" /\ ~opened.touched /\ opened.offset = offset =>
    Updated(opened.row, Data) = opened.row

\* Whatever is picked of the hour or of the half of the day, the picker then shows it,
\* and the other of the two stays.
PickedIsShown ==
  LET now == from24Hour(form.hour)
  IN /\ \A hour \in 1 .. 12 : from24Hour(WithHour(hour)) = [now EXCEPT !.hour = hour]
     /\ \A period \in {"AM", "PM"} :
          from24Hour(WithPeriod(period)) = [now EXCEPT !.period = period]

\* When nothing is under way the list is what is stored, however the answers overtook each
\* other, but for tasks whose change was not heard of since.
ListSettles ==
  calls = {} /\ fetch.st = "idle" =>
    \A id \in (DOMAIN list \cup DOMAIN tasks) \ unheard :
      id \in DOMAIN list \cap DOMAIN tasks /\ list[id] = tasks[id]

\* No more tasks are on than allowed, unless two requests looked at the limit at a time.
LimitHolds == ~crowded => Cardinality(Enabled) <= Limit
=============================================================================
