------------------------------ MODULE Scheduler ------------------------------
(***************************************************************************)
(* The scheduled tasks of one user: the requests that create, change and   *)
(* delete them (services/scheduler.py), the check that beat starts every   *)
(* five minutes and the Celery tasks that execute what is due              *)
(* (tasks/scheduler.py).                                                   *)
(*                                                                         *)
(* An ORM session reads a row, changes its copy and at the commit writes   *)
(* the columns that differ from what it read, over the row as it is then.  *)
(***************************************************************************)
EXTENDS Recurrence, FiniteSets

CONSTANTS Tasks,
          Recurrences,    (* the recurrences users choose                   *)
          NumChecks,      (* bound: checks under way at a time              *)
          NumRuns,        (* bound: deliveries that a worker takes up       *)
          Window,         (* the two minutes of check_duplicate_execution   *)
          MaxDay,         (* bound: days                                    *)
          MaxEdits,       (* bound: requests that change a task             *)
          MaxFaults       (* bound: failing commits and broker calls, and   *)
                          (* workers that die                               *)

ASSUME SchedulerAssumption ==
    /\ Tasks # {} /\ Recurrences # {} /\ Recurrences \subseteq Recurrence
    /\ NumChecks \in Nat \ {0} /\ NumRuns \in Nat
    /\ Window \in Seconds
    /\ MaxDay \in Days /\ MonthOf[MaxDay] + 1 < NumMonths
    /\ MaxEdits \in Nat /\ MaxFaults \in Nat

VARIABLES
  now,
  row,        (* rows of scheduled_tasks; "exists" is "no", "yes", "deleted" *)
  edit,       (* the request that changes a task                            *)
  queued,     (* deliveries of execute_scheduled_task that wait             *)
  check,      (* the checks under way                                       *)
  run,        (* the deliveries taken up; "exec" is their TaskExecution     *)
  slot,       (* the occurrence a task was last dispatched for (history)    *)
  alone,      (* tasks whose runs met no other (history)                    *)
  edits, faults

budget == <<edits, faults>>
history == <<slot, alone>>
vars == <<now, row, edit, queued, check, run, history, budget>>

Checks == 1..NumChecks
Runs == 1..NumRuns
NoRow == [exists |-> "no", enabled |-> FALSE, status |-> "ACTIVE",
          rec |-> CHOOSE rec \in Recurrences : TRUE, next |-> Never,
          executions |-> 0, failures |-> 0]
Exists(t) == row[t].exists = "yes"

(* Mutant: the commit writes every column. *)
Flushed_WholeRow(r, seen, new) == new

(* What a commit leaves of row r when the session read "seen" and has      *)
(* changed it to "new".                                                    *)
Flushed(r, seen, new) == [c \in DOMAIN r |-> IF new[c] # seen[c] THEN new[c] ELSE r[c]]

Due(r) == /\ r.exists = "yes" /\ r.enabled /\ r.status = "ACTIVE"
          /\ r.next # Never /\ ~Before(now, r.next)

Initial(rec) == CalculateNextDatetime(rec, now, TRUE)

(* The end of the window before start. *)
WindowOf(start) == IF start.sec >= Window THEN At(start.day, start.sec - Window)
                   ELSE At(start.day - 1, start.sec - Window + DayLength)
InProgress(t) == {r \in Runs : run[r].task = t /\ run[r].pc \notin {"free", "ended", "done"}}

NoEdit == [step |-> "none", kind |-> "toggle", task |-> CHOOSE t \in Tasks : TRUE,
           seen |-> NoRow, rec |-> {}, enabled |-> {}]
NoCheck == [step |-> "idle", at |-> Never, due |-> {}, seen |-> [t \in Tasks |-> NoRow]]
NoRun == [task |-> CHOOSE t \in Tasks : TRUE, pc |-> "free", start |-> Never,
          exec |-> "none", seen |-> NoRow, ok |-> FALSE]

Init == /\ now = At(0, 0)
        /\ row = [t \in Tasks |-> NoRow] /\ edit = NoEdit
        /\ queued = [t \in Tasks |-> 0]
        /\ check = [k \in Checks |-> NoCheck] /\ run = [r \in Runs |-> NoRun]
        /\ slot = [t \in Tasks |-> Never] /\ alone = Tasks
        /\ edits = MaxEdits /\ faults = MaxFaults

Tick == /\ now' = IF now.sec + 1 < DayLength THEN At(now.day, now.sec + 1)
                                             ELSE At(now.day + 1, 0)
        /\ now'.day <= MaxDay
        /\ UNCHANGED <<row, edit, queued, check, run, history, budget>>
-----------------------------------------------------------------------------
(* The user's requests. *)
CreateTask(t, rec) ==
    /\ row[t].exists = "no"
    /\ row' = [row EXCEPT ![t] = [NoRow EXCEPT !.exists = "yes", !.enabled = TRUE,
                                               !.rec = rec, !.next = Initial(rec)]]
    /\ UNCHANGED <<now, edit, queued, check, run, history, budget>>

LoadTask(t, kind, rec, enabled) ==
    /\ edits > 0 /\ edit.step = "none" /\ Exists(t)
    /\ edits' = edits - 1
    /\ edit' = [step |-> "save", kind |-> kind, task |-> t, seen |-> row[t],
                rec |-> rec, enabled |-> enabled]
    /\ UNCHANGED <<now, row, queued, check, run, history, faults>>

EnableTask(r, changed) ==
    [r EXCEPT !.enabled = TRUE, !.status = "ACTIVE",
              !.next = IF changed \/ @ = Never THEN Initial(r.rec) ELSE @]
PauseTask(r) == [r EXCEPT !.enabled = FALSE, !.status = "PAUSED"]
Reschedule(r, recs) ==
    IF recs = {} THEN r
    ELSE LET rec == CHOOSE rec \in recs : TRUE
         IN  [r EXCEPT !.rec = rec, !.next = Initial(rec)]

ToggleTask(r) == IF r.enabled THEN PauseTask(r) ELSE EnableTask(r, TRUE)
UpdateTask(r, recs, enabled) ==
    CASE enabled = {} -> Reschedule(r, recs)
      [] enabled = {TRUE} -> EnableTask(Reschedule(r, recs), recs # {})
      [] enabled = {FALSE} -> PauseTask(Reschedule(r, recs))

(* The commit of a request; it fails when the row was deleted meanwhile.   *)
SaveTask ==
    LET t == edit.task
        new == IF edit.kind = "toggle" THEN ToggleTask(edit.seen)
               ELSE UpdateTask(edit.seen, edit.rec, edit.enabled)
    IN  /\ edit.step = "save"
        /\ edit' = NoEdit
        /\ row' = IF Exists(t) THEN [row EXCEPT ![t] = Flushed(row[t], edit.seen, new)]
                               ELSE row
        /\ slot' = [slot EXCEPT ![t] = Never]
        /\ UNCHANGED <<now, queued, check, run, alone, budget>>

(* The executions of the task are deleted with it. *)
DeleteTask(t) ==
    /\ edits > 0 /\ Exists(t)
    /\ edits' = edits - 1
    /\ row' = [row EXCEPT ![t].exists = "deleted"]
    /\ run' = [r \in Runs |-> IF run[r].task = t THEN [run[r] EXCEPT !.exec = "none"]
                                                 ELSE run[r]]
    /\ UNCHANGED <<now, edit, queued, check, history, faults>>
-----------------------------------------------------------------------------
(* check_scheduled_tasks: the next occurrence is committed, then the tasks *)
(* are sent.                                                               *)

(* Mutant: < for <= in the query. *)
CheckRead_StrictlyPast(k) ==
    LET due == {t \in Tasks : Due(row[t]) /\ Before(row[t].next, now)}
    IN  /\ check[k].step = "idle" /\ due # {}
        /\ check' = [check EXCEPT ![k] = [step |-> "commit", at |-> now, due |-> due,
                                          seen |-> row]]
        /\ UNCHANGED <<now, row, edit, queued, run, history, budget>>

CheckRead(k) ==
    LET due == {t \in Tasks : Due(row[t])}
    IN  /\ check[k].step = "idle" /\ due # {}
        /\ check' = [check EXCEPT ![k] = [step |-> "commit", at |-> now, due |-> due,
                                          seen |-> row]]
        /\ UNCHANGED <<now, row, edit, queued, run, history, budget>>

(* Mutant: a task without a next occurrence stays as it is. *)
Advanced_KeepsOnce(r, at) ==
    LET next == CalculateNextDatetime(r.rec, at, FALSE)
    IN  [r EXCEPT !.next = IF next = Never THEN @ ELSE next]

Advanced(r, at) ==
    LET next == CalculateNextDatetime(r.rec, at, FALSE)
    IN  [r EXCEPT !.next = next, !.status = IF next = Never THEN "PENDING" ELSE @]

(* A row deleted meanwhile makes the commit fail for all of them. *)
CheckCommit(k) ==
    LET due == check[k].due
    IN  /\ check[k].step = "commit"
        /\ IF \A t \in due : Exists(t)
           THEN /\ row' = [t \in Tasks |->
                             IF t \in due
                             THEN Flushed(row[t], check[k].seen[t],
                                          Advanced(check[k].seen[t], check[k].at))
                             ELSE row[t]]
                /\ check' = [check EXCEPT ![k].step = "send"]
                /\ slot' = [t \in Tasks |-> IF t \in due THEN check[k].seen[t].next
                                                         ELSE slot[t]]
                /\ alone' = {t \in alone : t \in due => InProgress(t) = {}}
           ELSE /\ check' = [check EXCEPT ![k] = NoCheck]
                /\ UNCHANGED <<row, history>>
        /\ UNCHANGED <<now, edit, queued, run, budget>>

Send(k, t) ==
    LET rest == check[k].due \ {t}
    IN  /\ check[k].step = "send" /\ t \in check[k].due
        /\ \A u \in rest : ~Before(check[k].seen[u].next, check[k].seen[t].next)
        /\ queued' = [queued EXCEPT ![t] = @ + 1]
        /\ check' = [check EXCEPT ![k] = IF rest = {} THEN NoCheck ELSE [@ EXCEPT !.due = rest]]
        /\ UNCHANGED <<now, row, edit, run, history, budget>>

(* The commit or delay() raises, or the worker dies: what is not sent is   *)
(* not sent by anybody.                                                    *)
CheckFails(k) ==
    /\ faults > 0 /\ check[k].step # "idle"
    /\ faults' = faults - 1
    /\ check' = [check EXCEPT ![k] = NoCheck]
    /\ UNCHANGED <<now, row, edit, queued, run, history, edits>>
-----------------------------------------------------------------------------
(* execute_scheduled_task. *)
Move(r, to) == run' = [run EXCEPT ![r].pc = to]

(* Mutant: a delivery is taken up again. *)
Start_Unqueued(r, t) ==
    /\ run[r].pc = "free"
    /\ \A q \in Runs : q < r => run[q].pc # "free"
    /\ queued' = [queued EXCEPT ![t] = @ - 1]
    /\ run' = [run EXCEPT ![r] = [NoRun EXCEPT !.task = t, !.pc = "check", !.start = now]]
    /\ alone' = IF InProgress(t) = {} THEN alone ELSE alone \ {t}
    /\ UNCHANGED <<now, row, edit, check, slot, budget>>

Start(r, t) ==
    /\ run[r].pc = "free" /\ queued[t] > 0
    /\ \A q \in Runs : q < r => run[q].pc # "free"
    /\ queued' = [queued EXCEPT ![t] = @ - 1]
    /\ run' = [run EXCEPT ![r] = [NoRun EXCEPT !.task = t, !.pc = "check", !.start = now]]
    /\ alone' = IF InProgress(t) = {} THEN alone ELSE alone \ {t}
    /\ UNCHANGED <<now, row, edit, check, slot, budget>>

CheckDuplicateExecution(r) ==
    LET recent == {q \in Runs : /\ run[q].task = run[r].task
                                /\ run[q].exec \in {"RUNNING", "SUCCESS"}
                                /\ ~Before(run[q].start, WindowOf(run[r].start))}
    IN  /\ run[r].pc = "check"
        /\ Move(r, IF recent = {} THEN "load" ELSE "ended")
        /\ UNCHANGED <<now, row, edit, queued, check, history, budget>>

LoadTaskAndUser(r) ==
    LET seen == row[run[r].task]
        runs == seen.exists = "yes" /\ seen.enabled
    IN  /\ run[r].pc = "load"
        /\ run' = [run EXCEPT ![r].pc = IF runs THEN "validate" ELSE "ended",
                              ![r].seen = IF runs THEN seen ELSE @]
        /\ UNCHANGED <<now, row, edit, queued, check, history, budget>>

AfterExecution(r, start, ok) ==
    LET next == CalculateNextDatetime(r.rec, start, FALSE)
        counted == IF ok THEN [r EXCEPT !.executions = @ + 1]
                         ELSE [r EXCEPT !.failures = @ + 1]
    IN  IF next = Never
        THEN [counted EXCEPT !.enabled = FALSE, !.status = "COMPLETED", !.next = Never]
        ELSE [counted EXCEPT !.next = next]

(* The execution and the task are written in one commit. *)
Record(r, ok) ==
    LET t == run[r].task
    IN  /\ row' = [row EXCEPT ![t] =
                     Flushed(row[t], run[r].seen,
                             AfterExecution(run[r].seen, run[r].start, ok))]
        /\ run' = [run EXCEPT ![r].pc = "ended",
                              ![r].exec = IF ok THEN "SUCCESS" ELSE "FAILED"]

(* Without API keys the run is a failure; the session still has the row as *)
(* it loaded it.                                                           *)
KeysMissing(r) ==
    /\ run[r].pc = "validate"
    /\ IF Exists(run[r].task) THEN Record(r, FALSE)
                              ELSE Move(r, "ended") /\ UNCHANGED row
    /\ UNCHANGED <<now, edit, queued, check, history, budget>>

InsertExecution(r) ==
    /\ run[r].pc = "validate"
    /\ run' = IF Exists(run[r].task)
              THEN [run EXCEPT ![r].pc = "setup", ![r].exec = "RUNNING"]
              ELSE [run EXCEPT ![r].pc = "ended"]
    /\ UNCHANGED <<now, row, edit, queued, check, history, budget>>

(* Sandbox, chat and messages; what is raised here is only logged. *)
SetUp(r) ==
    /\ run[r].pc = "setup" /\ \E to \in {"stream", "ended"} : Move(r, to)
    /\ UNCHANGED <<now, row, edit, queued, check, history, budget>>

Stream(r, ok) ==
    /\ run[r].pc = "stream"
    /\ run' = [run EXCEPT ![r].pc = "finish", ![r].ok = ok]
    /\ UNCHANGED <<now, row, edit, queued, check, history, budget>>

ReadForUpdate(r) ==
    /\ run[r].pc = "finish"
    /\ run' = [run EXCEPT ![r].pc = "commit", ![r].seen = row[run[r].task]]
    /\ UNCHANGED <<now, row, edit, queued, check, history, budget>>

CompleteExecution(r) ==
    /\ run[r].pc = "commit"
    /\ \/ Exists(run[r].task) /\ Record(r, run[r].ok)
       \/ run[r].seen.exists # "yes" /\ Move(r, "ended") /\ UNCHANGED row
    /\ UNCHANGED <<now, edit, queued, check, history, budget>>

(* A commit that fails, for a row deleted since it was read or a fault,    *)
(* makes a success a failure; the failure's own commit is the last.        *)
CommitFails(r) ==
    /\ run[r].pc = "commit" /\ run[r].seen.exists = "yes"
    /\ IF Exists(run[r].task) THEN faults > 0 /\ faults' = faults - 1
                              ELSE faults' = faults
    /\ run' = [run EXCEPT ![r].pc = IF run[r].ok THEN "finish" ELSE "ended",
                          ![r].ok = FALSE]
    /\ UNCHANGED <<now, row, edit, queued, check, history, edits>>

Acknowledge(r) ==
    /\ run[r].pc = "ended" /\ Move(r, "done")
    /\ UNCHANGED <<now, row, edit, queued, check, history, budget>>

(* The worker dies before the acknowledgement: the broker delivers again.  *)
Crash(r) ==
    /\ faults > 0 /\ run[r].pc \notin {"free", "done"}
    /\ faults' = faults - 1
    /\ Move(r, "done")
    /\ queued' = [queued EXCEPT ![run[r].task] = @ + 1]
    /\ UNCHANGED <<now, row, edit, check, history, edits>>
-----------------------------------------------------------------------------
Request == \/ \E t \in Tasks, rec \in Recurrences : CreateTask(t, rec)
           \/ \E t \in Tasks : LoadTask(t, "toggle", {}, {}) \/ DeleteTask(t)
           \/ \E t \in Tasks, rec \in Recurrences, enabled \in {{}, {TRUE}, {FALSE}} :
                 LoadTask(t, "update", {rec}, enabled)
           \/ \E t \in Tasks, b \in BOOLEAN : LoadTask(t, "update", {}, {b})
           \/ SaveTask
CheckTasks(k) == CheckRead(k) \/ CheckCommit(k) \/ \E t \in Tasks : Send(k, t)
Execute(r) == \/ \E t \in Tasks : Start(r, t)
              \/ CheckDuplicateExecution(r) \/ LoadTaskAndUser(r)
              \/ KeysMissing(r) \/ InsertExecution(r) \/ SetUp(r)
              \/ \E ok \in BOOLEAN : Stream(r, ok)
              \/ ReadForUpdate(r) \/ CompleteExecution(r) \/ CommitFails(r)
              \/ Acknowledge(r) \/ Crash(r)

Next == \/ Tick \/ Request
        \/ \E k \in Checks : CheckTasks(k) \/ CheckFails(k)
        \/ \E r \in Runs : Execute(r)

Spec == Init /\ [][Next]_vars

(* Beat starts a check every five minutes, whatever the users do. *)
LiveSpec == Spec /\ \A k \in Checks : WF_vars(CheckTasks(k))
-----------------------------------------------------------------------------
Row == [exists : {"no", "yes", "deleted"}, enabled : BOOLEAN,
        status : {"ACTIVE", "PENDING", "PAUSED", "COMPLETED"},
        rec : Recurrences, next : Instant \cup {Never},
        executions : Nat, failures : Nat]

TypeOK ==
    /\ now \in Instant
    /\ row \in [Tasks -> Row]
    /\ edit \in [step : {"none", "save"}, kind : {"toggle", "update"}, task : Tasks,
                 seen : Row, rec : SUBSET Recurrences,
                 enabled : {{}, {TRUE}, {FALSE}}]
    /\ queued \in [Tasks -> Nat]
    /\ check \in [Checks -> [step : {"idle", "commit", "send"}, at : Instant \cup {Never},
                             due : SUBSET Tasks, seen : [Tasks -> Row]]]
    /\ run \in [Runs -> [task : Tasks, start : Instant \cup {Never}, seen : Row, ok : BOOLEAN,
                         exec : {"none", "RUNNING", "SUCCESS", "FAILED"},
                         pc : {"free", "check", "load", "validate", "setup", "stream",
                               "finish", "commit", "ended", "done"}]]
    /\ slot \in [Tasks -> Instant \cup {Never}] /\ alone \subseteq Tasks
    /\ edits \in 0..MaxEdits /\ faults \in 0..MaxFaults

(* calculate_next_datetime: the next execution is the first instant that   *)
(* matches the recurrence, by day, weekday or clamped day of the month.    *)
NextIsFirst ==
    \A rec \in Recurrences : IsFirstAfter(rec, now, CalculateNextDatetime(rec, now, TRUE))

(* The counters of a task agree with its history of executions, whatever   *)
(* check or edit was committed in between, as long as its runs met no      *)
(* other.                                                                  *)
CountsAgree ==
    \A t \in alone : Exists(t) =>
        /\ row[t].executions = Cardinality({r \in Runs : run[r].task = t /\ run[r].exec = "SUCCESS"})
        /\ row[t].failures = Cardinality({r \in Runs : run[r].task = t /\ run[r].exec = "FAILED"})

(* No occurrence is dispatched twice, although checks, runs and requests   *)
(* all write next_execution: each dispatch is for a later one than the     *)
(* last, unless a run of the task met another dispatch.                    *)
OccurrenceOnce ==
    [][\A k \in Checks, t \in Tasks :
          /\ check[k].step = "commit" /\ check'[k].step = "send"
          /\ t \in check[k].due \cap alone'
          => Before(slot[t], check[k].seen[t].next)]_vars

(* What is due is dispatched, or paused, changed or deleted. *)
DueIsDispatched == \A t \in Tasks : Due(row[t]) ~> ~Due(row[t])
=============================================================================
