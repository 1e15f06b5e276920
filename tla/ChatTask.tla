------------------------------ MODULE ChatTask ------------------------------
(***************************************************************************)
(* The turns of ONE chat: the API handlers that start, cancel and probe a  *)
(* turn (endpoints/chat.py, services/chat.py) and the Celery task that     *)
(* runs it (tasks/chat_processor.py).  Every turn has an assistant message *)
(* in Postgres and a Celery task; all turns of the chat share three Redis  *)
(* keys: chat:{id}:task, chat:{id}:revoked and the stream chat:{id}:stream.*)
(*                                                                         *)
(* A message and its task have the same number: messages are created in    *)
(* order, 1, 2, ...  A task is one asyncio program: a step below is what   *)
(* it does between two awaits.  Its revocation monitor is a second asyncio *)
(* task of the same loop, so the two interleave at awaits only.            *)
(***************************************************************************)
EXTENDS Integers, Sequences

CONSTANTS NumMessages,   (* turns of the chat                               *)
          MaxEvents,     (* bound: events the AI stream yields in one run   *)
          MaxFaults,     (* bound: database, broker or Redis calls that fail*)
          MaxCrashes     (* bound: worker crashes                           *)

ASSUME ChatAssumption == /\ NumMessages \in Nat \ {0}
                         /\ MaxEvents \in Nat \ {0}
                         /\ MaxFaults \in Nat
                         /\ MaxCrashes \in Nat

Messages == 1..NumMessages
None == 0                (* no message, no task: the key is absent          *)

VARIABLES
  (* Postgres *)
  status,        (* Message.stream_status; "none" before the row exists     *)
  content,       (* number of events stored in Message.content              *)
  deleted,       (* messages with deleted_at set                            *)
  checkpoint,    (* messages with a checkpoint_id                           *)
  (* Redis *)
  taskKey,       (* the task id in chat:{id}:task, or None                  *)
  revoked,       (* chat:{id}:revoked is set                                *)
  stream,        (* the entries of chat:{id}:stream, oldest first           *)
  queue,         (* tasks waiting in the broker                             *)
  result,        (* state of the Celery result: PENDING/STARTED/PROGRESS    *)
                 (* are "active"                                            *)
  (* API processes *)
  send,          (* progress of the request that sends message m            *)
  cancel,        (* the DELETE /stream request: "idle", or "armed" once it  *)
                 (* has seen a task key                                     *)
  probe,         (* the GET /status request                                 *)
  probeTask,     (* the task id that request read                           *)
  (* worker *)
  pc,            (* where the task of message m is                          *)
  monitor,       (* its _monitor_revocation                                 *)
  events,        (* length of ctx.events                                    *)
  wasCancelled,  (* ctx.was_cancelled                                       *)
  verdict,       (* the MessageStreamStatus the task has decided on         *)
  attempt,       (* how many times the task was delivered to a worker       *)
  (* budgets *)
  faults, crashes

db == <<status, content, deleted, checkpoint>>
redis == <<taskKey, revoked, stream>>
api == <<send, cancel, probe, probeTask>>
worker == <<pc, monitor, events, wasCancelled, verdict, attempt>>
vars == <<db, redis, queue, result, api, worker, faults, crashes>>
-----------------------------------------------------------------------------
Terminal == {"completed", "failed", "interrupted"}
Entry == [task : Messages, kind : {"content", "complete", "error"}, n : 0..MaxEvents]

(* Program points of a task, each named for the call it is about to make.  *)
Loop == {"next_event", "publish_event"}
Finalize == {"mark_interrupted", "publish_complete", "save_content",
             "create_checkpoint"}
Fail == {"publish_error", "mark_failed", "save_failed"}
Cleanup == {"delete_task_key", "delete_revoked_key"}
Running == {"initialize", "delete_stream", "store_task_key"}
             \cup Loop \cup Finalize \cup Fail \cup Cleanup
PC == {"idle", "done"} \cup Running

(* Keep the task's own state but for its program point. *)
Goto(m, label) ==
    /\ pc' = [pc EXCEPT ![m] = label]
    /\ UNCHANGED <<monitor, events, wasCancelled, verdict, attempt>>

Publish(m, kind, n) ==
    stream' = Append(stream, [task |-> m, kind |-> kind, n |-> n])

(* One of the budgeted calls fails; the handler catches and goes on. *)
Fault == faults > 0 /\ faults' = faults - 1

(* get_latest_assistant_message: newest row that is not deleted. *)
Visible == {m \in Messages : status[m] # "none" /\ m \notin deleted}
IsLatest(m) == m \in Visible /\ \A k \in Visible : k <= m
-----------------------------------------------------------------------------
Init == /\ status = [m \in Messages |-> "none"]
        /\ content = [m \in Messages |-> 0]
        /\ deleted = {}
        /\ checkpoint = {}
        /\ taskKey = None
        /\ revoked = FALSE
        /\ stream = <<>>
        /\ queue = {}
        /\ result = [m \in Messages |-> "active"]
        /\ send = [m \in Messages |-> "idle"]
        /\ cancel = "idle"
        /\ probe = "idle"
        /\ probeTask = None
        /\ pc = [m \in Messages |-> "idle"]
        /\ monitor = [m \in Messages |-> "off"]
        /\ events = [m \in Messages |-> 0]
        /\ wasCancelled = [m \in Messages |-> FALSE]
        /\ verdict = [m \in Messages |-> "none"]
        /\ attempt = [m \in Messages |-> 0]
        /\ faults = MaxFaults
        /\ crashes = MaxCrashes
-----------------------------------------------------------------------------
(* POST /chat: initiate_chat_completion.  Nothing stops a second prompt    *)
(* from being sent while a task of the chat runs.                          *)

CreateMessage(m) ==
    /\ send[m] = "idle"
    /\ \A k \in Messages : k < m => send[k] # "idle"
    /\ status' = [status EXCEPT ![m] = "in_progress"]
    /\ send' = [send EXCEPT ![m] = "created"]
    /\ UNCHANGED <<content, deleted, checkpoint, redis, queue, result, cancel,
                   probe, probeTask, worker, faults, crashes>>

(* process_chat.delay *)
EnqueueTask(m) ==
    /\ send[m] = "created"
    /\ queue' = queue \cup {m}
    /\ send' = [send EXCEPT ![m] = "enqueued"]
    /\ UNCHANGED <<db, redis, result, cancel, probe, probeTask, worker, faults,
                   crashes>>

(* The worker may have run, and even ended, before this write. *)
StoreActiveTask(m) ==
    /\ send[m] = "enqueued"
    /\ taskKey' = m
    /\ send' = [send EXCEPT ![m] = "sent"]
    /\ UNCHANGED <<db, revoked, stream, queue, result, cancel, probe, probeTask,
                   worker, faults, crashes>>

(* Enqueueing or storing the key failed: the except clause deletes the     *)
(* message, whether or not its task was already enqueued.                  *)
RejectSend(m) ==
    /\ send[m] \in {"created", "enqueued"}
    /\ Fault
    /\ deleted' = deleted \cup {m}
    /\ send' = [send EXCEPT ![m] = "rejected"]
    /\ UNCHANGED <<status, content, checkpoint, redis, queue, result, cancel,
                   probe, probeTask, worker, crashes>>
-----------------------------------------------------------------------------
(* DELETE /chats/{id}/stream: cancel_stream. *)

CancelReadsTaskKey ==
    /\ cancel = "idle"
    /\ taskKey # None
    /\ cancel' = "armed"
    /\ UNCHANGED <<db, redis, queue, result, send, probe, probeTask, worker,
                   faults, crashes>>

CancelSetsRevoked ==
    /\ cancel = "armed"
    /\ revoked' = TRUE
    /\ cancel' = "idle"
    /\ UNCHANGED <<db, taskKey, stream, queue, result, send, probe, probeTask,
                   worker, faults, crashes>>
-----------------------------------------------------------------------------
(* GET /chats/{id}/status: get_stream_status.  The reads of one request    *)
(* are separate, and so is the deletion they may lead to.                  *)

(* Mutant: any message counts as finished. *)
ProbeReadsMessage_IgnoresStatus ==
    /\ probe = "idle"
    /\ probe' = IF Visible # {} THEN "delete_key" ELSE "read_key"
    /\ UNCHANGED <<db, redis, queue, result, send, cancel, probeTask, worker,
                   faults, crashes>>

ProbeReadsMessage ==
    /\ probe = "idle"
    /\ probe' = IF \E m \in Messages : IsLatest(m) /\ status[m] \in Terminal
                THEN "delete_key" ELSE "read_key"
    /\ UNCHANGED <<db, redis, queue, result, send, cancel, probeTask, worker,
                   faults, crashes>>

(* Mutant: "if not task_id" forgotten. *)
ProbeReadsTaskKey_NoKeyCheck ==
    /\ probe = "read_key"
    /\ probe' = "read_revoked"
    /\ probeTask' = taskKey
    /\ UNCHANGED <<db, redis, queue, result, send, cancel, worker, faults,
                   crashes>>

ProbeReadsTaskKey ==
    /\ probe = "read_key"
    /\ taskKey # None
    /\ probe' = "read_revoked"
    /\ probeTask' = taskKey
    /\ UNCHANGED <<db, redis, queue, result, send, cancel, worker, faults,
                   crashes>>

(* No task key: the request answers "inactive". *)
ProbeFindsNoTask ==
    /\ probe = "read_key"
    /\ taskKey = None
    /\ probe' = "idle"
    /\ UNCHANGED <<db, redis, queue, result, send, cancel, probeTask, worker,
                   faults, crashes>>

ProbeReadsRevoked ==
    /\ probe = "read_revoked"
    /\ probe' = IF revoked THEN "delete_key" ELSE "read_result"
    /\ probeTask' = IF revoked THEN None ELSE probeTask
    /\ UNCHANGED <<db, redis, queue, result, send, cancel, worker, faults,
                   crashes>>

ProbeReadsResult ==
    /\ probe = "read_result"
    /\ probe' = IF result[probeTask] = "active" THEN "idle" ELSE "delete_key"
    /\ probeTask' = None
    /\ UNCHANGED <<db, redis, queue, result, send, cancel, worker, faults,
                   crashes>>

ProbeDeletesTaskKey ==
    /\ probe = "delete_key"
    /\ taskKey' = None
    /\ probe' = "idle"
    /\ UNCHANGED <<db, revoked, stream, queue, result, send, cancel, probeTask,
                   worker, faults, crashes>>
-----------------------------------------------------------------------------
(* process_chat, up to the loop. *)

Deliver(m) ==
    /\ m \in queue
    /\ queue' = queue \ {m}
    /\ pc' = [pc EXCEPT ![m] = "initialize"]
    /\ attempt' = [attempt EXCEPT ![m] = @ + 1]
    /\ UNCHANGED <<db, redis, result, api, monitor, events, wasCancelled,
                   verdict, faults, crashes>>

Initialize(m) ==
    /\ pc[m] = "initialize"
    /\ Goto(m, "delete_stream")
    /\ UNCHANGED <<db, redis, queue, result, api, faults, crashes>>

(* No settings or no E2B key: the exception passes every handler of the    *)
(* task, which has not touched Redis or the message.                       *)
InitializeFails(m) ==
    /\ pc[m] = "initialize"
    /\ Fault
    /\ Goto(m, "done")
    /\ result' = [result EXCEPT ![m] = "failure"]
    /\ UNCHANGED <<db, redis, queue, api, crashes>>

(* _prepare_stream *)
DeleteStream(m) ==
    /\ pc[m] = "delete_stream"
    /\ stream' = <<>>
    /\ Goto(m, "store_task_key")
    /\ UNCHANGED <<db, taskKey, revoked, queue, result, api, faults, crashes>>

(* Mutant: the monitor polls once, when it starts. *)
StoreTaskKey_PollsOnce(m) ==
    /\ pc[m] = "store_task_key"
    /\ taskKey' = m
    /\ pc' = [pc EXCEPT ![m] = "next_event"]
    /\ monitor' = [monitor EXCEPT ![m] = IF revoked THEN "polling" ELSE "off"]
    /\ UNCHANGED <<db, revoked, stream, queue, result, api, events,
                   wasCancelled, verdict, attempt, faults, crashes>>

(* After this write the loop is entered and the monitor is started. *)
StoreTaskKey(m) ==
    /\ pc[m] = "store_task_key"
    /\ taskKey' = m
    /\ pc' = [pc EXCEPT ![m] = "next_event"]
    /\ monitor' = [monitor EXCEPT ![m] = "polling"]
    /\ UNCHANGED <<db, revoked, stream, queue, result, api, events,
                   wasCancelled, verdict, attempt, faults, crashes>>

(* Either Redis call of _prepare_stream fails; the task goes on. *)
PrepareStreamFails(m) ==
    /\ pc[m] \in {"delete_stream", "store_task_key"}
    /\ Fault
    /\ pc' = [pc EXCEPT ![m] = "next_event"]
    /\ monitor' = [monitor EXCEPT ![m] = "polling"]
    /\ UNCHANGED <<db, redis, queue, result, api, events, wasCancelled, verdict,
                   attempt, crashes>>
-----------------------------------------------------------------------------
(* _process_stream_events and the revocation monitor. *)

(* Mutant: the finally clause does not cancel the monitor. *)
LeaveLoop_KeepsMonitor(m, label, decided) ==
    /\ pc' = [pc EXCEPT ![m] = label]
    /\ verdict' = [verdict EXCEPT ![m] = decided]
    /\ UNCHANGED monitor

(* Leave the loop for `label` with the given verdict; the finally clause   *)
(* cancels the monitor and waits for it.                                   *)
LeaveLoop(m, label, decided) ==
    /\ pc' = [pc EXCEPT ![m] = label]
    /\ verdict' = [verdict EXCEPT ![m] = decided]
    /\ monitor' = [monitor EXCEPT ![m] = "off"]

(* _drain_ai_stream after the loop: cancelled, empty, or completed. *)
AfterLoop(m) ==
    \/ /\ wasCancelled[m]
       /\ LeaveLoop(m, "mark_interrupted", "interrupted")
    \/ /\ ~wasCancelled[m] /\ events[m] = 0
       /\ LeaveLoop(m, "publish_error", "failed")
    \/ /\ ~wasCancelled[m] /\ events[m] > 0
       /\ LeaveLoop(m, "publish_complete", "completed")

NextEvent(m) ==
    /\ pc[m] = "next_event"
    /\ events[m] < MaxEvents
    /\ events' = [events EXCEPT ![m] = @ + 1]
    /\ pc' = [pc EXCEPT ![m] = "publish_event"]
    /\ UNCHANGED <<db, redis, queue, result, api, monitor, wasCancelled,
                   verdict, attempt, faults, crashes>>

(* StopAsyncIteration *)
StreamEnds(m) ==
    /\ pc[m] = "next_event"
    /\ AfterLoop(m)
    /\ UNCHANGED <<db, redis, queue, result, api, events, wasCancelled, attempt,
                   faults, crashes>>

(* ClaudeAgentException or any other Exception out of __anext__. *)
StreamFails(m) ==
    /\ pc[m] = "next_event"
    /\ LeaveLoop(m, "publish_error", "failed")
    /\ UNCHANGED <<db, redis, queue, result, api, events, wasCancelled, attempt,
                   faults, crashes>>

(* Mutant: XADD is retried although it had succeeded. *)
PublishEvent_Retried(m) ==
    /\ pc[m] = "publish_event"
    /\ LET entry == [task |-> m, kind |-> "content", n |-> events[m]]
       IN  stream' = stream \o <<entry, entry>>
    /\ Goto(m, "next_event")
    /\ UNCHANGED <<db, taskKey, revoked, queue, result, api, faults, crashes>>

PublishEvent(m) ==
    /\ pc[m] = "publish_event"
    /\ \/ Publish(m, "content", events[m]) /\ UNCHANGED faults
       \/ Fault /\ UNCHANGED stream
    /\ Goto(m, "next_event")
    /\ UNCHANGED <<db, taskKey, revoked, queue, result, api, crashes>>

(* The monitor reads the revoked key, sets was_cancelled and goes on to    *)
(* close the transport in cancel_active_stream.                            *)
MonitorSeesRevoked(m) ==
    /\ monitor[m] = "polling"
    /\ revoked
    /\ wasCancelled' = [wasCancelled EXCEPT ![m] = TRUE]
    /\ monitor' = [monitor EXCEPT ![m] = "closing"]
    /\ UNCHANGED <<db, redis, queue, result, api, pc, events, verdict, attempt,
                   faults, crashes>>

(* Mutant: the monitor forgets main_task.cancel(). *)
CancelInNextEvent_OnlyCloses(m) ==
    /\ monitor[m] = "closing"
    /\ pc[m] = "next_event"
    /\ monitor' = [monitor EXCEPT ![m] = "off"]
    /\ UNCHANGED <<db, redis, queue, result, api, pc, events, wasCancelled,
                   verdict, attempt, faults, crashes>>

(* main_task.cancel() with the task waiting for the next event: the loop   *)
(* catches the CancelledError.                                             *)
CancelInNextEvent(m) ==
    /\ monitor[m] = "closing"
    /\ pc[m] = "next_event"
    /\ LeaveLoop(m, "mark_interrupted", "interrupted")
    /\ UNCHANGED <<db, redis, queue, result, api, events, wasCancelled, attempt,
                   faults, crashes>>

(* ... with the task waiting for XADD: nothing below process_chat_stream's *)
(* finally clause handles a CancelledError.  Redis may have the entry.     *)
CancelInPublish(m) ==
    /\ monitor[m] = "closing"
    /\ pc[m] = "publish_event"
    /\ Publish(m, "content", events[m]) \/ UNCHANGED stream
    /\ LeaveLoop(m, "delete_task_key", "none")
    /\ UNCHANGED <<db, taskKey, revoked, queue, result, api, events,
                   wasCancelled, attempt, faults, crashes>>
-----------------------------------------------------------------------------
(* _drain_ai_stream and _finalize_stream after the loop. *)

(* _update_message_status(INTERRUPTED); a database error is logged. *)
MarkInterrupted(m) ==
    /\ pc[m] = "mark_interrupted"
    /\ \/ status' = [status EXCEPT ![m] = "interrupted"] /\ UNCHANGED faults
       \/ Fault /\ UNCHANGED status
    /\ Goto(m, "publish_complete")
    /\ UNCHANGED <<content, deleted, checkpoint, redis, queue, result, api,
                   crashes>>

PublishComplete(m) ==
    /\ pc[m] = "publish_complete"
    /\ \/ Publish(m, "complete", 0) /\ UNCHANGED faults
       \/ Fault /\ UNCHANGED stream
    /\ Goto(m, "save_content")
    /\ UNCHANGED <<db, taskKey, revoked, queue, result, api, crashes>>

(* Mutant: the stream_status of the row is not assigned. *)
SaveEvents_NoStatus(m) ==
    /\ content' = [content EXCEPT ![m] = IF events[m] > 0 THEN events[m] ELSE @]
    /\ UNCHANGED <<status, faults>>

(* Mutant: the "not events" guard is missing. *)
SaveEvents_EvenNone(m) ==
    /\ content' = [content EXCEPT ![m] = events[m]]
    /\ status' = [status EXCEPT ![m] = verdict[m]]
    /\ UNCHANGED faults

(* _save_message_content: verdict and events in one commit, no commit when *)
(* there are no events.                                                    *)
SaveEvents(m) ==
    \/ /\ events[m] > 0
       /\ content' = [content EXCEPT ![m] = events[m]]
       /\ status' = [status EXCEPT ![m] = verdict[m]]
       /\ UNCHANGED faults
    \/ /\ events[m] = 0
       /\ UNCHANGED <<content, status, faults>>
    \/ Fault /\ UNCHANGED <<content, status>>

(* Mutant: StreamCancelled falls into "except Exception". *)
SaveContent_CancelIsError(m) ==
    /\ pc[m] = "save_content"
    /\ SaveEvents(m)
    /\ Goto(m, IF verdict[m] = "completed" THEN "create_checkpoint"
               ELSE "publish_error")
    /\ UNCHANGED <<deleted, checkpoint, redis, queue, result, api, crashes>>

SaveContent(m) ==
    /\ pc[m] = "save_content"
    /\ SaveEvents(m)
    /\ Goto(m, IF verdict[m] = "completed" THEN "create_checkpoint"
               ELSE "delete_task_key")
    /\ UNCHANGED <<deleted, checkpoint, redis, queue, result, api, crashes>>

(* _create_checkpoint_if_needed, then task.update_state("SUCCESS"). *)
CreateCheckpoint(m) ==
    /\ pc[m] = "create_checkpoint"
    /\ \/ checkpoint' = checkpoint \cup {m} /\ UNCHANGED faults
       \/ Fault /\ UNCHANGED checkpoint
    /\ result' = [result EXCEPT ![m] = "success"]
    /\ Goto(m, "delete_task_key")
    /\ UNCHANGED <<status, content, deleted, redis, queue, api, crashes>>

PublishError(m) ==
    /\ pc[m] = "publish_error"
    /\ \/ Publish(m, "error", 0) /\ UNCHANGED faults
       \/ Fault /\ UNCHANGED stream
    /\ Goto(m, "mark_failed")
    /\ UNCHANGED <<db, taskKey, revoked, queue, result, api, crashes>>

MarkFailed(m) ==
    /\ pc[m] = "mark_failed"
    /\ \/ status' = [status EXCEPT ![m] = "failed"] /\ UNCHANGED faults
       \/ Fault /\ UNCHANGED status
    /\ Goto(m, "save_failed")
    /\ UNCHANGED <<content, deleted, checkpoint, redis, queue, result, api,
                   crashes>>

SaveFailed(m) ==
    /\ pc[m] = "save_failed"
    /\ SaveEvents(m)
    /\ Goto(m, "delete_task_key")
    /\ UNCHANGED <<deleted, checkpoint, redis, queue, result, api, crashes>>
-----------------------------------------------------------------------------
(* _cleanup_task_resources: the keys are the chat's, not the task's. *)

DeleteTaskKey(m) ==
    /\ pc[m] = "delete_task_key"
    /\ taskKey' = None
    /\ Goto(m, "delete_revoked_key")
    /\ UNCHANGED <<db, revoked, stream, queue, result, api, faults, crashes>>

(* How Celery records the end of the task: an Exception is a FAILURE, an   *)
(* Ignore() leaves the state alone, and a CancelledError is either lost or *)
(* a FAILURE of the worker process.                                        *)
TaskEnds(m) ==
    \/ verdict[m] \in {"failed", "none"} /\ result' = [result EXCEPT ![m] = "failure"]
    \/ verdict[m] # "failed" /\ UNCHANGED result

DeleteRevokedKey(m) ==
    /\ pc[m] = "delete_revoked_key"
    /\ revoked' = FALSE
    /\ Goto(m, "done")
    /\ TaskEnds(m)
    /\ UNCHANGED <<db, taskKey, stream, queue, api, faults, crashes>>

(* Either deletion raises; the other one is skipped. *)
CleanupFails(m) ==
    /\ pc[m] \in Cleanup
    /\ Fault
    /\ Goto(m, "done")
    /\ TaskEnds(m)
    /\ UNCHANGED <<db, redis, queue, api, crashes>>
-----------------------------------------------------------------------------
(* The worker dies.  With task_acks_late the broker still has the task and *)
(* delivers it again; or the pool's parent survives and writes it off.     *)
Crash(m) ==
    /\ pc[m] \in Running
    /\ crashes > 0
    /\ crashes' = crashes - 1
    /\ monitor' = [monitor EXCEPT ![m] = "off"]
    /\ events' = [events EXCEPT ![m] = 0]
    /\ wasCancelled' = [wasCancelled EXCEPT ![m] = FALSE]
    /\ verdict' = [verdict EXCEPT ![m] = "none"]
    /\ \/ /\ pc' = [pc EXCEPT ![m] = "idle"]
          /\ queue' = queue \cup {m}
          /\ UNCHANGED result
       \/ /\ pc' = [pc EXCEPT ![m] = "done"]
          /\ result' = [result EXCEPT ![m] = "failure"]
          /\ UNCHANGED queue
    /\ UNCHANGED <<db, redis, api, attempt, faults>>
-----------------------------------------------------------------------------
Send(m) == CreateMessage(m) \/ EnqueueTask(m) \/ StoreActiveTask(m) \/ RejectSend(m)
CancelRequest == CancelReadsTaskKey \/ CancelSetsRevoked
ProbeRequest == ProbeReadsMessage \/ ProbeReadsTaskKey \/ ProbeFindsNoTask
                  \/ ProbeReadsRevoked \/ ProbeReadsResult \/ ProbeDeletesTaskKey
Start(m) == Deliver(m) \/ Initialize(m) \/ InitializeFails(m) \/ DeleteStream(m)
              \/ StoreTaskKey(m) \/ PrepareStreamFails(m)
AIStream(m) == NextEvent(m) \/ StreamEnds(m) \/ StreamFails(m)
Monitor(m) == MonitorSeesRevoked(m) \/ CancelInNextEvent(m) \/ CancelInPublish(m)
Finish(m) == MarkInterrupted(m) \/ PublishComplete(m) \/ SaveContent(m)
               \/ CreateCheckpoint(m) \/ PublishError(m) \/ MarkFailed(m)
               \/ SaveFailed(m)
CleanUp(m) == DeleteTaskKey(m) \/ DeleteRevokedKey(m) \/ CleanupFails(m)

Next == \/ \E m \in Messages : \/ Send(m) \/ Start(m) \/ AIStream(m)
                               \/ PublishEvent(m) \/ Monitor(m) \/ Finish(m)
                               \/ CleanUp(m) \/ Crash(m)
        \/ CancelRequest
        \/ ProbeRequest

Spec == Init /\ [][Next]_vars

(* The event loop of a worker and its monitor always get to run; what the  *)
(* AI stream, users and failing calls do is up to them.                    *)
Fairness ==
    \A m \in Messages :
        /\ WF_vars(PublishEvent(m))
        /\ WF_vars(Monitor(m))
        /\ WF_vars(Finish(m))
        /\ WF_vars(CleanUp(m))

LiveSpec == Spec /\ Fairness
-----------------------------------------------------------------------------
NoFault == faults = MaxFaults
NoCrash == crashes = MaxCrashes

TypeOK ==
    /\ status \in [Messages -> {"none", "in_progress"} \cup Terminal]
    /\ content \in [Messages -> 0..MaxEvents]
    /\ deleted \subseteq Messages
    /\ checkpoint \subseteq Messages
    /\ taskKey \in Messages \cup {None}
    /\ revoked \in BOOLEAN
    /\ stream \in Seq(Entry)
    /\ queue \subseteq Messages
    /\ result \in [Messages -> {"active", "success", "failure"}]
    /\ send \in [Messages -> {"idle", "created", "enqueued", "sent", "rejected"}]
    /\ cancel \in {"idle", "armed"}
    /\ probe \in {"idle", "read_key", "read_revoked", "read_result", "delete_key"}
    /\ probeTask \in Messages \cup {None}
    /\ probe \in {"read_revoked", "read_result"} <=> probeTask # None
    /\ pc \in [Messages -> PC]
    /\ monitor \in [Messages -> {"off", "polling", "closing"}]
    /\ events \in [Messages -> 0..MaxEvents]
    /\ wasCancelled \in [Messages -> BOOLEAN]
    /\ verdict \in [Messages -> {"none"} \cup Terminal]
    /\ attempt \in [Messages -> Nat]
    /\ faults \in 0..MaxFaults
    /\ crashes \in 0..MaxCrashes

(* In the chat's stream nothing of a turn follows its complete or error    *)
(* entry, and its events keep their order.  A redelivered run may break    *)
(* this if it could not delete the stream of the run before it.            *)
TurnStream ==
    \A i, j \in DOMAIN stream :
        /\ i < j
        /\ stream[i].task = stream[j].task
        /\ NoFault \/ attempt[stream[i].task] = 1
        => /\ stream[i].kind = "content"
           /\ stream[j].kind = "content" => stream[i].n < stream[j].n

(* A message is shown as completed only if its turn was never cancelled    *)
(* and all of its events are stored with it: no cancellation slips in      *)
(* between the end of the AI stream and the end of the turn.               *)
VerdictSound ==
    NoCrash =>
        \A m \in Messages :
            status[m] = "completed" => /\ ~wasCancelled[m]
                                       /\ content[m] > 0
                                       /\ content[m] = events[m]

(* When a task that reached a verdict has ended, the message carries that  *)
(* verdict and every event that was streamed.                              *)
ClosedWhenDone ==
    NoCrash /\ NoFault =>
        \A m \in Messages :
            pc[m] = "done" /\ verdict[m] # "none" =>
                status[m] = verdict[m] /\ content[m] = events[m]

(* While the only turn of a chat streams, the user can stop it: its task   *)
(* key is there, or the stop has already been asked for.                   *)
SoloTurnReachable ==
    NoCrash /\ NoFault =>
        \A m \in Messages :
            /\ pc[m] \in Loop
            /\ \A k \in Messages \ {m} : send[k] = "idle"
            => taskKey = m \/ revoked \/ wasCancelled[m]

(* Text and verdict are stored together: no failure, crash or second run   *)
(* leaves a message that has its text but is still shown as streaming.     *)
TextOnlyWhenClosed ==
    \A m \in Messages : content[m] > 0 => status[m] \in Terminal

(* The life of a message as the chat page sees it; holds for tasks that    *)
(* are delivered once.                                                     *)
Lifecycle == INSTANCE MessageLifecycle
LifecycleSpec == Lifecycle!Spec

(* Stored text is never replaced by nothing, not even by a second run of   *)
(* the same task.                                                          *)
TextKept == [][\A m \in Messages : content[m] > 0 => content'[m] > 0]_vars

(* The doc of _process_stream_events: a revocation cancels the main task,  *)
(* "which is caught below to perform graceful cleanup".                    *)
GracefulCancellation ==
    \A m \in Messages :
        pc[m] = "done" /\ wasCancelled[m] => status[m] # "in_progress"

(* While a revocation stands, the task it reaches leaves its loop, even if *)
(* the AI stream never yields again.                                       *)
RevocationStopsLoop ==
    \A m \in Messages :
        (revoked /\ pc[m] \in Loop) ~> (~revoked \/ pc[m] \notin Loop)

(* A task that has noticed its cancellation ends, unless its worker dies. *)
NoticedCancelEnds ==
    \A m \in Messages : (monitor[m] = "closing") ~> (pc[m] = "done" \/ ~NoCrash)
=============================================================================
