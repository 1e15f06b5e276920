---------------------------- MODULE StreamReader ----------------------------
(***************************************************************************)
(* The event stream of one chat: the worker that fills the Redis stream    *)
(* (tasks/chat_processor.py), the SSE endpoint that replays and follows it *)
(* (endpoints/chat.py) and one browser that shows it (streamService.ts,    *)
(* chatService.ts, useStreamReconnect.ts).                                 *)
(*                                                                         *)
(* Entry ids are the numbers 1, 2, ... in the order of XADD: Redis makes   *)
(* them from its clock, so they grow even across a deletion of the stream. *)
(* The stream is the interval first..last, and a deletion moves `first`.   *)
(* What the endpoint yields and the browser receives is one step: bytes in *)
(* flight when a connection breaks were never received.                    *)
(***************************************************************************)
EXTENDS Integers, Sequences

CONSTANTS NumTurns,      (* prompts of the chat, from this or another device *)
          MaxIds,        (* bound: entries ever published                    *)
          BatchSize,     (* count=10 of XREAD                                *)
          MaxFaults      (* bound: Redis calls that fail                     *)

ASSUME ReaderAssumption == /\ NumTurns \in Nat \ {0}
                           /\ MaxIds \in Nat \ {0}
                           /\ BatchSize \in Nat \ {0}
                           /\ MaxFaults \in Nat

Turns == 1..NumTurns
Ids == 1..MaxIds
NoId == 0                (* no Last-Event-ID; XREAD's "0-0"                 *)

VARIABLES
  (* Redis *)
  first, last,   (* the stream holds the ids first..last                    *)
  turnOf,        (* the turn that published an id, 0 while unpublished      *)
  terminal,      (* ids whose kind is complete or error                     *)
  revoked,       (* chat:{id}:revoked                                       *)
  (* the turns *)
  turn,          (* prompts sent so far: the number of the latest turn      *)
  phase,         (* its task: "none", "queued", "running", "published",     *)
                 (* "over"                                                  *)
  stop,          (* the DELETE /stream request: "idle", or "publishing"     *)
                 (* after it set the revoked key                            *)
  (* the SSE request *)
  conn,          (* "closed", "sent" and "restoring" before it is made,     *)
                 (* then "replay", "backlog", "check", "poll", "read",      *)
                 (* "batch"                                                 *)
  resumeId,      (* last_event_id of the request                            *)
  lastId,        (* last_id of _create_event_stream                         *)
  pos, upTo,     (* the ids pos..upTo are fetched but not yet yielded       *)
  monitor,       (* _monitor_stream_cancellation: "off", "starting",        *)
                 (* "subscribed", "notified", "cancelled" (event set)       *)
  missed,        (* what a replay was due to fetch (history)                *)
  (* the browser *)
  message,       (* the turn whose message the page shows, 0 for none       *)
  received,      (* ids appended to that message's event log                *)
  storedId,      (* chatStorage's lastEventId                               *)
  faults

redis == <<first, last, turnOf, terminal>>
turnVars == <<turn, phase, stop, revoked>>
request == <<conn, resumeId, lastId, pos, upTo, monitor, missed>>
page == <<message, received, storedId>>
vars == <<redis, turnVars, request, page, faults>>
-----------------------------------------------------------------------------
Stream == first..last
Open == {"replay", "backlog", "check", "poll", "read", "batch"}
Received == {received[i] : i \in DOMAIN received}

Fault == faults > 0 /\ faults' = faults - 1

Init == /\ first = 1 /\ last = 0
        /\ turnOf = [k \in Ids |-> 0]
        /\ terminal = {}
        /\ revoked = FALSE
        /\ turn = 0 /\ phase = "none" /\ stop = "idle"
        /\ conn = "closed"
        /\ resumeId = NoId /\ lastId = NoId
        /\ pos = 1 /\ upTo = 0
        /\ monitor = "off"
        /\ missed = {}
        /\ message = 0 /\ received = <<>> /\ storedId = NoId
        /\ faults = MaxFaults
-----------------------------------------------------------------------------
(* The worker.  DELETE of the stream may fail and is only logged.          *)

Begin == /\ phase = "queued"
         /\ phase' = "running"
         /\ \/ first' = last + 1 /\ UNCHANGED faults
            \/ Fault /\ UNCHANGED first
         /\ UNCHANGED <<last, turnOf, terminal, turn, stop, revoked, request, page>>

Append1(isTerminal) ==
    /\ last < MaxIds
    /\ last' = last + 1
    /\ turnOf' = [turnOf EXCEPT ![last + 1] = turn]
    /\ terminal' = IF isTerminal THEN terminal \cup {last + 1} ELSE terminal
    /\ UNCHANGED first

PublishContent == /\ phase = "running"
                  /\ last < MaxIds - 1        (* leave room for the end *)
                  /\ Append1(FALSE)
                  /\ UNCHANGED <<turnVars, request, page, faults>>

(* complete or error; a failing XADD is logged, and the turn ends without. *)
PublishTerminal == /\ phase = "running"
                   /\ phase' = "published"
                   /\ \/ Append1(TRUE) /\ UNCHANGED faults
                      \/ Fault /\ UNCHANGED redis
                   /\ UNCHANGED <<turn, stop, revoked, request, page>>

(* _cleanup_task_resources deletes the revoked key. *)
EndTurn == /\ phase = "published"
           /\ phase' = "over"
           /\ revoked' = FALSE
           /\ UNCHANGED <<redis, turn, stop, request, page, faults>>
-----------------------------------------------------------------------------
(* DELETE /stream, from any device: set the key, then publish on the       *)
(* cancel channel; whoever has not subscribed misses it.                   *)

StopSetsRevoked == /\ stop = "idle"
                   /\ phase \in {"queued", "running", "published"}
                   /\ revoked' = TRUE
                   /\ stop' = "publishing"
                   /\ UNCHANGED <<redis, turn, phase, request, page, faults>>

StopPublishes == /\ stop = "publishing"
                 /\ stop' = "idle"
                 /\ monitor' = IF monitor = "subscribed" THEN "notified" ELSE monitor
                 /\ UNCHANGED <<redis, turn, phase, revoked, conn, resumeId, lastId,
                                pos, upTo, missed, page, faults>>
-----------------------------------------------------------------------------
(* The browser: send a prompt, come back to a chat, lose the connection.   *)
(* The page does not send while its chat has an active task.               *)

NewTurn == /\ phase \in {"none", "over"}
           /\ turn < NumTurns
           /\ turn' = turn + 1
           /\ phase' = "queued"

(* createCompletion: POST /chat; the EventSource is made after the answer. *)
Send == /\ conn = "closed"
        /\ NewTurn
        /\ message' = turn + 1
        /\ received' = <<>>
        /\ conn' = "sent"
        /\ UNCHANGED <<redis, stop, revoked, resumeId, lastId, pos, upTo, monitor,
                       missed, storedId, faults>>

(* The prompt is sent from another device. *)
SendElsewhere == /\ NewTurn
                 /\ UNCHANGED <<redis, stop, revoked, request, page, faults>>

(* useStreamReconnect: the status endpoint reports an active task, and the *)
(* page empties that task's message.                                       *)
FindActiveTask == /\ conn = "closed"
                  /\ phase \in {"queued", "running", "published"}
                  /\ message' = turn
                  /\ received' = <<>>
                  /\ conn' = "restoring"
                  /\ UNCHANGED <<redis, turnVars, resumeId, lastId, pos, upTo,
                                 monitor, missed, storedId, faults>>

(* The state of a request that has just reached _create_event_stream. *)
Connect(id) ==
    /\ conn' = "replay"
    /\ resumeId' = id
    /\ lastId' = id
    /\ pos' = 1 /\ upTo' = 0
    /\ monitor' = "off"
    /\ missed' = {}

OpenAfterSend == /\ conn = "sent"
                 /\ Connect(storedId)
                 /\ UNCHANGED <<redis, turnVars, page, faults>>

(* replayStream: forget the stored id and open. *)
OpenForReplay == /\ conn = "restoring"
                 /\ Connect(NoId)
                 /\ storedId' = NoId
                 /\ UNCHANGED <<redis, turnVars, message, received, faults>>

(* reconnectToStream: the same message, from the stored id. *)
Reconnect == /\ conn = "closed"
             /\ message # 0 /\ storedId # NoId
             /\ Connect(storedId)
             /\ UNCHANGED <<redis, turnVars, page, faults>>

(* The network or the page goes away; onerror closes the EventSource. *)
Disconnect == /\ conn \in Open
              /\ conn' = "closed"
              /\ monitor' = "off"
              /\ UNCHANGED <<redis, turnVars, resumeId, lastId, pos, upTo, missed,
                             page, faults>>
-----------------------------------------------------------------------------
(* _replay_stream_backlog.  With a Last-Event-ID the lower end is the      *)
(* string "(id)", which is no stream id: XRANGE raises, the error is       *)
(* logged and the backlog is empty.                                        *)

Since(id) == {k \in Stream : k > id}

(* The monitor is started, then the live reader. *)
GoLive == conn' = "check" /\ monitor' = "starting"

Replay ==
    /\ conn = "replay"
    /\ missed' = Since(resumeId)
    /\ \/ /\ resumeId = NoId
          /\ pos' = first /\ upTo' = last
          /\ conn' = "backlog"
          /\ UNCHANGED <<monitor, faults>>
       \/ /\ resumeId # NoId
          /\ GoLive
          /\ UNCHANGED <<pos, upTo, faults>>
       \/ /\ Fault
          /\ GoLive
          /\ UNCHANGED <<pos, upTo>>
    /\ UNCHANGED <<redis, turnVars, resumeId, lastId, page>>

(* Mutant: last_id stays what it was. *)
Yield_KeepsLastId(rest) ==
    /\ received' = Append(received, pos)
    /\ storedId' = pos
    /\ pos' = pos + 1
    /\ conn' = IF pos \in terminal THEN "closed" ELSE rest
    /\ monitor' = IF pos \in terminal THEN "off" ELSE monitor
    /\ UNCHANGED <<lastId, upTo, resumeId, missed>>

(* Mutant: no return after a terminal entry. *)
Yield_GoesOn(rest) ==
    /\ received' = Append(received, pos)
    /\ storedId' = pos
    /\ lastId' = pos
    /\ pos' = pos + 1
    /\ conn' = rest
    /\ UNCHANGED <<monitor, upTo, resumeId, missed>>

(* Yield the entry at pos: the browser logs it and stores its id; after a  *)
(* terminal entry both sides close.                                        *)
Yield(rest) ==
    /\ received' = Append(received, pos)
    /\ storedId' = pos
    /\ lastId' = pos
    /\ pos' = pos + 1
    /\ conn' = IF pos \in terminal THEN "closed" ELSE rest
    /\ monitor' = IF pos \in terminal THEN "off" ELSE monitor
    /\ UNCHANGED <<upTo, resumeId, missed>>

YieldBacklog == /\ conn = "backlog"
                /\ pos <= upTo
                /\ Yield("backlog")
                /\ UNCHANGED <<redis, turnVars, message, faults>>

BacklogDone == /\ conn = "backlog"
               /\ pos > upTo
               /\ GoLive
               /\ UNCHANGED <<redis, turnVars, resumeId, lastId, pos, upTo, missed,
                              page, faults>>
-----------------------------------------------------------------------------
(* _stream_live_redis_events and _monitor_stream_cancellation. *)

(* The synthetic complete{cancelled} of the live reader. *)
SayCancelled == conn' = "closed" /\ monitor' = "off"

(* The error entry of _create_event_stream's except clause. *)
SayError == conn' = "closed" /\ monitor' = "off"

CheckRevoked ==
    /\ conn = "check"
    /\ \/ (revoked \/ monitor = "cancelled") /\ SayCancelled /\ UNCHANGED faults
       \/ ~revoked /\ monitor # "cancelled" /\ conn' = "poll" /\ UNCHANGED <<monitor, faults>>
       \/ Fault /\ SayError
    /\ UNCHANGED <<redis, turnVars, resumeId, lastId, pos, upTo, missed, page>>

(* An error ends the monitor and leaves the reader without one. *)
Subscribe == /\ monitor = "starting"
             /\ \/ monitor' = "subscribed" /\ UNCHANGED faults
                \/ Fault /\ monitor' = "off"
             /\ UNCHANGED <<redis, turnVars, conn, resumeId, lastId, pos, upTo,
                            missed, page>>

NoticeCancel == /\ monitor = "notified"
                /\ monitor' = "cancelled"
                /\ UNCHANGED <<redis, turnVars, conn, resumeId, lastId, pos, upTo,
                               missed, page, faults>>

(* An error of get_message is logged and ends the monitor: what was        *)
(* published and not yet read goes with it.                                *)
MonitorFails == /\ monitor \in {"subscribed", "notified"}
                /\ Fault
                /\ monitor' = "off"
                /\ UNCHANGED <<redis, turnVars, conn, resumeId, lastId, pos, upTo,
                               missed, page>>

(* Mutant: the loop does not look at the cancel event. *)
EndCancelled_Never ==
    /\ conn = "check"
    /\ monitor = "cancelled"
    /\ SayCancelled
    /\ UNCHANGED <<redis, turnVars, resumeId, lastId, pos, upTo, missed, page, faults>>

EndCancelled ==
    /\ conn = "poll"
    /\ monitor = "cancelled"
    /\ SayCancelled
    /\ UNCHANGED <<redis, turnVars, resumeId, lastId, pos, upTo, missed, page, faults>>

StartRead == /\ conn = "poll"
             /\ monitor # "cancelled"
             /\ conn' = "read"
             /\ UNCHANGED <<redis, turnVars, resumeId, lastId, pos, upTo, monitor,
                            missed, page, faults>>

(* XREAD returns up to BatchSize entries from the oldest one after last_id. *)
Oldest == IF lastId < first THEN first ELSE lastId + 1

(* Mutant: XREAD from the newest entry of the stream, as with "$". *)
Read_OnlyNewest ==
    /\ conn = "read"
    /\ Oldest <= last
    /\ pos' = last /\ upTo' = last
    /\ conn' = "batch"
    /\ UNCHANGED <<redis, turnVars, resumeId, lastId, monitor, missed, page, faults>>

(* Mutant: an empty answer is taken for a batch. *)
Read_NoEmptyCheck ==
    /\ conn = "read"
    /\ pos' = Oldest
    /\ upTo' = IF last < Oldest + BatchSize THEN last ELSE Oldest + BatchSize - 1
    /\ conn' = "batch"
    /\ UNCHANGED <<redis, turnVars, resumeId, lastId, monitor, missed, page, faults>>

Read ==
    /\ conn = "read"
    /\ Oldest <= last
    /\ pos' = Oldest
    /\ upTo' = IF last < Oldest + BatchSize THEN last ELSE Oldest + BatchSize - 1
    /\ conn' = "batch"
    /\ UNCHANGED <<redis, turnVars, resumeId, lastId, monitor, missed, page, faults>>

(* XREAD timed out, or failed: go round the loop. *)
ReadNothing ==
    /\ conn = "read"
    /\ \/ Oldest > last /\ UNCHANGED faults
       \/ Fault
    /\ conn' = "poll"
    /\ UNCHANGED <<redis, turnVars, resumeId, lastId, pos, upTo, monitor, missed, page>>

YieldBatch == /\ conn = "batch"
              /\ Yield(IF pos = upTo THEN "poll" ELSE "batch")
              /\ UNCHANGED <<redis, turnVars, message, faults>>
-----------------------------------------------------------------------------
Worker == Begin \/ PublishContent \/ PublishTerminal \/ EndTurn
Stop == StopSetsRevoked \/ StopPublishes
Browser == \/ Send \/ SendElsewhere \/ FindActiveTask \/ OpenAfterSend
           \/ OpenForReplay \/ Reconnect \/ Disconnect
Reader == Replay \/ YieldBacklog \/ BacklogDone \/ CheckRevoked \/ EndCancelled
            \/ StartRead \/ Read \/ ReadNothing \/ YieldBatch
Monitor == Subscribe \/ NoticeCancel \/ MonitorFails

Next == Worker \/ Stop \/ Browser \/ Reader \/ Monitor

Spec == Init /\ [][Next]_vars

(* The API process runs every ready coroutine, so a request makes progress *)
(* and its monitor does.  Nothing else is fair, and no failure has to come. *)
LiveSpec == Spec /\ WF_vars(Reader) /\ WF_vars(Subscribe \/ NoticeCancel)
-----------------------------------------------------------------------------
TypeOK ==
    /\ first \in 1..(MaxIds + 1) /\ last \in 0..MaxIds
    /\ first <= last + 1
    /\ turnOf \in [Ids -> 0..NumTurns]
    /\ terminal \subseteq Ids
    /\ revoked \in BOOLEAN
    /\ turn \in 0..NumTurns
    /\ phase \in {"none", "queued", "running", "published", "over"}
    /\ stop \in {"idle", "publishing"}
    /\ conn \in Open \cup {"closed", "sent", "restoring"}
    /\ resumeId \in 0..MaxIds /\ lastId \in 0..MaxIds
    /\ pos \in 1..(MaxIds + 1) /\ upTo \in 0..MaxIds
    /\ conn = "batch" => pos <= upTo
    /\ monitor \in {"off", "starting", "subscribed", "notified", "cancelled"}
    /\ missed \subseteq Ids
    /\ message \in 0..NumTurns
    /\ received \in Seq(Ids)
    /\ storedId \in 0..MaxIds
    /\ faults \in 0..MaxFaults

(* However often a page reconnects or replays, the event log of its        *)
(* message has no entry twice and none out of order.                       *)
Ordered == \A i, j \in DOMAIN received : i < j => received[i] < received[j]

(* ... and when it shows an entry of its message's turn, it shows all that *)
(* the turn published before: nothing falls between the replay and the     *)
(* live reader, between two batches or between two connections.            *)
PrefixShown ==
    \A j \in Received : turnOf[j] = message =>
        \A k \in Ids : k < j /\ turnOf[k] = message => k \in Received

(* A reader for which a terminal entry waits comes to its end, unless the  *)
(* next turn deletes the stream first.                                     *)
TerminalEndsReader ==
    \A k \in Ids :
        (conn \in Open /\ k \in Since(lastId) \cap terminal)
            ~> (conn \notin Open \/ k \notin Stream)

(* A stop that was published to a reader's monitor ends the reader, even   *)
(* if the worker never publishes anything again, unless the monitor itself *)
(* fails before it has read the publication; from the event on, nothing    *)
(* stands in between.                                                      *)
StopEndsReader ==
    /\ (monitor = "notified") ~> (conn \notin Open \/ monitor = "off")
    /\ (monitor = "cancelled") ~> (conn \notin Open)

(* The doc of _replay_stream_backlog: with a Last-Event-ID "this fetches   *)
(* all events since that ID".                                              *)
ReplayFetchesMissed ==
    conn = "check" /\ faults = MaxFaults => missed \subseteq Received
=============================================================================
