--------------------------- MODULE ChatTaskProofs ---------------------------
(***************************************************************************)
(* Proofs about ChatTask, for any number of turns, events, faults and      *)
(* crashes.                                                                *)
(***************************************************************************)
EXTENDS ChatTask, TLAPS

(* A step that starts at a program point of a turn ends at one. *)
LEMMA Labels ==
    /\ {"idle", "done", "initialize", "delete_stream", "store_task_key"} \subseteq PC
    /\ {"next_event", "publish_event"} \subseteq PC
    /\ {"mark_interrupted", "publish_complete", "save_content",
        "create_checkpoint"} \subseteq PC
    /\ {"publish_error", "mark_failed", "save_failed"} \subseteq PC
    /\ {"delete_task_key", "delete_revoked_key"} \subseteq PC
BY DEF PC, Running, Loop, Finalize, Fail, Cleanup

LEMMA NoneIsNoMessage == None \notin Messages
BY ChatAssumption DEF None, Messages

(* Publishing a typed entry keeps the stream a sequence of entries. *)
LEMMA PublishType ==
    ASSUME stream \in Seq(Entry), NEW m \in Messages,
           NEW kind \in {"content", "complete", "error"}, NEW n \in 0..MaxEvents,
           Publish(m, kind, n)
    PROVE  stream' \in Seq(Entry)
BY DEF Publish, Entry

LEMMA FaultType == TypeOK /\ Fault => faults' \in 0..MaxFaults
BY ChatAssumption DEF TypeOK, Fault

(* Leaving the loop, for whatever verdict, is well typed. *)
LEMMA LeaveLoopType ==
    ASSUME TypeOK, NEW m \in Messages, NEW label \in PC,
           NEW decided \in {"none"} \cup Terminal, LeaveLoop(m, label, decided)
    PROVE  /\ pc' \in [Messages -> PC]
           /\ verdict' \in [Messages -> {"none"} \cup Terminal]
           /\ monitor' \in [Messages -> {"off", "polling", "closing"}]
BY DEF TypeOK, LeaveLoop

LEMMA AfterLoopType ==
    ASSUME TypeOK, NEW m \in Messages, AfterLoop(m)
    PROVE  /\ pc' \in [Messages -> PC]
           /\ verdict' \in [Messages -> {"none"} \cup Terminal]
           /\ monitor' \in [Messages -> {"off", "polling", "closing"}]
BY LeaveLoopType, Labels DEF AfterLoop, Terminal

(* Every step keeps every variable in its type. *)
LEMMA TypeStep == TypeOK /\ [Next]_vars => TypeOK'
<1> SUFFICES ASSUME TypeOK, [Next]_vars PROVE TypeOK'
  OBVIOUS
<1> USE DEF db, redis, api, worker, Goto
<1>1. ASSUME NEW m \in Messages, Send(m) PROVE TypeOK'
  <2>1. CASE CreateMessage(m)
    BY <2>1 DEF CreateMessage, TypeOK
  <2>2. CASE EnqueueTask(m)
    BY <2>2 DEF EnqueueTask, TypeOK
  <2>3. CASE StoreActiveTask(m)
    BY <2>3 DEF StoreActiveTask, TypeOK
  <2>4. CASE RejectSend(m)
    BY <2>4, FaultType DEF RejectSend, TypeOK
  <2> QED BY <1>1, <2>1, <2>2, <2>3, <2>4 DEF Send
<1>2. ASSUME NEW m \in Messages, Start(m) PROVE TypeOK'
  <2>1. CASE Deliver(m)
    BY <2>1, Labels DEF Deliver, TypeOK
  <2>2. CASE Initialize(m)
    BY <2>2, Labels DEF Initialize, TypeOK
  <2>3. CASE InitializeFails(m)
    BY <2>3, Labels, FaultType DEF InitializeFails, TypeOK
  <2>4. CASE DeleteStream(m)
    BY <2>4, Labels DEF DeleteStream, TypeOK
  <2>5. CASE StoreTaskKey(m)
    BY <2>5, Labels DEF StoreTaskKey, TypeOK
  <2>6. CASE PrepareStreamFails(m)
    BY <2>6, Labels, FaultType DEF PrepareStreamFails, TypeOK
  <2> QED BY <1>2, <2>1, <2>2, <2>3, <2>4, <2>5, <2>6 DEF Start
<1>3. ASSUME NEW m \in Messages, AIStream(m) PROVE TypeOK'
  <2>1. CASE NextEvent(m)
    <3>1. events' \in [Messages -> 0..MaxEvents]
      BY <2>1, ChatAssumption DEF NextEvent, TypeOK
    <3> QED BY <2>1, <3>1, Labels DEF NextEvent, TypeOK
  <2>2. CASE StreamEnds(m)
    BY <2>2, Labels, AfterLoopType DEF StreamEnds, TypeOK
  <2>3. CASE StreamFails(m)
    BY <2>3, Labels, LeaveLoopType DEF StreamFails, Terminal, TypeOK
  <2> QED BY <1>3, <2>1, <2>2, <2>3 DEF AIStream
<1>4. ASSUME NEW m \in Messages, PublishEvent(m) PROVE TypeOK'
  <2>1. stream' \in Seq(Entry)
    BY <1>4, PublishType DEF PublishEvent, TypeOK
  <2> QED BY <1>4, <2>1, Labels, FaultType DEF PublishEvent, TypeOK
<1>5. ASSUME NEW m \in Messages, Monitor(m) PROVE TypeOK'
  <2>1. CASE MonitorSeesRevoked(m)
    BY <2>1, Labels DEF MonitorSeesRevoked, TypeOK
  <2>2. CASE CancelInNextEvent(m)
    BY <2>2, Labels, LeaveLoopType DEF CancelInNextEvent, Terminal, TypeOK
  <2>3. CASE CancelInPublish(m)
    <3>1. stream' \in Seq(Entry)
      BY <2>3, PublishType DEF CancelInPublish, TypeOK
    <3> QED BY <2>3, <3>1, Labels DEF CancelInPublish, LeaveLoop, TypeOK
  <2> QED BY <1>5, <2>1, <2>2, <2>3 DEF Monitor
<1>6. ASSUME NEW m \in Messages, Finish(m) PROVE TypeOK'
  <2>1. CASE MarkInterrupted(m)
    BY <2>1, Labels, FaultType DEF MarkInterrupted, Terminal, TypeOK
  <2>2. CASE PublishComplete(m)
    <3>1. stream' \in Seq(Entry)
      BY <2>2, PublishType, ChatAssumption DEF PublishComplete, TypeOK
    <3> QED BY <2>2, <3>1, Labels, FaultType DEF PublishComplete, TypeOK
  <2>3. CASE SaveContent(m)
    <3>1. /\ status' \in [Messages -> {"none", "in_progress"} \cup Terminal]
          /\ content' \in [Messages -> 0..MaxEvents]
          /\ faults' \in 0..MaxFaults
      BY <2>3, FaultType DEF SaveContent, SaveEvents, TypeOK
    <3> QED BY <2>3, <3>1, Labels DEF SaveContent, TypeOK
  <2>4. CASE CreateCheckpoint(m)
    BY <2>4, Labels, FaultType DEF CreateCheckpoint, TypeOK
  <2>5. CASE PublishError(m)
    <3>1. stream' \in Seq(Entry)
      BY <2>5, PublishType, ChatAssumption DEF PublishError, TypeOK
    <3> QED BY <2>5, <3>1, Labels, FaultType DEF PublishError, TypeOK
  <2>6. CASE MarkFailed(m)
    BY <2>6, Labels, FaultType DEF MarkFailed, Terminal, TypeOK
  <2>7. CASE SaveFailed(m)
    <3>1. /\ status' \in [Messages -> {"none", "in_progress"} \cup Terminal]
          /\ content' \in [Messages -> 0..MaxEvents]
          /\ faults' \in 0..MaxFaults
      BY <2>7, FaultType DEF SaveFailed, SaveEvents, TypeOK
    <3> QED BY <2>7, <3>1, Labels DEF SaveFailed, TypeOK
  <2> QED BY <1>6, <2>1, <2>2, <2>3, <2>4, <2>5, <2>6, <2>7 DEF Finish
<1>7. ASSUME NEW m \in Messages, CleanUp(m) PROVE TypeOK'
  <2>1. CASE DeleteTaskKey(m)
    BY <2>1, Labels DEF DeleteTaskKey, TypeOK
  <2>2. CASE DeleteRevokedKey(m)
    BY <2>2, Labels DEF DeleteRevokedKey, TaskEnds, TypeOK
  <2>3. CASE CleanupFails(m)
    BY <2>3, Labels, FaultType DEF CleanupFails, TaskEnds, TypeOK
  <2> QED BY <1>7, <2>1, <2>2, <2>3 DEF CleanUp
<1>8. ASSUME NEW m \in Messages, Crash(m) PROVE TypeOK'
  <2>1. /\ events' \in [Messages -> 0..MaxEvents]
        /\ crashes' \in 0..MaxCrashes
    BY <1>8, ChatAssumption DEF Crash, TypeOK
  <2>2. pc' \in [Messages -> PC]
    BY <1>8, Labels DEF Crash, TypeOK
  <2>3. queue' \subseteq Messages
    BY <1>8 DEF Crash, TypeOK
  <2>4. result' \in [Messages -> {"active", "success", "failure"}]
    BY <1>8 DEF Crash, TypeOK
  <2>5. /\ monitor' \in [Messages -> {"off", "polling", "closing"}]
        /\ wasCancelled' \in [Messages -> BOOLEAN]
        /\ verdict' \in [Messages -> {"none"} \cup Terminal]
    BY <1>8 DEF Crash, TypeOK
  <2> QED BY <1>8, <2>1, <2>2, <2>3, <2>4, <2>5 DEF Crash, TypeOK
<1>9. CASE CancelRequest
  BY <1>9 DEF CancelRequest, CancelReadsTaskKey, CancelSetsRevoked, TypeOK
<1>10. CASE ProbeRequest
  <2>1. CASE ProbeReadsMessage
    BY <2>1, NoneIsNoMessage DEF ProbeReadsMessage, TypeOK
  <2>2. CASE ProbeReadsTaskKey
    BY <2>2, NoneIsNoMessage DEF ProbeReadsTaskKey, TypeOK
  <2>3. CASE ProbeFindsNoTask
    BY <2>3, NoneIsNoMessage DEF ProbeFindsNoTask, TypeOK
  <2>4. CASE ProbeReadsRevoked
    BY <2>4, NoneIsNoMessage DEF ProbeReadsRevoked, TypeOK
  <2>5. CASE ProbeReadsResult
    BY <2>5, NoneIsNoMessage DEF ProbeReadsResult, TypeOK
  <2>6. CASE ProbeDeletesTaskKey
    BY <2>6, NoneIsNoMessage DEF ProbeDeletesTaskKey, TypeOK
  <2> QED BY <1>10, <2>1, <2>2, <2>3, <2>4, <2>5, <2>6 DEF ProbeRequest
<1>11. CASE UNCHANGED vars
  BY <1>11 DEF vars, TypeOK
<1> QED BY <1>1, <1>2, <1>3, <1>4, <1>5, <1>6, <1>7, <1>8, <1>9, <1>10, <1>11
        DEF Next

LEMMA TypeInit == Init => TypeOK
<1> SUFFICES ASSUME Init PROVE TypeOK
  OBVIOUS
<1>1. stream \in Seq(Entry)
  BY DEF Init
<1>2. /\ 0 \in 0..MaxEvents /\ MaxFaults \in 0..MaxFaults
      /\ MaxCrashes \in 0..MaxCrashes /\ None \notin Messages
  BY ChatAssumption, NoneIsNoMessage
<1> QED BY <1>1, <1>2, Labels DEF Init, TypeOK

(* The type invariant, for every value of the constants. *)
THEOREM TypeCorrect == Spec => []TypeOK
BY TypeInit, TypeStep, PTL DEF Spec
-----------------------------------------------------------------------------
(* What holds of one turn whose task is delivered once: the monitor lives  *)
(* only in the loop, a verdict is fixed when the loop is left, the message *)
(* is closed with that verdict and never with another.                     *)
Early == {"idle", "initialize", "delete_stream", "store_task_key"}

SendInv(m) ==
    /\ status[m] = "none" <=> send[m] = "idle"
    /\ send[m] \in {"idle", "created"} => pc[m] = "idle" /\ m \notin queue
    /\ m \in queue => pc[m] = "idle"

VerdictInv(m) ==
    /\ monitor[m] # "off" => pc[m] \in Loop
    /\ pc[m] \in Early \cup Loop => verdict[m] = "none"
    /\ pc[m] = "mark_interrupted" => verdict[m] = "interrupted"
    /\ pc[m] \in {"publish_complete", "save_content"} =>
           verdict[m] \in {"completed", "interrupted"}
    /\ pc[m] \in Fail => verdict[m] = "failed"
    /\ verdict[m] = "completed" => ~wasCancelled[m] /\ events[m] > 0

StatusInv(m) ==
    /\ status[m] \in Terminal => status[m] = verdict[m]
    /\ status[m] \in {"none", "in_progress"} => content[m] = 0
    /\ status[m] = "completed" => content[m] = events[m]
    /\ pc[m] \in {"mark_interrupted", "publish_error", "mark_failed"} =>
           status[m] = "in_progress"
    /\ pc[m] \in {"publish_complete", "save_content", "save_failed"} =>
           /\ content[m] = 0
           /\ verdict[m] = "completed" => status[m] = "in_progress"

TurnInv == NoCrash => \A m \in Messages : SendInv(m) /\ VerdictInv(m) /\ StatusInv(m)

(* The crash budget is only ever spent. *)
LEMMA CrashBudget == TypeOK /\ [Next]_vars /\ NoCrash' => NoCrash
<1> SUFFICES ASSUME TypeOK, [Next]_vars, NoCrash' PROVE NoCrash
  OBVIOUS
<1>1. CASE \E m \in Messages : Crash(m)
  BY <1>1, ChatAssumption DEF Crash, NoCrash, TypeOK
<1>2. CASE UNCHANGED crashes
  BY <1>2 DEF NoCrash
<1>3. ASSUME NEW m \in Messages, Send(m) PROVE UNCHANGED crashes
  BY <1>3 DEF Send, CreateMessage, EnqueueTask, StoreActiveTask, RejectSend
<1>4. ASSUME NEW m \in Messages, Start(m) PROVE UNCHANGED crashes
  BY <1>4 DEF Start, Deliver, Initialize, InitializeFails, DeleteStream, StoreTaskKey,
     PrepareStreamFails
<1>5. ASSUME NEW m \in Messages, AIStream(m) PROVE UNCHANGED crashes
  BY <1>5 DEF AIStream, NextEvent, StreamEnds, StreamFails
<1>6. ASSUME NEW m \in Messages, Monitor(m) PROVE UNCHANGED crashes
  BY <1>6 DEF Monitor, MonitorSeesRevoked, CancelInNextEvent, CancelInPublish
<1>7. ASSUME NEW m \in Messages, Finish(m) PROVE UNCHANGED crashes
  BY <1>7 DEF Finish, MarkInterrupted, PublishComplete, SaveContent, CreateCheckpoint,
     PublishError, MarkFailed, SaveFailed
<1>8. ASSUME NEW m \in Messages, CleanUp(m) PROVE UNCHANGED crashes
  BY <1>8 DEF CleanUp, DeleteTaskKey, DeleteRevokedKey, CleanupFails
<1>9. ASSUME NEW m \in Messages, PublishEvent(m) PROVE UNCHANGED crashes
  BY <1>9 DEF PublishEvent
<1>10. ASSUME CancelRequest \/ ProbeRequest PROVE UNCHANGED crashes
  BY <1>10 DEF CancelRequest, CancelReadsTaskKey, CancelSetsRevoked, ProbeRequest,
     ProbeReadsMessage, ProbeReadsTaskKey, ProbeFindsNoTask, ProbeReadsRevoked,
     ProbeReadsResult, ProbeDeletesTaskKey
<1> QED BY <1>1, <1>2, <1>3, <1>4, <1>5, <1>6, <1>7, <1>8, <1>9, <1>10 DEF Next, vars

(* Every step of every turn keeps every turn's invariant. *)
LEMMA TurnStep == TypeOK /\ TurnInv /\ [Next]_vars => TurnInv'
<1> SUFFICES ASSUME TypeOK, TurnInv, [Next]_vars, NoCrash', NEW k \in Messages
             PROVE  SendInv(k)' /\ VerdictInv(k)' /\ StatusInv(k)'
  BY DEF TurnInv
<1>1. NoCrash
  BY CrashBudget
<1>2. /\ SendInv(k) /\ VerdictInv(k) /\ StatusInv(k)
  BY <1>1 DEF TurnInv
<1> USE <1>2 DEF SendInv, VerdictInv, StatusInv, Early, Loop, Fail, Terminal, db,
                 api, worker, Goto
<1>3. ASSUME NEW m \in Messages, Send(m)
      PROVE  SendInv(k)' /\ VerdictInv(k)' /\ StatusInv(k)'
  <2>1. CASE CreateMessage(m)
    BY <2>1 DEF CreateMessage, TypeOK
  <2>2. CASE EnqueueTask(m)
    BY <2>2 DEF EnqueueTask, TypeOK
  <2>3. CASE StoreActiveTask(m)
    BY <2>3 DEF StoreActiveTask, TypeOK
  <2>4. CASE RejectSend(m)
    BY <2>4 DEF RejectSend, TypeOK
  <2> QED BY ONLY <1>3, <2>1, <2>2, <2>3, <2>4 DEF Send
<1>4. ASSUME NEW m \in Messages, Start(m)
      PROVE  SendInv(k)' /\ VerdictInv(k)' /\ StatusInv(k)'
  <2>1. CASE Deliver(m)
    BY <2>1 DEF Deliver, TypeOK
  <2>2. CASE Initialize(m)
    BY <2>2 DEF Initialize, TypeOK
  <2>3. CASE InitializeFails(m)
    BY <2>3 DEF InitializeFails, TypeOK
  <2>4. CASE DeleteStream(m)
    BY <2>4 DEF DeleteStream, TypeOK
  <2>5. CASE StoreTaskKey(m)
    BY <2>5 DEF StoreTaskKey, TypeOK
  <2>6. CASE PrepareStreamFails(m)
    BY <2>6 DEF PrepareStreamFails, TypeOK
  <2> QED BY ONLY <1>4, <2>1, <2>2, <2>3, <2>4, <2>5, <2>6 DEF Start
<1>5. ASSUME NEW m \in Messages, AIStream(m)
      PROVE  SendInv(k)' /\ VerdictInv(k)' /\ StatusInv(k)'
  <2>1. CASE NextEvent(m)
    BY <2>1 DEF NextEvent, TypeOK
  <2>2. CASE StreamEnds(m)
    BY <2>2 DEF StreamEnds, AfterLoop, LeaveLoop, TypeOK
  <2>3. CASE StreamFails(m)
    BY <2>3 DEF StreamFails, LeaveLoop, TypeOK
  <2> QED BY ONLY <1>5, <2>1, <2>2, <2>3 DEF AIStream
<1>6. ASSUME NEW m \in Messages, Monitor(m)
      PROVE  SendInv(k)' /\ VerdictInv(k)' /\ StatusInv(k)'
  <2>1. CASE MonitorSeesRevoked(m)
    BY <2>1 DEF MonitorSeesRevoked, TypeOK
  <2>2. CASE CancelInNextEvent(m)
    BY <2>2 DEF CancelInNextEvent, LeaveLoop, TypeOK
  <2>3. CASE CancelInPublish(m)
    BY <2>3 DEF CancelInPublish, LeaveLoop, TypeOK
  <2> QED BY ONLY <1>6, <2>1, <2>2, <2>3 DEF Monitor
<1>7. ASSUME NEW m \in Messages, Finish(m)
      PROVE  SendInv(k)' /\ VerdictInv(k)' /\ StatusInv(k)'
  <2>1. CASE MarkInterrupted(m)
    BY <2>1 DEF MarkInterrupted, TypeOK
  <2>2. CASE PublishComplete(m)
    BY <2>2 DEF PublishComplete, TypeOK
  <2>3. CASE SaveContent(m)
    BY <2>3 DEF SaveContent, SaveEvents, TypeOK
  <2>4. CASE CreateCheckpoint(m)
    BY <2>4 DEF CreateCheckpoint, TypeOK
  <2>5. CASE PublishError(m)
    BY <2>5 DEF PublishError, TypeOK
  <2>6. CASE MarkFailed(m)
    BY <2>6 DEF MarkFailed, TypeOK
  <2>7. CASE SaveFailed(m)
    BY <2>7 DEF SaveFailed, SaveEvents, TypeOK
  <2> QED BY ONLY <1>7, <2>1, <2>2, <2>3, <2>4, <2>5, <2>6, <2>7 DEF Finish
<1>8. ASSUME NEW m \in Messages, CleanUp(m)
      PROVE  SendInv(k)' /\ VerdictInv(k)' /\ StatusInv(k)'
  <2>1. CASE DeleteTaskKey(m)
    BY <2>1 DEF DeleteTaskKey, TypeOK
  <2>2. CASE DeleteRevokedKey(m)
    BY <2>2 DEF DeleteRevokedKey, TypeOK
  <2>3. CASE CleanupFails(m)
    BY <2>3 DEF CleanupFails, Cleanup, TypeOK
  <2> QED BY ONLY <1>8, <2>1, <2>2, <2>3 DEF CleanUp
<1>9. ASSUME NEW m \in Messages, PublishEvent(m)
      PROVE  SendInv(k)' /\ VerdictInv(k)' /\ StatusInv(k)'
  BY <1>9 DEF PublishEvent, TypeOK
<1>10. ASSUME NEW m \in Messages, Crash(m) PROVE FALSE
  BY <1>1, <1>10, ChatAssumption DEF Crash, NoCrash, TypeOK
<1>11. CASE CancelRequest
  BY <1>11 DEF CancelRequest, CancelReadsTaskKey, CancelSetsRevoked
<1>12. CASE ProbeRequest
  BY <1>12 DEF ProbeRequest, ProbeReadsMessage, ProbeReadsTaskKey,
     ProbeFindsNoTask, ProbeReadsRevoked, ProbeReadsResult, ProbeDeletesTaskKey
<1>13. CASE UNCHANGED vars
  BY <1>13 DEF vars
<1> QED BY ONLY [Next]_vars, <1>3, <1>4, <1>5, <1>6, <1>7, <1>8, <1>9, <1>10, <1>11,
   <1>12, <1>13 DEF Next

LEMMA TurnInit == Init => TurnInv
BY ChatAssumption DEF Init, TurnInv, SendInv, VerdictInv, StatusInv, Early, Loop, Fail,
   Terminal

THEOREM TurnInvariant == Spec => []TurnInv
BY TypeCorrect, TurnInit, TurnStep, PTL DEF Spec

(* A completed message was never cancelled and stores every event of its   *)
(* turn, whatever the number of turns that share the chat's keys.          *)
THEOREM CompletedTurnIsWhole == Spec => []VerdictSound
<1>1. TypeOK /\ TurnInv => VerdictSound
  BY DEF TurnInv, VerdictSound, VerdictInv, StatusInv, Terminal, TypeOK
<1> QED BY <1>1, TypeCorrect, TurnInvariant, PTL
-----------------------------------------------------------------------------
(* As long as no database or Redis call has failed, each step of the end   *)
(* of a turn finds what the step before it has written.                    *)
ClosedTurn(m) ==
    /\ pc[m] \in {"publish_complete", "save_content"} =>
           (verdict[m] = "interrupted" => status[m] = "interrupted")
    /\ pc[m] = "save_failed" => status[m] = "failed"
    /\ pc[m] = "create_checkpoint" => verdict[m] = "completed"
    /\ pc[m] \in {"create_checkpoint", "done"} \cup Cleanup =>
           (verdict[m] # "none" => status[m] = verdict[m] /\ content[m] = events[m])

ClosedInv == NoCrash /\ NoFault => \A m \in Messages : ClosedTurn(m)

(* The fault budget is only ever spent. *)
LEMMA FaultBudget == TypeOK /\ [Next]_vars /\ NoFault' => NoFault
<1> SUFFICES ASSUME TypeOK, [Next]_vars, NoFault' PROVE NoFault
  OBVIOUS
<1>1. CASE Fault
  BY <1>1, ChatAssumption DEF Fault, NoFault, TypeOK
<1>2. CASE UNCHANGED faults
  BY <1>2 DEF NoFault
<1>3. ASSUME NEW m \in Messages, Send(m) PROVE Fault \/ UNCHANGED faults
  BY <1>3 DEF Send, CreateMessage, EnqueueTask, StoreActiveTask, RejectSend
<1>4. ASSUME NEW m \in Messages, Start(m) PROVE Fault \/ UNCHANGED faults
  BY <1>4 DEF Start, Deliver, Initialize, InitializeFails, DeleteStream, StoreTaskKey,
     PrepareStreamFails
<1>5. ASSUME NEW m \in Messages, AIStream(m) PROVE UNCHANGED faults
  BY <1>5 DEF AIStream, NextEvent, StreamEnds, StreamFails
<1>6. ASSUME NEW m \in Messages, Monitor(m) PROVE UNCHANGED faults
  BY <1>6 DEF Monitor, MonitorSeesRevoked, CancelInNextEvent, CancelInPublish
<1>7. ASSUME NEW m \in Messages, Finish(m) PROVE Fault \/ UNCHANGED faults
  BY <1>7 DEF Finish, MarkInterrupted, PublishComplete, SaveContent, CreateCheckpoint,
     PublishError, MarkFailed, SaveFailed, SaveEvents
<1>8. ASSUME NEW m \in Messages, CleanUp(m) PROVE Fault \/ UNCHANGED faults
  BY <1>8 DEF CleanUp, DeleteTaskKey, DeleteRevokedKey, CleanupFails
<1>9. ASSUME NEW m \in Messages, PublishEvent(m) \/ Crash(m)
       PROVE Fault \/ UNCHANGED faults
  BY <1>9 DEF PublishEvent, Crash
<1>10. ASSUME CancelRequest \/ ProbeRequest PROVE UNCHANGED faults
  BY <1>10 DEF CancelRequest, CancelReadsTaskKey, CancelSetsRevoked, ProbeRequest,
     ProbeReadsMessage, ProbeReadsTaskKey, ProbeFindsNoTask, ProbeReadsRevoked,
     ProbeReadsResult, ProbeDeletesTaskKey
<1> QED BY <1>1, <1>2, <1>3, <1>4, <1>5, <1>6, <1>7, <1>8, <1>9, <1>10 DEF Next, vars

(* A step that spends the fault budget leaves nothing to show. *)
LEMMA ClosedStep == TypeOK /\ TurnInv /\ ClosedInv /\ [Next]_vars => ClosedInv'
<1> SUFFICES ASSUME TypeOK, TurnInv, ClosedInv, [Next]_vars, NoCrash', NoFault',
                    NEW k \in Messages
             PROVE  ClosedTurn(k)'
  BY DEF ClosedInv
<1>1. NoCrash /\ NoFault /\ ~Fault
  BY CrashBudget, FaultBudget, ChatAssumption DEF Fault, NoFault, TypeOK
<1>2. /\ ClosedTurn(k)
      /\ SendInv(k) /\ VerdictInv(k) /\ StatusInv(k)
  BY <1>1 DEF ClosedInv, TurnInv
<1> USE <1>1, <1>2 DEF ClosedTurn, SendInv, VerdictInv, StatusInv, Early, Loop,
                 Fail, Cleanup, Terminal, db, api, worker, Goto
<1>3. ASSUME NEW m \in Messages, Send(m) PROVE ClosedTurn(k)'
  <2>1. CASE CreateMessage(m)
    BY <2>1 DEF CreateMessage, TypeOK
  <2>2. CASE EnqueueTask(m)
    BY <2>2 DEF EnqueueTask, TypeOK
  <2>3. CASE StoreActiveTask(m)
    BY <2>3 DEF StoreActiveTask, TypeOK
  <2>4. CASE RejectSend(m)
    BY <2>4 DEF RejectSend, TypeOK
  <2> QED BY ONLY <1>3, <2>1, <2>2, <2>3, <2>4 DEF Send
<1>4. ASSUME NEW m \in Messages, Start(m) PROVE ClosedTurn(k)'
  <2>1. CASE Deliver(m)
    BY <2>1 DEF Deliver, TypeOK
  <2>2. CASE Initialize(m)
    BY <2>2 DEF Initialize, TypeOK
  <2>3. CASE InitializeFails(m)
    BY <2>3 DEF InitializeFails, TypeOK
  <2>4. CASE DeleteStream(m)
    BY <2>4 DEF DeleteStream, TypeOK
  <2>5. CASE StoreTaskKey(m)
    BY <2>5 DEF StoreTaskKey, TypeOK
  <2>6. CASE PrepareStreamFails(m)
    BY <2>6 DEF PrepareStreamFails, TypeOK
  <2> QED BY ONLY <1>4, <2>1, <2>2, <2>3, <2>4, <2>5, <2>6 DEF Start
<1>5. ASSUME NEW m \in Messages, AIStream(m) PROVE ClosedTurn(k)'
  <2>1. CASE NextEvent(m)
    BY <2>1 DEF NextEvent, TypeOK
  <2>2. CASE StreamEnds(m)
    BY <2>2 DEF StreamEnds, AfterLoop, LeaveLoop, TypeOK
  <2>3. CASE StreamFails(m)
    BY <2>3 DEF StreamFails, LeaveLoop, TypeOK
  <2> QED BY ONLY <1>5, <2>1, <2>2, <2>3 DEF AIStream
<1>6. ASSUME NEW m \in Messages, Monitor(m) PROVE ClosedTurn(k)'
  <2>1. CASE MonitorSeesRevoked(m)
    BY <2>1 DEF MonitorSeesRevoked, TypeOK
  <2>2. CASE CancelInNextEvent(m)
    BY <2>2 DEF CancelInNextEvent, LeaveLoop, TypeOK
  <2>3. CASE CancelInPublish(m)
    BY <2>3 DEF CancelInPublish, LeaveLoop, TypeOK
  <2> QED BY ONLY <1>6, <2>1, <2>2, <2>3 DEF Monitor
<1>7. ASSUME NEW m \in Messages, Finish(m) PROVE ClosedTurn(k)'
  <2>1. CASE MarkInterrupted(m)
    BY <2>1 DEF MarkInterrupted, TypeOK
  <2>2. CASE PublishComplete(m)
    BY <2>2 DEF PublishComplete, TypeOK
  <2>3. CASE SaveContent(m)
    BY <2>3 DEF SaveContent, SaveEvents, TypeOK
  <2>4. CASE CreateCheckpoint(m)
    BY <2>4 DEF CreateCheckpoint, TypeOK
  <2>5. CASE PublishError(m)
    BY <2>5 DEF PublishError, TypeOK
  <2>6. CASE MarkFailed(m)
    BY <2>6 DEF MarkFailed, TypeOK
  <2>7. CASE SaveFailed(m)
    BY <2>7 DEF SaveFailed, SaveEvents, TypeOK
  <2> QED BY ONLY <1>7, <2>1, <2>2, <2>3, <2>4, <2>5, <2>6, <2>7 DEF Finish
<1>8. ASSUME NEW m \in Messages, CleanUp(m) PROVE ClosedTurn(k)'
  <2>1. CASE DeleteTaskKey(m)
    BY <2>1 DEF DeleteTaskKey, TypeOK
  <2>2. CASE DeleteRevokedKey(m)
    BY <2>2 DEF DeleteRevokedKey, TypeOK
  <2>3. CASE CleanupFails(m)
    BY <2>3 DEF CleanupFails, TypeOK
  <2> QED BY ONLY <1>8, <2>1, <2>2, <2>3 DEF CleanUp
<1>9. ASSUME NEW m \in Messages, PublishEvent(m) PROVE ClosedTurn(k)'
  BY <1>9 DEF PublishEvent, TypeOK
<1>10. ASSUME NEW m \in Messages, Crash(m) PROVE FALSE
  BY <1>1, <1>10, ChatAssumption DEF Crash, NoCrash, TypeOK
<1>11. CASE CancelRequest
  BY <1>11 DEF CancelRequest, CancelReadsTaskKey, CancelSetsRevoked
<1>12. CASE ProbeRequest
  BY <1>12 DEF ProbeRequest, ProbeReadsMessage, ProbeReadsTaskKey,
     ProbeFindsNoTask, ProbeReadsRevoked, ProbeReadsResult, ProbeDeletesTaskKey
<1>13. CASE UNCHANGED vars
  BY <1>13 DEF vars
<1> QED BY ONLY [Next]_vars, <1>3, <1>4, <1>5, <1>6, <1>7, <1>8, <1>9, <1>10, <1>11,
   <1>12, <1>13 DEF Next

LEMMA ClosedInit == Init => ClosedInv
BY DEF Init, ClosedInv, ClosedTurn, Cleanup

(* In a run without failing calls, a task that has reached a verdict and   *)
(* ended has left that verdict and all of its events in the message.       *)
THEOREM EndedTurnIsClosed == Spec => []ClosedWhenDone
<1>1. TypeOK /\ ClosedInv => ClosedWhenDone
  BY DEF ClosedInv, ClosedTurn, ClosedWhenDone
<1>2. Spec => []ClosedInv
  BY TypeCorrect, TurnInvariant, ClosedInit, ClosedStep, PTL DEF Spec
<1> QED BY <1>1, <1>2, TypeCorrect, PTL
-----------------------------------------------------------------------------
(* Only these steps write what a message shows. *)
LEMMA WhoWritesMessages ==
    ASSUME [Next]_vars
    PROVE  \/ UNCHANGED <<status, content>>
           \/ \E m \in Messages : CreateMessage(m) \/ MarkInterrupted(m) \/ MarkFailed(m)
                                    \/ SaveContent(m) \/ SaveFailed(m)
<1>1. ASSUME NEW m \in Messages, Send(m)
      PROVE  UNCHANGED <<status, content>> \/ CreateMessage(m)
  BY <1>1 DEF Send, EnqueueTask, StoreActiveTask, RejectSend, db
<1>2. ASSUME NEW m \in Messages, Start(m) PROVE UNCHANGED <<status, content>>
  BY <1>2 DEF Start, Deliver, Initialize, InitializeFails, DeleteStream, StoreTaskKey,
     PrepareStreamFails, db
<1>3. ASSUME NEW m \in Messages, AIStream(m) PROVE UNCHANGED <<status, content>>
  BY <1>3 DEF AIStream, NextEvent, StreamEnds, StreamFails, db
<1>4. ASSUME NEW m \in Messages, Monitor(m) PROVE UNCHANGED <<status, content>>
  BY <1>4 DEF Monitor, MonitorSeesRevoked, CancelInNextEvent, CancelInPublish, db
<1>5. ASSUME NEW m \in Messages, Finish(m)
      PROVE  UNCHANGED <<status, content>> \/ MarkInterrupted(m) \/ MarkFailed(m)
               \/ SaveContent(m) \/ SaveFailed(m)
  BY <1>5 DEF Finish, PublishComplete, CreateCheckpoint, PublishError, db
<1>6. ASSUME NEW m \in Messages, CleanUp(m) PROVE UNCHANGED <<status, content>>
  BY <1>6 DEF CleanUp, DeleteTaskKey, DeleteRevokedKey, CleanupFails, db
<1>7. ASSUME NEW m \in Messages, PublishEvent(m) \/ Crash(m)
      PROVE  UNCHANGED <<status, content>>
  BY <1>7 DEF PublishEvent, Crash, db
<1>8. ASSUME CancelRequest \/ ProbeRequest \/ UNCHANGED vars
      PROVE  UNCHANGED <<status, content>>
  BY <1>8 DEF CancelRequest, CancelReadsTaskKey, CancelSetsRevoked, ProbeRequest,
     ProbeReadsMessage, ProbeReadsTaskKey, ProbeFindsNoTask, ProbeReadsRevoked,
     ProbeReadsResult, ProbeDeletesTaskKey, vars, db
<1> QED BY <1>1, <1>2, <1>3, <1>4, <1>5, <1>6, <1>7, <1>8 DEF Next

(* Without crashes every task is delivered once, and the message goes      *)
(* through the life the chat page assumes: every step of the program is a  *)
(* step of MessageLifecycle or leaves status and content alone.            *)
THEOREM ImplementsLifecycle == ASSUME MaxCrashes = 0 PROVE Spec => LifecycleSpec
<1>1. Init => Lifecycle!Init
  BY DEF Init, Lifecycle!Init
<1>2. TypeOK /\ TurnInv /\ [Next]_vars => [Lifecycle!Next]_(Lifecycle!vars)
  <2> SUFFICES ASSUME TypeOK, TurnInv, [Next]_vars
               PROVE  Lifecycle!Next \/ UNCHANGED <<status, content>>
    BY DEF Lifecycle!vars
  <2>1. NoCrash
    BY ChatAssumption DEF NoCrash, TypeOK
  <2>2. ASSUME NEW m \in Messages, CreateMessage(m) PROVE Lifecycle!Open(m)
    BY <2>1, <2>2 DEF CreateMessage, Lifecycle!Open, TurnInv, SendInv
  <2>3. ASSUME NEW m \in Messages, MarkInterrupted(m) \/ MarkFailed(m),
               status' # status
        PROVE  \E v \in Lifecycle!Verdicts, n \in 0..MaxEvents : Lifecycle!Close(m, v, n)
    <3>1. status[m] = "in_progress" /\ content[m] \in 0..MaxEvents
      BY <2>1, <2>3 DEF MarkInterrupted, MarkFailed, TurnInv, StatusInv, TypeOK
    <3>2. content = [content EXCEPT ![m] = content[m]]
      BY DEF TypeOK
    <3>3. Lifecycle!Close(m, "interrupted", content[m])
            \/ Lifecycle!Close(m, "failed", content[m])
      BY <2>3, <3>1, <3>2 DEF MarkInterrupted, MarkFailed, Lifecycle!Close
    <3> QED BY <3>1, <3>3 DEF Lifecycle!Verdicts
  <2>4. ASSUME NEW m \in Messages, SaveContent(m) \/ SaveFailed(m),
               UNCHANGED <<status, content>> => FALSE
        PROVE  Lifecycle!Next
    <3>1. /\ events[m] \in 1..MaxEvents
          /\ content' = [content EXCEPT ![m] = events[m]]
          /\ status' = [status EXCEPT ![m] = verdict[m]]
      BY <2>4 DEF SaveContent, SaveFailed, SaveEvents, TypeOK
    <3>2. /\ verdict[m] \in Lifecycle!Verdicts
          /\ content[m] = 0
          /\ status[m] # "none"
          /\ status[m] # "in_progress" =>
                status[m] = verdict[m] /\ verdict[m] # "completed"
      BY <2>1, <2>4 DEF SaveContent, SaveFailed, TurnInv, VerdictInv, StatusInv,
         SendInv, Fail, Terminal, Lifecycle!Verdicts, TypeOK
    <3>3. CASE status[m] = "in_progress"
      <4>1. Lifecycle!Close(m, verdict[m], events[m])
        BY <3>1, <3>3 DEF Lifecycle!Close
      <4>2. events[m] \in 0..MaxEvents
        BY DEF TypeOK
      <4> QED BY <3>2, <4>1, <4>2 DEF Lifecycle!Next
    <3>4. CASE status[m] # "in_progress"
      <4>1. status' = status
        BY <3>1, <3>2, <3>4 DEF TypeOK
      <4>2. Lifecycle!Fill(m, events[m])
        BY <3>1, <3>2, <3>4, <4>1 DEF Lifecycle!Fill, Lifecycle!Verdicts
      <4> QED BY <3>1, <4>2 DEF Lifecycle!Next
    <3> QED BY <3>3, <3>4
  <2>5. CASE \E m \in Messages : CreateMessage(m)
    BY <2>2, <2>5 DEF Lifecycle!Next
  <2>6. CASE \E m \in Messages : MarkInterrupted(m) \/ MarkFailed(m)
    <3>1. PICK m \in Messages : MarkInterrupted(m) \/ MarkFailed(m)
      BY <2>6
    <3>2. CASE status' = status
      BY <3>1, <3>2 DEF MarkInterrupted, MarkFailed
    <3>3. CASE status' # status
      BY <2>3, <3>1, <3>3 DEF Lifecycle!Next
    <3> QED BY <3>2, <3>3
  <2>7. CASE \E m \in Messages : SaveContent(m) \/ SaveFailed(m)
    BY <2>4, <2>7
  <2> QED BY <2>5, <2>6, <2>7, WhoWritesMessages
<1> QED BY <1>1, <1>2, TypeCorrect, TurnInvariant, PTL DEF Spec, LifecycleSpec,
   Lifecycle!Spec
-----------------------------------------------------------------------------
(* Stored text is not replaced by nothing: whoever writes a message writes *)
(* events or leaves its content alone, in a second run as well.            *)
THEOREM TextIsKept == Spec => TextKept
<1>1. TypeOK /\ [Next]_vars => \A m \in Messages : content[m] > 0 => content'[m] > 0
  <2> SUFFICES ASSUME TypeOK, [Next]_vars, NEW k \in Messages, content[k] > 0
               PROVE  content'[k] > 0
    OBVIOUS
  <2>1. CASE UNCHANGED content
    BY <2>1
  <2>2. ASSUME NEW m \in Messages,
               CreateMessage(m) \/ MarkInterrupted(m) \/ MarkFailed(m)
        PROVE  UNCHANGED content
    BY <2>2 DEF CreateMessage, MarkInterrupted, MarkFailed
  <2>3. ASSUME NEW m \in Messages, SaveContent(m) \/ SaveFailed(m)
        PROVE  content'[k] > 0
    BY <2>3 DEF SaveContent, SaveFailed, SaveEvents, TypeOK
  <2> QED BY <2>1, <2>2, <2>3, WhoWritesMessages
<1> QED BY <1>1, TypeCorrect, PTL DEF Spec, TextKept
-----------------------------------------------------------------------------
(* What holds of a turn in spite of crashes and of a second delivery: it   *)
(* is in the queue or at work only after its message was created, and past *)
(* the loop it has a verdict.                                              *)
QueueInv(m) ==
    /\ send[m] = "idle" => content[m] = 0
    /\ send[m] \in {"idle", "created"} => pc[m] = "idle" /\ m \notin queue
    /\ m \in queue => pc[m] = "idle"
    /\ pc[m] \in Finalize \cup Fail => verdict[m] \in Terminal

TextInv == \A m \in Messages : QueueInv(m) /\ (content[m] > 0 => status[m] \in Terminal)

LEMMA QueueStep ==
    ASSUME TypeOK, [Next]_vars, NEW k \in Messages, QueueInv(k)
    PROVE  QueueInv(k)'
<1> USE DEF QueueInv, Loop, Finalize, Fail, Terminal, db, api, worker, Goto
<1>1. ASSUME NEW m \in Messages, Send(m) PROVE QueueInv(k)'
  <2>1. CASE CreateMessage(m)
    BY <2>1 DEF CreateMessage, TypeOK
  <2>2. CASE EnqueueTask(m)
    BY <2>2 DEF EnqueueTask, TypeOK
  <2>3. CASE StoreActiveTask(m)
    BY <2>3 DEF StoreActiveTask, TypeOK
  <2>4. CASE RejectSend(m)
    BY <2>4 DEF RejectSend, TypeOK
  <2> QED BY ONLY <1>1, <2>1, <2>2, <2>3, <2>4 DEF Send
<1>2. ASSUME NEW m \in Messages, Start(m) PROVE QueueInv(k)'
  <2>1. CASE Deliver(m)
    BY <2>1 DEF Deliver, TypeOK
  <2>2. CASE Initialize(m)
    BY <2>2 DEF Initialize, TypeOK
  <2>3. CASE InitializeFails(m)
    BY <2>3 DEF InitializeFails, TypeOK
  <2>4. CASE DeleteStream(m)
    BY <2>4 DEF DeleteStream, TypeOK
  <2>5. CASE StoreTaskKey(m)
    BY <2>5 DEF StoreTaskKey, TypeOK
  <2>6. CASE PrepareStreamFails(m)
    BY <2>6 DEF PrepareStreamFails, TypeOK
  <2> QED BY ONLY <1>2, <2>1, <2>2, <2>3, <2>4, <2>5, <2>6 DEF Start
<1>3. ASSUME NEW m \in Messages, AIStream(m) PROVE QueueInv(k)'
  <2>1. CASE NextEvent(m)
    BY <2>1 DEF NextEvent, TypeOK
  <2>2. CASE StreamEnds(m)
    BY <2>2 DEF StreamEnds, AfterLoop, LeaveLoop, TypeOK
  <2>3. CASE StreamFails(m)
    BY <2>3 DEF StreamFails, LeaveLoop, TypeOK
  <2> QED BY ONLY <1>3, <2>1, <2>2, <2>3 DEF AIStream
<1>4. ASSUME NEW m \in Messages, Monitor(m) PROVE QueueInv(k)'
  <2>1. CASE MonitorSeesRevoked(m)
    BY <2>1 DEF MonitorSeesRevoked, TypeOK
  <2>2. CASE CancelInNextEvent(m)
    BY <2>2 DEF CancelInNextEvent, LeaveLoop, TypeOK
  <2>3. CASE CancelInPublish(m)
    BY <2>3 DEF CancelInPublish, LeaveLoop, TypeOK
  <2> QED BY ONLY <1>4, <2>1, <2>2, <2>3 DEF Monitor
<1>5. ASSUME NEW m \in Messages, Finish(m) PROVE QueueInv(k)'
  <2>1. CASE MarkInterrupted(m)
    BY <2>1 DEF MarkInterrupted, TypeOK
  <2>2. CASE PublishComplete(m)
    BY <2>2 DEF PublishComplete, TypeOK
  <2>3. CASE SaveContent(m)
    BY <2>3 DEF SaveContent, SaveEvents, TypeOK
  <2>4. CASE CreateCheckpoint(m)
    BY <2>4 DEF CreateCheckpoint, TypeOK
  <2>5. CASE PublishError(m)
    BY <2>5 DEF PublishError, TypeOK
  <2>6. CASE MarkFailed(m)
    BY <2>6 DEF MarkFailed, TypeOK
  <2>7. CASE SaveFailed(m)
    BY <2>7 DEF SaveFailed, SaveEvents, TypeOK
  <2> QED BY ONLY <1>5, <2>1, <2>2, <2>3, <2>4, <2>5, <2>6, <2>7 DEF Finish
<1>6. ASSUME NEW m \in Messages, CleanUp(m) PROVE QueueInv(k)'
  <2>1. CASE DeleteTaskKey(m)
    BY <2>1 DEF DeleteTaskKey, TypeOK
  <2>2. CASE DeleteRevokedKey(m)
    BY <2>2 DEF DeleteRevokedKey, TypeOK
  <2>3. CASE CleanupFails(m)
    BY <2>3 DEF CleanupFails, Cleanup, TypeOK
  <2> QED BY ONLY <1>6, <2>1, <2>2, <2>3 DEF CleanUp
<1>7. ASSUME NEW m \in Messages, PublishEvent(m) PROVE QueueInv(k)'
  BY <1>7 DEF PublishEvent, TypeOK
<1>8. ASSUME NEW m \in Messages, Crash(m) PROVE QueueInv(k)'
  BY <1>8 DEF Crash, Running, Cleanup, TypeOK
<1>9. CASE CancelRequest
  BY <1>9 DEF CancelRequest, CancelReadsTaskKey, CancelSetsRevoked
<1>10. CASE ProbeRequest
  BY <1>10 DEF ProbeRequest, ProbeReadsMessage, ProbeReadsTaskKey,
     ProbeFindsNoTask, ProbeReadsRevoked, ProbeReadsResult, ProbeDeletesTaskKey
<1>11. CASE UNCHANGED vars
  BY <1>11 DEF vars
<1> QED BY ONLY [Next]_vars, <1>1, <1>2, <1>3, <1>4, <1>5, <1>6, <1>7, <1>8, <1>9,
                <1>10, <1>11 DEF Next

LEMMA TextStep == TypeOK /\ TextInv /\ [Next]_vars => TextInv'
<1> SUFFICES ASSUME TypeOK, TextInv, [Next]_vars, NEW k \in Messages
             PROVE  QueueInv(k)' /\ (content'[k] > 0 => status'[k] \in Terminal)
  BY DEF TextInv
<1>1. QueueInv(k) /\ (content[k] > 0 => status[k] \in Terminal)
  BY DEF TextInv
<1>2. QueueInv(k)'
  BY <1>1, QueueStep
<1>3. content'[k] > 0 => status'[k] \in Terminal
  <2>1. CASE UNCHANGED <<status, content>>
    BY <1>1, <2>1
  <2>2. ASSUME NEW m \in Messages, CreateMessage(m)
        PROVE  content'[k] > 0 => status'[k] \in Terminal
    BY <1>1, <2>2 DEF CreateMessage, QueueInv, TypeOK
  <2>3. ASSUME NEW m \in Messages, MarkInterrupted(m) \/ MarkFailed(m)
        PROVE  content'[k] > 0 => status'[k] \in Terminal
    BY <1>1, <2>3 DEF MarkInterrupted, MarkFailed, Terminal, TypeOK
  <2>4. ASSUME NEW m \in Messages, SaveContent(m) \/ SaveFailed(m)
        PROVE  content'[k] > 0 => status'[k] \in Terminal
    <3>1. QueueInv(m)
      BY DEF TextInv
    <3>2. verdict[m] \in Terminal
      BY <2>4, <3>1 DEF SaveContent, SaveFailed, QueueInv, Finalize, Fail
    <3>3. SaveEvents(m)
      BY <2>4 DEF SaveContent, SaveFailed
    <3> QED BY <1>1, <3>2, <3>3 DEF SaveEvents, TypeOK
  <2> QED BY <2>1, <2>2, <2>3, <2>4, WhoWritesMessages
<1> QED BY <1>2, <1>3

LEMMA TextInit == Init => TextInv
BY DEF Init, TextInv, QueueInv, Finalize, Fail

THEOREM TextInvariant == Spec => []TextInv
BY TypeCorrect, TextInit, TextStep, PTL DEF Spec

(* No failing call, crash or second run of a task leaves a message with    *)
(* its text that is still shown as streaming.                              *)
THEOREM TextMeansClosed == Spec => []TextOnlyWhenClosed
<1>1. TextInv => TextOnlyWhenClosed
  BY DEF TextInv, TextOnlyWhenClosed
<1> QED BY <1>1, TextInvariant, PTL
-----------------------------------------------------------------------------
(* The entries of a turn in the stream its chat shares: none before its    *)
(* run has emptied the stream, events in their order while it runs, and    *)
(* one closing entry.                                                      *)
OfTurn(m) == {i \in DOMAIN stream : stream[i].task = m}
Once(m) == NoFault \/ attempt[m] <= 1

NoEntryYet(m) ==
    /\ attempt[m] = 0 => pc[m] = "idle"
    /\ \/ attempt[m] = 0
       \/ attempt[m] = 1 /\ pc[m] \in {"initialize", "delete_stream"}
       \/ pc[m] = "store_task_key"
       => OfTurn(m) = {}

InOrder(m) ==
    \A i, j \in OfTurn(m) : i < j =>
        /\ stream[i].kind = "content"
        /\ stream[j].kind = "content" => stream[i].n < stream[j].n

StillOpen(m) ==
    /\ pc[m] \in Loop \cup {"mark_interrupted", "publish_complete", "publish_error"} =>
           \A i \in OfTurn(m) : stream[i].kind = "content"
    /\ pc[m] = "next_event" => \A i \in OfTurn(m) : stream[i].n <= events[m]
    /\ pc[m] = "publish_event" => \A i \in OfTurn(m) : stream[i].n < events[m]

EntriesInv(m) == NoEntryYet(m) /\ InOrder(m) /\ StillOpen(m)
StreamInv == \A m \in Messages : Once(m) => EntriesInv(m)

(* The step of another turn leaves the entries of this one. *)
SameEntries(k) ==
    /\ OfTurn(k)' = OfTurn(k)
    /\ \A i \in OfTurn(k) : stream'[i] = stream[i]

LEMMA EntriesStay ==
    ASSUME NEW k \in Messages, EntriesInv(k), SameEntries(k),
           pc'[k] = pc[k], events'[k] = events[k], attempt'[k] = attempt[k]
    PROVE  EntriesInv(k)'
<1>1. NoEntryYet(k)'
  BY DEF EntriesInv, NoEntryYet, SameEntries
<1>2. InOrder(k)'
  BY DEF EntriesInv, InOrder, SameEntries
<1>3. StillOpen(k)'
  BY DEF EntriesInv, StillOpen, SameEntries
<1> QED BY <1>1, <1>2, <1>3 DEF EntriesInv

LEMMA PublishedEntry ==
    ASSUME stream \in Seq(Entry), NEW m \in Messages,
           NEW kind \in {"content", "complete", "error"}, NEW n \in 0..MaxEvents,
           Publish(m, kind, n)
    PROVE  /\ \A k \in Messages \ {m} : SameEntries(k)
           /\ OfTurn(m)' = OfTurn(m) \cup {Len(stream) + 1}
           /\ \A i \in OfTurn(m) : stream'[i] = stream[i] /\ i < Len(stream) + 1
           /\ stream'[Len(stream) + 1] = [task |-> m, kind |-> kind, n |-> n]
           /\ OfTurn(m) \subseteq Nat /\ Len(stream) \in Nat
<1>1. /\ Len(stream) \in Nat /\ DOMAIN stream = 1..Len(stream)
      /\ DOMAIN stream' = 1..(Len(stream) + 1)
      /\ \A i \in 1..Len(stream) : stream'[i] = stream[i]
      /\ stream'[Len(stream) + 1] = [task |-> m, kind |-> kind, n |-> n]
  BY DEF Publish
<1> QED BY <1>1 DEF SameEntries, OfTurn

LEMMA EmptiedStream ==
    ASSUME NEW k \in Messages, EntriesInv(k), stream' = <<>>,
           attempt'[k] = attempt[k], pc'[k] = "idle" <=> pc[k] = "idle"
    PROVE  EntriesInv(k)'
<1>1. OfTurn(k)' = {}
  BY DEF OfTurn
<1>2. NoEntryYet(k)' /\ InOrder(k)' /\ StillOpen(k)'
  BY <1>1 DEF EntriesInv, NoEntryYet, InOrder, StillOpen
<1> QED BY <1>2 DEF EntriesInv

LEMMA StreamKept ==
    ASSUME NEW k \in Messages, UNCHANGED stream
    PROVE  SameEntries(k)
BY DEF SameEntries, OfTurn

LEMMA EntryTypes ==
    ASSUME TypeOK, NEW k \in Messages
    PROVE  \A i \in OfTurn(k) : stream[i].n \in 0..MaxEvents /\ i \in Nat
<1>1. /\ DOMAIN stream \subseteq Nat
      /\ \A i \in DOMAIN stream : stream[i] \in Entry
  BY DEF TypeOK
<1> QED BY <1>1 DEF OfTurn, Entry

Step(m) == \/ Send(m) \/ Start(m) \/ AIStream(m) \/ PublishEvent(m)
           \/ Monitor(m) \/ Finish(m) \/ CleanUp(m) \/ Crash(m)

(* A step of another turn. *)
LEMMA OtherTurnStep ==
    ASSUME TypeOK, NEW k \in Messages, NEW m \in Messages, m # k, Step(m), EntriesInv(k)
    PROVE  EntriesInv(k)'
<1> USE DEF db, redis, api, worker, Goto
<1>1. pc'[k] = pc[k] /\ events'[k] = events[k] /\ attempt'[k] = attempt[k]
  <2>1. CASE Send(m)
    BY <2>1 DEF Send, CreateMessage, EnqueueTask, StoreActiveTask, RejectSend
  <2>2. CASE Start(m)
    BY <2>2 DEF Start, Deliver, Initialize, InitializeFails, DeleteStream, StoreTaskKey,
       PrepareStreamFails, TypeOK
  <2>3. CASE AIStream(m)
    BY <2>3 DEF AIStream, NextEvent, StreamEnds, StreamFails, AfterLoop, LeaveLoop, TypeOK
  <2>4. CASE Monitor(m)
    BY <2>4 DEF Monitor, MonitorSeesRevoked, CancelInNextEvent, CancelInPublish, LeaveLoop,
       TypeOK
  <2>5. CASE Finish(m)
    BY <2>5 DEF Finish, MarkInterrupted, PublishComplete, SaveContent, CreateCheckpoint,
       PublishError, MarkFailed, SaveFailed, TypeOK
  <2>6. CASE CleanUp(m)
    BY <2>6 DEF CleanUp, DeleteTaskKey, DeleteRevokedKey, CleanupFails, TypeOK
  <2>7. CASE PublishEvent(m) \/ Crash(m)
    BY <2>7 DEF PublishEvent, Crash, TypeOK
  <2> QED BY <2>1, <2>2, <2>3, <2>4, <2>5, <2>6, <2>7 DEF Step
<1>2. SameEntries(k) \/ stream' = <<>>
  <2>1. ASSUME NEW kind \in {"content", "complete", "error"}, NEW n \in 0..MaxEvents,
               Publish(m, kind, n)
        PROVE  SameEntries(k)
    BY <2>1, PublishedEntry DEF TypeOK
  <2>2. events[m] \in 0..MaxEvents /\ 0 \in 0..MaxEvents
    BY ChatAssumption DEF TypeOK
  <2>3. CASE Send(m)
    BY <2>3, StreamKept DEF Send, CreateMessage, EnqueueTask, StoreActiveTask, RejectSend
  <2>4. CASE Start(m)
    BY <2>4, StreamKept DEF Start, Deliver, Initialize, InitializeFails, DeleteStream,
       StoreTaskKey, PrepareStreamFails
  <2>5. CASE AIStream(m)
    BY <2>5, StreamKept DEF AIStream, NextEvent, StreamEnds, StreamFails
  <2>6. CASE Monitor(m)
    BY <2>1, <2>2, <2>6, StreamKept DEF Monitor, MonitorSeesRevoked, CancelInNextEvent,
       CancelInPublish
  <2>7. CASE Finish(m)
    BY <2>1, <2>2, <2>7, StreamKept DEF Finish, MarkInterrupted, PublishComplete,
       SaveContent, CreateCheckpoint, PublishError, MarkFailed, SaveFailed
  <2>8. CASE CleanUp(m)
    BY <2>8, StreamKept DEF CleanUp, DeleteTaskKey, DeleteRevokedKey, CleanupFails
  <2>9. CASE PublishEvent(m) \/ Crash(m)
    BY <2>1, <2>2, <2>9, StreamKept DEF PublishEvent, Crash
  <2> QED BY <2>3, <2>4, <2>5, <2>6, <2>7, <2>8, <2>9 DEF Step
<1> QED BY ONLY <1>1, <1>2, EntriesStay, EmptiedStream, EntriesInv(k), k \in Messages

(* A step of the turn that leaves the stream alone. *)
LEMMA QuietStep ==
    ASSUME TypeOK, NEW m \in Messages, EntriesInv(m), QueueInv(m), UNCHANGED stream,
           Step(m), Once(m)'
    PROVE  EntriesInv(m)'
<1> USE DEF Loop, db, redis, api, worker, Goto
<1>1. OfTurn(m)' = OfTurn(m)
  BY DEF OfTurn
<1>2. InOrder(m)'
  BY <1>1 DEF EntriesInv, InOrder
<1>3. NoEntryYet(m) /\ StillOpen(m)
  BY DEF EntriesInv
<1>4. NoEntryYet(m)' /\ StillOpen(m)'
  <2>1. CASE Send(m)
    BY <1>1, <1>3, <2>1 DEF Send, CreateMessage, EnqueueTask, StoreActiveTask, RejectSend,
       NoEntryYet, StillOpen
  <2>2. CASE Deliver(m)
    BY <1>1, <1>3, <2>2 DEF Deliver, QueueInv, NoEntryYet, StillOpen, TypeOK
  <2>3. CASE Initialize(m) \/ InitializeFails(m)
    BY <1>1, <1>3, <2>3 DEF Initialize, InitializeFails, NoEntryYet, StillOpen, TypeOK
  <2>4. CASE DeleteStream(m)
    BY <1>1, <1>3, <2>4 DEF DeleteStream, NoEntryYet, StillOpen, TypeOK, OfTurn
  <2>5. CASE StoreTaskKey(m)
    BY <1>1, <1>3, <2>5 DEF StoreTaskKey, NoEntryYet, StillOpen, TypeOK
  <2>6. CASE PrepareStreamFails(m)
    BY <1>1, <1>3, <2>6, ChatAssumption
       DEF PrepareStreamFails, NoEntryYet, StillOpen, TypeOK, Once, NoFault, Fault
  <2>7. CASE NextEvent(m)
    BY <1>1, <1>3, <2>7, EntryTypes DEF NextEvent, NoEntryYet, StillOpen, TypeOK
  <2>8. CASE StreamEnds(m)
    BY <1>1, <1>3, <2>8 DEF StreamEnds, AfterLoop, LeaveLoop, NoEntryYet, StillOpen, TypeOK
  <2>9. CASE StreamFails(m)
    BY <1>1, <1>3, <2>9 DEF StreamFails, LeaveLoop, NoEntryYet, StillOpen, TypeOK
  <2>10. CASE PublishEvent(m)
    BY <1>1, <1>3, <2>10, EntryTypes DEF PublishEvent, NoEntryYet, StillOpen, TypeOK
  <2>11. CASE Monitor(m)
    BY <1>1, <1>3, <2>11 DEF Monitor, MonitorSeesRevoked, CancelInNextEvent,
       CancelInPublish, LeaveLoop, NoEntryYet, StillOpen, TypeOK
  <2>12. CASE Finish(m)
    BY <1>1, <1>3, <2>12 DEF Finish, MarkInterrupted, PublishComplete, SaveContent,
       CreateCheckpoint, PublishError, MarkFailed, SaveFailed, NoEntryYet, StillOpen, TypeOK
  <2>13. CASE CleanUp(m)
    BY <1>1, <1>3, <2>13 DEF CleanUp, DeleteTaskKey, DeleteRevokedKey, CleanupFails, Cleanup,
       NoEntryYet, StillOpen, TypeOK
  <2>14. CASE Crash(m)
    BY <1>1, <1>3, <2>14 DEF Crash, Running, Finalize, Fail, Cleanup, NoEntryYet, StillOpen,
       TypeOK
  <2> QED BY <2>1, <2>2, <2>3, <2>4, <2>5, <2>6, <2>7, <2>8, <2>9, <2>10, <2>11, <2>12,
             <2>13, <2>14 DEF Step, Start, AIStream
<1> QED BY <1>2, <1>4 DEF EntriesInv

(* The turn publishes: an event that is newer than those before it, or the *)
(* entry that closes it.                                                   *)
LEMMA PublishingStep ==
    ASSUME TypeOK, NEW m \in Messages, EntriesInv(m),
           NEW kind \in {"content", "complete", "error"}, NEW n \in 0..MaxEvents,
           Publish(m, kind, n), attempt'[m] = attempt[m], events'[m] = events[m],
           \/ /\ pc[m] = "publish_event" /\ kind = "content" /\ n = events[m]
              /\ pc'[m] \in {"next_event", "delete_task_key"}
           \/ /\ pc[m] \in {"publish_complete", "publish_error"} /\ kind # "content"
              /\ pc'[m] \in {"save_content", "mark_failed"}
    PROVE  EntriesInv(m)'
<1> DEFINE new == Len(stream) + 1
<1>1. /\ OfTurn(m)' = OfTurn(m) \cup {new}
      /\ \A i \in OfTurn(m) : stream'[i] = stream[i] /\ i < new /\ i \in Nat
      /\ stream'[new] = [task |-> m, kind |-> kind, n |-> n] /\ new \in Nat
  BY PublishedEntry DEF TypeOK
<1> HIDE DEF new
<1>2. \A i \in OfTurn(m) : stream[i].kind = "content"
  BY DEF EntriesInv, StillOpen, Loop
<1>3. \A i \in OfTurn(m) : kind = "content" => stream[i].n < n
  BY DEF EntriesInv, StillOpen
<1>4. InOrder(m)
  BY DEF EntriesInv
<1>5. InOrder(m)'
  <2> SUFFICES ASSUME NEW i \in OfTurn(m)', NEW j \in OfTurn(m)', i < j
               PROVE  /\ stream'[i].kind = "content"
                      /\ stream'[j].kind = "content" => stream'[i].n < stream'[j].n
    BY DEF InOrder
  <2>1. i \in OfTurn(m)
    BY <1>1
  <2>2. CASE j = new
    BY <1>1, <1>2, <1>3, <2>1, <2>2
  <2>3. CASE j \in OfTurn(m)
    BY <1>1, <1>4, <2>1, <2>3 DEF InOrder
  <2> QED BY <1>1, <2>2, <2>3
<1>6. NoEntryYet(m)'
  BY DEF EntriesInv, NoEntryYet
<1>7. StillOpen(m)'
  <2>1. CASE pc'[m] = "next_event"
    <3>1. kind = "content" /\ n = events[m]
      BY <2>1
    <3>2. /\ stream'[new].kind = "content" /\ stream'[new].n <= events'[m]
          /\ \A i \in OfTurn(m) : stream[i].n <= events'[m]
      <4>1. events[m] \in Int /\ \A i \in OfTurn(m) : stream[i].n \in Int
        BY EntryTypes DEF TypeOK
      <4> QED BY <1>1, <1>3, <3>1, <4>1
    <3>3. \A i \in OfTurn(m)' : stream'[i].kind = "content" /\ stream'[i].n <= events'[m]
      BY ONLY <1>1, <1>2, <3>2
    <3> QED BY <2>1, <3>3 DEF StillOpen
  <2>2. CASE pc'[m] # "next_event"
    BY <2>2 DEF StillOpen, Loop
  <2> QED BY <2>1, <2>2
<1> QED BY <1>5, <1>6, <1>7 DEF EntriesInv

LEMMA StreamStep == TypeOK /\ TextInv /\ StreamInv /\ [Next]_vars => StreamInv'
<1> SUFFICES ASSUME TypeOK, TextInv, StreamInv, [Next]_vars, NEW k \in Messages, Once(k)'
             PROVE  EntriesInv(k)'
  BY DEF StreamInv
<1> USE DEF db, redis, api, worker, Goto
<1>1. CASE CancelRequest \/ ProbeRequest \/ UNCHANGED vars
  <2>1. UNCHANGED <<stream, pc, events, attempt>> /\ (NoFault' <=> NoFault)
    BY <1>1 DEF CancelRequest, CancelReadsTaskKey, CancelSetsRevoked, ProbeRequest,
       ProbeReadsMessage, ProbeReadsTaskKey, ProbeFindsNoTask, ProbeReadsRevoked,
       ProbeReadsResult, ProbeDeletesTaskKey, vars, NoFault
  <2>2. EntriesInv(k)
    BY <2>1 DEF Once, StreamInv
  <2> QED BY <2>1, <2>2, StreamKept, EntriesStay
<1>2. ASSUME NEW m \in Messages, Step(m)
      PROVE  attempt[k] <= attempt'[k] /\ attempt'[k] \in Nat
  <2>1. UNCHANGED attempt \/ attempt' = [attempt EXCEPT ![m] = @ + 1]
    BY <1>2 DEF Step, Send, CreateMessage, EnqueueTask, StoreActiveTask, RejectSend, Start,
       Deliver, Initialize, InitializeFails, DeleteStream, StoreTaskKey, PrepareStreamFails,
       AIStream, NextEvent, StreamEnds, StreamFails, PublishEvent, Monitor,
       MonitorSeesRevoked, CancelInNextEvent, CancelInPublish, Finish, MarkInterrupted,
       PublishComplete, SaveContent, CreateCheckpoint, PublishError, MarkFailed, SaveFailed,
       CleanUp, DeleteTaskKey, DeleteRevokedKey, CleanupFails, Crash
  <2>2. attempt \in [Messages -> Nat] /\ attempt[k] \in Nat /\ attempt[m] \in Nat
    BY DEF TypeOK
  <2> QED BY ONLY <2>1, <2>2, k \in Messages, m \in Messages
<1>3. ASSUME NEW m \in Messages, Step(m) PROVE Once(k)
  BY <1>2, <1>3, FaultBudget DEF Once, TypeOK
<1>4. ASSUME NEW m \in Messages, Step(m), m # k PROVE EntriesInv(k)'
  BY <1>3, <1>4, OtherTurnStep DEF StreamInv
<1>5. ASSUME Step(k) PROVE EntriesInv(k)'
  <2>1. EntriesInv(k) /\ QueueInv(k)
    BY <1>3, <1>5 DEF StreamInv, TextInv
  <2>2. CASE UNCHANGED stream
    BY <2>1, <2>2, <1>5, QuietStep
  <2>3. CASE DeleteStream(k)
    BY <2>1, <2>3, EmptiedStream DEF DeleteStream, TypeOK
  <2>4. events[k] \in 0..MaxEvents /\ 0 \in 0..MaxEvents
    BY ChatAssumption DEF TypeOK
  <2>5. CASE PublishEvent(k) /\ Publish(k, "content", events[k])
    <3>1. /\ pc[k] = "publish_event" /\ pc'[k] = "next_event"
          /\ attempt' = attempt /\ events' = events
      BY <2>5 DEF PublishEvent, TypeOK
    <3> QED BY <2>1, <2>4, <2>5, <3>1, PublishingStep
  <2>6. CASE CancelInPublish(k) /\ Publish(k, "content", events[k])
    <3>1. /\ pc[k] = "publish_event" /\ pc'[k] = "delete_task_key"
          /\ attempt' = attempt /\ events' = events
      BY <2>6 DEF CancelInPublish, LeaveLoop, TypeOK
    <3> QED BY <2>1, <2>4, <2>6, <3>1, PublishingStep
  <2>7. CASE PublishComplete(k) /\ Publish(k, "complete", 0)
    <3>1. /\ pc[k] = "publish_complete" /\ pc'[k] = "save_content"
          /\ attempt' = attempt /\ events' = events
      BY <2>7 DEF PublishComplete, TypeOK
    <3> QED BY <2>1, <2>4, <2>7, <3>1, PublishingStep
  <2>8. CASE PublishError(k) /\ Publish(k, "error", 0)
    <3>1. /\ pc[k] = "publish_error" /\ pc'[k] = "mark_failed"
          /\ attempt' = attempt /\ events' = events
      BY <2>8 DEF PublishError, TypeOK
    <3> QED BY <2>1, <2>4, <2>8, <3>1, PublishingStep
  <2>9. \/ UNCHANGED stream \/ DeleteStream(k)
        \/ PublishEvent(k) /\ Publish(k, "content", events[k])
        \/ CancelInPublish(k) /\ Publish(k, "content", events[k])
        \/ PublishComplete(k) /\ Publish(k, "complete", 0)
        \/ PublishError(k) /\ Publish(k, "error", 0)
    BY <1>5 DEF Step, Send, CreateMessage, EnqueueTask, StoreActiveTask, RejectSend, Start,
       Deliver, Initialize, InitializeFails, StoreTaskKey, PrepareStreamFails,
       AIStream, NextEvent, StreamEnds, StreamFails, PublishEvent, Monitor,
       MonitorSeesRevoked, CancelInNextEvent, CancelInPublish, Finish, MarkInterrupted,
       PublishComplete, SaveContent, CreateCheckpoint, PublishError, MarkFailed, SaveFailed,
       CleanUp, DeleteTaskKey, DeleteRevokedKey, CleanupFails, Crash
  <2> QED BY ONLY <2>2, <2>3, <2>5, <2>6, <2>7, <2>8, <2>9
<1> QED BY <1>1, <1>4, <1>5 DEF Next, Step

LEMMA StreamInit == Init => StreamInv
BY DEF Init, StreamInv, EntriesInv, NoEntryYet, InOrder, StillOpen, OfTurn, Loop

THEOREM StreamInvariant == Spec => []StreamInv
BY TypeCorrect, TextInvariant, StreamInit, StreamStep, PTL DEF Spec

(* In the stream of a chat, which all of its turns share, nothing of a     *)
(* turn follows its closing entry and its events keep their order, unless  *)
(* a call has failed and the task was delivered again.                     *)
THEOREM TurnsKeepOrder == Spec => []TurnStream
<1>1. TypeOK /\ StreamInv => TurnStream
  <2> SUFFICES ASSUME TypeOK, StreamInv, NEW i \in DOMAIN stream, NEW j \in DOMAIN stream,
                      i < j, stream[i].task = stream[j].task,
                      NoFault \/ attempt[stream[i].task] = 1
               PROVE  /\ stream[i].kind = "content"
                      /\ stream[j].kind = "content" => stream[i].n < stream[j].n
    BY DEF TurnStream
  <2>1. stream[i] \in Entry
    BY DEF TypeOK
  <2>2. stream[i].task \in Messages
    BY <2>1 DEF Entry
  <2>3. EntriesInv(stream[i].task)
    BY <2>2 DEF StreamInv, Once
  <2> QED BY <2>3 DEF EntriesInv, InOrder, OfTurn
<1> QED BY <1>1, TypeCorrect, StreamInvariant, PTL
-----------------------------------------------------------------------------
(* The only turn of a chat, while no call has failed: what finds or takes  *)
(* away its task key can only come from itself, from its message or from a *)
(* revocation that nobody but the turn takes back.                         *)
Solo(m) == \A k \in Messages \ {m} : send[k] = "idle"

SoloTurn(m) ==
    /\ pc[m] \in Early \cup Loop => /\ result[m] = "active"
                                    /\ probe = "delete_key" => revoked
    /\ pc[m] \in Loop => taskKey = m \/ revoked \/ wasCancelled[m]

KeysSent == \A k \in Messages : taskKey = k \/ probeTask = k => send[k] # "idle"

SoloInv == NoCrash /\ NoFault =>
               /\ KeysSent
               /\ \A m \in Messages : Solo(m) => SoloTurn(m)

LEMMA SentStays ==
    ASSUME TypeOK, [Next]_vars, NEW k \in Messages, send'[k] = "idle"
    PROVE  send[k] = "idle"
<1> USE DEF api
<1>1. ASSUME NEW m \in Messages, Send(m) PROVE send[k] = "idle"
  BY <1>1 DEF Send, CreateMessage, EnqueueTask, StoreActiveTask, RejectSend, TypeOK
<1>2. ASSUME NEW m \in Messages,
             \/ Start(m) \/ AIStream(m) \/ PublishEvent(m)
             \/ Monitor(m) \/ Finish(m) \/ CleanUp(m) \/ Crash(m)
      PROVE  UNCHANGED send
  BY <1>2 DEF Start, Deliver, Initialize, InitializeFails, DeleteStream, StoreTaskKey,
     PrepareStreamFails, AIStream, NextEvent, StreamEnds, StreamFails, PublishEvent, Monitor,
     MonitorSeesRevoked, CancelInNextEvent, CancelInPublish, Finish, MarkInterrupted,
     PublishComplete, SaveContent, CreateCheckpoint, PublishError, MarkFailed, SaveFailed,
     CleanUp, DeleteTaskKey, DeleteRevokedKey, CleanupFails, Crash
<1>3. CASE CancelRequest \/ ProbeRequest \/ UNCHANGED vars
  BY <1>3 DEF CancelRequest, CancelReadsTaskKey, CancelSetsRevoked, ProbeRequest,
     ProbeReadsMessage, ProbeReadsTaskKey, ProbeFindsNoTask, ProbeReadsRevoked,
     ProbeReadsResult, ProbeDeletesTaskKey, vars
<1> QED BY <1>1, <1>2, <1>3 DEF Next

(* The keys of the chat name turns that were sent. *)
LEMMA KeysStep ==
    ASSUME TypeOK, TextInv, KeysSent, [Next]_vars
    PROVE  KeysSent'
<1> USE DEF redis, api
<1> SUFFICES ASSUME NEW k \in Messages, taskKey' = k \/ probeTask' = k
             PROVE  send'[k] # "idle"
  BY DEF KeysSent
<1>1. k # None /\ (taskKey = k \/ probeTask = k => send[k] # "idle")
  BY NoneIsNoMessage DEF KeysSent
<1>2. send[k] # "idle"
  <2>1. CASE UNCHANGED <<taskKey, probeTask>>
    BY <1>1, <2>1
  <2>2. ASSUME NEW m \in Messages, StoreActiveTask(m) \/ StoreTaskKey(m)
        PROVE  send[k] # "idle"
    BY <1>1, <2>2 DEF StoreActiveTask, StoreTaskKey, TextInv, QueueInv
  <2>3. ASSUME NEW m \in Messages, Send(m)
        PROVE  UNCHANGED <<taskKey, probeTask>> \/ StoreActiveTask(m)
    BY <2>3 DEF Send, CreateMessage, EnqueueTask, RejectSend
  <2>4. ASSUME NEW m \in Messages, Start(m)
        PROVE  UNCHANGED <<taskKey, probeTask>> \/ StoreTaskKey(m)
    BY <2>4 DEF Start, Deliver, Initialize, InitializeFails, DeleteStream, PrepareStreamFails
  <2>5. ASSUME NEW m \in Messages, CleanUp(m)
        PROVE  UNCHANGED probeTask /\ taskKey' \in {taskKey, None}
    BY <2>5 DEF CleanUp, DeleteTaskKey, DeleteRevokedKey, CleanupFails
  <2>6. ASSUME NEW m \in Messages,
               AIStream(m) \/ PublishEvent(m) \/ Monitor(m) \/ Finish(m) \/ Crash(m)
        PROVE  UNCHANGED <<taskKey, probeTask>>
    BY <2>6 DEF AIStream, NextEvent, StreamEnds, StreamFails, PublishEvent, Monitor,
       MonitorSeesRevoked, CancelInNextEvent, CancelInPublish, Finish, MarkInterrupted,
       PublishComplete, SaveContent, CreateCheckpoint, PublishError, MarkFailed, SaveFailed,
       Crash
  <2>7. CASE CancelRequest \/ ProbeRequest \/ UNCHANGED vars
    BY <1>1, <2>7 DEF CancelRequest, CancelReadsTaskKey, CancelSetsRevoked, ProbeRequest,
       ProbeReadsMessage, ProbeReadsTaskKey, ProbeFindsNoTask, ProbeReadsRevoked,
       ProbeReadsResult, ProbeDeletesTaskKey, vars
  <2> QED BY <1>1, <2>1, <2>2, <2>3, <2>4, <2>5, <2>6, <2>7 DEF Next
<1> QED BY <1>2, SentStays

(* The status request finds the only turn in its loop at work. *)
LEMMA ProbeFindsSolo ==
    ASSUME TypeOK, TurnInv, NoCrash, NEW m \in Messages, Solo(m), SoloTurn(m), KeysSent,
           pc[m] \in Early \cup Loop, ProbeRequest
    PROVE  SoloTurn(m)'
<1> USE DEF db, redis, api, worker
<1>1. status[m] \notin Terminal /\ \A k \in Messages \ {m} : status[k] = "none"
  <2>1. \A k \in Messages : SendInv(k)
    BY DEF TurnInv
  <2>2. verdict[m] = "none" /\ (status[m] \in Terminal => status[m] = verdict[m])
    BY DEF TurnInv, VerdictInv, StatusInv
  <2> QED BY <2>1, <2>2 DEF SendInv, Solo, Terminal
<1>2. CASE ProbeReadsMessage
  <2>1. ~\E k \in Messages : IsLatest(k) /\ status[k] \in Terminal
    BY <1>1 DEF Terminal
  <2> QED BY <1>2, <2>1 DEF ProbeReadsMessage, SoloTurn
<1>3. CASE ProbeReadsTaskKey \/ ProbeFindsNoTask \/ ProbeReadsRevoked
  BY <1>3 DEF ProbeReadsTaskKey, ProbeFindsNoTask, ProbeReadsRevoked, SoloTurn
<1>4. CASE ProbeReadsResult
  <2>1. probeTask = m
    BY <1>4, NoneIsNoMessage DEF ProbeReadsResult, TypeOK, KeysSent, Solo
  <2> QED BY <1>4, <2>1 DEF ProbeReadsResult, SoloTurn
<1>5. CASE ProbeDeletesTaskKey
  BY <1>5 DEF ProbeDeletesTaskKey, SoloTurn
<1> QED BY <1>2, <1>3, <1>4, <1>5 DEF ProbeRequest

LEMMA SoloStep ==
    ASSUME TypeOK, TurnInv, TextInv, SoloInv, [Next]_vars, NoCrash', NoFault',
           NEW m \in Messages, Solo(m)'
    PROVE  SoloTurn(m)'
<1>1. NoCrash /\ NoFault /\ ~Fault
  BY CrashBudget, FaultBudget, ChatAssumption DEF Fault, NoFault, TypeOK
<1>2. Solo(m)
  BY SentStays DEF Solo
<1>3. SoloTurn(m) /\ KeysSent
  BY <1>1, <1>2 DEF SoloInv
<1>4. QueueInv(m) /\ \A k \in Messages \ {m} : QueueInv(k)
  BY DEF TextInv
<1> USE <1>1 DEF db, redis, api, worker, Goto
<1>5. ASSUME NEW k \in Messages \ {m}, Step(k) PROVE FALSE
  <2>1. /\ send[k] = "idle" /\ send'[k] = "idle" /\ pc[k] = "idle" /\ k \notin queue
    BY <1>2, <1>4 DEF Solo, QueueInv
  <2>2. ~Send(k)
    BY <2>1 DEF Send, CreateMessage, EnqueueTask, StoreActiveTask, RejectSend, TypeOK
  <2>3. ~Start(k) /\ ~AIStream(k) /\ ~PublishEvent(k)
    BY <2>1 DEF Start, Deliver, Initialize, InitializeFails, DeleteStream, StoreTaskKey,
       PrepareStreamFails, AIStream, NextEvent, StreamEnds, StreamFails, PublishEvent
  <2>4. ~Monitor(k)
    <3>1. monitor[k] = "off"
      BY <2>1 DEF TurnInv, VerdictInv, Loop
    <3> QED BY <3>1 DEF Monitor, MonitorSeesRevoked, CancelInNextEvent, CancelInPublish
  <2>5. ~Finish(k) /\ ~CleanUp(k) /\ ~Crash(k)
    BY <2>1 DEF Finish, MarkInterrupted, PublishComplete, SaveContent, CreateCheckpoint,
       PublishError, MarkFailed, SaveFailed, CleanUp, DeleteTaskKey, DeleteRevokedKey,
       CleanupFails, Cleanup, Crash, Running, Loop, Finalize, Fail
  <2> QED BY <1>5, <2>2, <2>3, <2>4, <2>5 DEF Step
<1> USE <1>3 DEF SoloTurn, Early, Loop
<1>6. CASE Send(m)
  BY <1>6 DEF Send, CreateMessage, EnqueueTask, StoreActiveTask, RejectSend
<1>7. CASE Start(m)
  <2>1. CASE Deliver(m)
    BY <1>4, <2>1 DEF Deliver, QueueInv, TypeOK
  <2>2. CASE Initialize(m) \/ DeleteStream(m) \/ StoreTaskKey(m)
    BY <2>2 DEF Initialize, DeleteStream, StoreTaskKey, TypeOK
  <2> QED BY <1>7, <2>1, <2>2 DEF Start, InitializeFails, PrepareStreamFails
<1>8. CASE AIStream(m)
  BY <1>8 DEF AIStream, NextEvent, StreamEnds, StreamFails, AfterLoop, LeaveLoop, TypeOK
<1>9. CASE PublishEvent(m)
  BY <1>9 DEF PublishEvent, TypeOK
<1>10. CASE Monitor(m)
  BY <1>10 DEF Monitor, MonitorSeesRevoked, CancelInNextEvent, CancelInPublish, LeaveLoop,
     TypeOK
<1>11. CASE Finish(m)
  BY <1>11 DEF Finish, MarkInterrupted, PublishComplete, SaveContent, CreateCheckpoint,
     PublishError, MarkFailed, SaveFailed, TypeOK
<1>12. CASE CleanUp(m)
  BY <1>12 DEF CleanUp, DeleteTaskKey, DeleteRevokedKey, CleanupFails, TypeOK
<1>13. CASE Crash(m)
  BY <1>13, ChatAssumption DEF Crash, NoCrash, TypeOK
<1>14. CASE CancelRequest
  BY <1>14 DEF CancelRequest, CancelReadsTaskKey, CancelSetsRevoked
<1>15. CASE ProbeRequest
  <2>1. CASE pc[m] \in Early \cup Loop
    BY <1>2, <1>15, <2>1, ProbeFindsSolo
  <2>2. CASE pc[m] \notin Early \cup Loop
    BY <1>15, <2>2 DEF ProbeRequest, ProbeReadsMessage, ProbeReadsTaskKey, ProbeFindsNoTask,
       ProbeReadsRevoked, ProbeReadsResult, ProbeDeletesTaskKey
  <2> QED BY <2>1, <2>2
<1>16. CASE UNCHANGED vars
  BY <1>16 DEF vars
<1>17. ASSUME NEW k \in Messages, Step(k) PROVE SoloTurn(m)'
  BY <1>5, <1>6, <1>7, <1>8, <1>9, <1>10, <1>11, <1>12, <1>13, <1>17 DEF Step
<1> QED BY ONLY [Next]_vars, <1>14, <1>15, <1>16, <1>17 DEF Next, Step

LEMMA SoloInit == Init => SoloInv
BY NoneIsNoMessage DEF Init, SoloInv, SoloTurn, KeysSent, Loop

THEOREM SoloInvariant == Spec => []SoloInv
<1>1. TypeOK /\ TurnInv /\ TextInv /\ SoloInv /\ [Next]_vars => SoloInv'
  <2> SUFFICES ASSUME TypeOK, TurnInv, TextInv, SoloInv, [Next]_vars, NoCrash', NoFault'
               PROVE  /\ KeysSent'
                      /\ \A m \in Messages : Solo(m)' => SoloTurn(m)'
    BY DEF SoloInv
  <2>1. KeysSent
    BY CrashBudget, FaultBudget DEF SoloInv
  <2> QED BY <2>1, KeysStep, SoloStep
<1> QED BY <1>1, SoloInit, TypeCorrect, TurnInvariant, TextInvariant, PTL DEF Spec

(* While the only turn of a chat streams, a stop reaches it: the key that  *)
(* DELETE /stream looks for is there, or the turn is already revoked.      *)
THEOREM SoloTurnCanBeStopped == Spec => []SoloTurnReachable
<1>1. SoloInv => SoloTurnReachable
  BY DEF SoloInv, Solo, SoloTurn, SoloTurnReachable
<1> QED BY <1>1, SoloInvariant, PTL
=============================================================================
