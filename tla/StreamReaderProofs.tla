------------------------- MODULE StreamReaderProofs -------------------------
(***************************************************************************)
(* The event log a page shows has no duplicate, no disorder and no gap,    *)
(* for any number of turns and entries, any batch size and any failures.   *)
(***************************************************************************)
EXTENDS StreamReader, TLAPS

LEMMA FaultType == TypeOK /\ Fault => faults' \in 0..MaxFaults
BY ReaderAssumption DEF TypeOK, Fault

(* A fetched id that is yielded is an id. *)
LEMMA PosIsId ==
    ASSUME TypeOK, pos <= upTo
    PROVE  pos \in Ids /\ pos + 1 \in 1..(MaxIds + 1)
BY ReaderAssumption DEF TypeOK, Ids

LEMMA YieldType ==
    ASSUME TypeOK, pos <= upTo, NEW rest \in {"backlog", "poll", "batch"},
           Yield(rest), rest = "batch" => pos # upTo
    PROVE  /\ received' \in Seq(Ids)
           /\ storedId' \in 0..MaxIds /\ lastId' \in 0..MaxIds
           /\ pos' \in 1..(MaxIds + 1)
           /\ conn' \in {"closed", rest}
           /\ monitor' \in {"off", monitor}
           /\ conn' = "batch" => pos' <= upTo'
<1>1. pos \in Ids /\ pos + 1 \in 1..(MaxIds + 1)
  BY PosIsId
<1>2. received' \in Seq(Ids)
  BY <1>1 DEF TypeOK, Yield
<1>3. pos \in 0..MaxIds
  BY <1>1, ReaderAssumption DEF Ids
<1>4. conn' \in {"closed", rest} /\ monitor' \in {"off", monitor}
  BY DEF Yield
<1>5. conn' = "batch" => pos' <= upTo'
  BY <1>1 DEF Yield, TypeOK, Ids
<1> QED BY <1>1, <1>2, <1>3, <1>4, <1>5 DEF Yield

(* XREAD answers with ids of the stream. *)
LEMMA ReadType ==
    ASSUME TypeOK, Read
    PROVE  /\ pos' \in 1..(MaxIds + 1) /\ upTo' \in 0..MaxIds
           /\ pos' <= upTo' /\ upTo' <= last
<1>1. last \in 0..MaxIds /\ first \in 1..(MaxIds + 1) /\ lastId \in 0..MaxIds
      /\ BatchSize \in Nat \ {0} /\ MaxIds \in Nat
  BY ReaderAssumption DEF TypeOK
<1>2. Oldest \in 1..(MaxIds + 1) /\ Oldest <= last
  BY <1>1 DEF Oldest, Read
<1>3. pos' = Oldest /\ upTo' = IF last < Oldest + BatchSize THEN last ELSE Oldest + BatchSize - 1
  BY DEF Read
<1> QED BY <1>1, <1>2, <1>3

(* Every step keeps every variable in its type. *)
LEMMA TypeStep == TypeOK /\ [Next]_vars => TypeOK'
<1> SUFFICES ASSUME TypeOK, [Next]_vars PROVE TypeOK'
  OBVIOUS
<1> USE DEF redis, turnVars, request, page
<1>1. CASE Worker
  <2>1. CASE Begin
    BY <2>1, FaultType, ReaderAssumption DEF Begin, TypeOK
  <2>2. ASSUME NEW isTerminal \in BOOLEAN, Append1(isTerminal)
        PROVE  /\ last' \in 0..MaxIds /\ first' \in 1..(MaxIds + 1)
               /\ first' <= last' + 1
               /\ turnOf' \in [Ids -> 0..NumTurns] /\ terminal' \subseteq Ids
    <3>1. last + 1 \in Ids /\ last + 1 \in 0..MaxIds
      BY <2>2, ReaderAssumption DEF Append1, TypeOK, Ids
    <3> QED BY <2>2, <3>1, ReaderAssumption DEF Append1, TypeOK
  <2>3. CASE PublishContent
    <3>1. Append1(FALSE)
      BY <2>3 DEF PublishContent
    <3> QED BY ONLY TypeOK, <2>2, <2>3, <3>1 DEF PublishContent, TypeOK, redis, turnVars, request, page
  <2>4. CASE PublishTerminal
    <3>1. CASE Append1(TRUE) /\ UNCHANGED faults
      BY ONLY TypeOK, <2>2, <2>4, <3>1 DEF PublishTerminal, TypeOK, turnVars, request, page
    <3>2. CASE Fault /\ UNCHANGED redis
      BY <2>4, <3>2, FaultType DEF PublishTerminal, TypeOK
    <3> QED BY <2>4, <3>1, <3>2 DEF PublishTerminal
  <2>5. CASE EndTurn
    BY <2>5 DEF EndTurn, TypeOK
  <2> QED BY ONLY <1>1, <2>1, <2>3, <2>4, <2>5 DEF Worker
<1>2. CASE Stop
  BY <1>2 DEF Stop, StopSetsRevoked, StopPublishes, TypeOK
<1>3. CASE Browser
  <2>1. ASSUME NewTurn PROVE turn' \in 0..NumTurns /\ phase' = "queued"
    BY <2>1, ReaderAssumption DEF NewTurn, TypeOK
  <2>2. CASE Send
    <3>1. message' \in 0..NumTurns
      BY <2>1, <2>2 DEF Send, NewTurn
    <3>2. received' \in Seq(Ids)
      BY <2>2 DEF Send
    <3>3. turn' \in 0..NumTurns /\ phase' = "queued"
      BY <2>1, <2>2 DEF Send
    <3> QED BY ONLY TypeOK, <2>2, <3>1, <3>2, <3>3 DEF Send, TypeOK, redis
  <2>3. CASE SendElsewhere
    BY <2>1, <2>3 DEF SendElsewhere, TypeOK
  <2>4. CASE FindActiveTask
    BY <2>4 DEF FindActiveTask, TypeOK
  <2>5. ASSUME NEW id \in 0..MaxIds, Connect(id), UNCHANGED <<redis, turnVars, faults>>,
               UNCHANGED <<message, received>>, storedId' \in 0..MaxIds
        PROVE  TypeOK'
    BY <2>5, ReaderAssumption DEF Connect, TypeOK, Open, NoId
  <2>6. NoId \in 0..MaxIds
    BY ReaderAssumption DEF NoId
  <2>7. storedId \in 0..MaxIds
    BY DEF TypeOK
  <2>8. CASE OpenAfterSend
    BY <2>5, <2>7, <2>8 DEF OpenAfterSend
  <2>9. CASE OpenForReplay
    BY <2>5, <2>6, <2>9 DEF OpenForReplay
  <2>10. CASE Reconnect
    BY <2>5, <2>7, <2>10 DEF Reconnect
  <2>11. CASE Disconnect
    BY <2>11 DEF Disconnect, TypeOK
  <2> QED BY ONLY <1>3, <2>2, <2>3, <2>4, <2>8, <2>9, <2>10, <2>11 DEF Browser
<1>4. CASE Reader
  <2>1. CASE Replay
    <3>1. missed' \subseteq Ids
      BY <2>1, ReaderAssumption DEF Replay, Since, Stream, TypeOK, Ids
    <3>2. /\ pos' \in 1..(MaxIds + 1) /\ upTo' \in 0..MaxIds
          /\ conn' \in {"backlog", "check"} /\ monitor' \in {monitor, "starting"}
          /\ faults' \in 0..MaxFaults
      BY <2>1, FaultType DEF Replay, GoLive, TypeOK
    <3> QED BY <2>1, <3>1, <3>2 DEF Replay, TypeOK, Open
  <2>2. CASE YieldBacklog
    <3>1. pos <= upTo /\ Yield("backlog")
      BY <2>2 DEF YieldBacklog
    <3>2. /\ received' \in Seq(Ids)
          /\ storedId' \in 0..MaxIds /\ lastId' \in 0..MaxIds
          /\ pos' \in 1..(MaxIds + 1)
          /\ conn' \in {"closed", "backlog"}
          /\ monitor' \in {"off", monitor}
      BY <3>1, YieldType
    <3> QED BY ONLY TypeOK, <2>2, <3>1, <3>2 DEF YieldBacklog, Yield, TypeOK, Open, redis, turnVars
  <2>3. CASE BacklogDone
    BY <2>3 DEF BacklogDone, GoLive, TypeOK, Open
  <2>4. CASE CheckRevoked
    <3>1. faults' \in 0..MaxFaults
      BY <2>4, FaultType DEF CheckRevoked, TypeOK
    <3> QED BY <2>4, <3>1 DEF CheckRevoked, SayCancelled, SayError, TypeOK, Open
  <2>5. CASE EndCancelled
    BY <2>5 DEF EndCancelled, SayCancelled, TypeOK
  <2>6. CASE StartRead
    BY <2>6 DEF StartRead, TypeOK, Open
  <2>7. CASE Read
    BY <2>7, ReadType DEF Read, TypeOK, Open
  <2>8. CASE ReadNothing
    <3>1. faults' \in 0..MaxFaults
      BY <2>8, FaultType DEF ReadNothing, TypeOK
    <3> QED BY <2>8, <3>1 DEF ReadNothing, TypeOK, Open
  <2>9. CASE YieldBatch
    <3>1. pos <= upTo
      BY <2>9 DEF YieldBatch, TypeOK
    <3>2. PICK rest \in {"poll", "batch"} : Yield(rest) /\ (rest = "batch" => pos # upTo)
      BY <2>9 DEF YieldBatch
    <3>3. /\ received' \in Seq(Ids)
          /\ storedId' \in 0..MaxIds /\ lastId' \in 0..MaxIds
          /\ pos' \in 1..(MaxIds + 1)
          /\ conn' \in {"closed", "poll", "batch"}
          /\ monitor' \in {"off", monitor}
          /\ conn' = "batch" => pos' <= upTo'
      BY <3>1, <3>2, YieldType
    <3> QED BY ONLY TypeOK, <2>9, <3>2, <3>3 DEF YieldBatch, Yield, TypeOK, Open, redis, turnVars
  <2> QED BY ONLY <1>4, <2>1, <2>2, <2>3, <2>4, <2>5, <2>6, <2>7, <2>8, <2>9 DEF Reader
<1>5. CASE Monitor
  BY <1>5, FaultType DEF Monitor, Subscribe, NoticeCancel, MonitorFails, TypeOK
<1>6. CASE UNCHANGED vars
  BY <1>6 DEF vars, TypeOK
<1> QED BY ONLY <1>1, <1>2, <1>3, <1>4, <1>5, <1>6, [Next]_vars DEF Next

LEMMA TypeInit == Init => TypeOK
<1> SUFFICES ASSUME Init PROVE TypeOK
  OBVIOUS
<1>1. /\ 0 \in 0..NumTurns /\ 0 \in 0..MaxIds /\ 1 \in 1..(MaxIds + 1)
      /\ MaxFaults \in 0..MaxFaults
  BY ReaderAssumption
<1>2. turnOf \in [Ids -> 0..NumTurns]
  BY <1>1 DEF Init
<1>3. received \in Seq(Ids)
  BY DEF Init
<1>4. /\ terminal \subseteq Ids /\ missed \subseteq Ids
      /\ first <= last + 1
      /\ conn = "batch" => pos <= upTo
      /\ conn \in Open \cup {"closed", "sent", "restoring"}
  BY DEF Init
<1> QED BY <1>1, <1>2, <1>3, <1>4 DEF Init, TypeOK, NoId

(* Every reachable state is well typed. *)
THEOREM TypeCorrect == Spec => []TypeOK
BY TypeInit, TypeStep, PTL DEF Spec
-----------------------------------------------------------------------------
(* The stream grows with its turns: an id belongs to no later turn than    *)
(* the ids after it, and what was deleted belongs to earlier turns than    *)
(* what is in the stream or will be.                                       *)
LogInv ==
    /\ \A k \in Ids : turnOf[k] <= turn
    /\ phase = "queued" => \A k \in Ids : turnOf[k] < turn
    /\ \A j, k \in Ids : j <= k /\ k <= last => turnOf[j] <= turnOf[k]
    /\ \A j \in Ids : j < first => turnOf[j] < turn
    /\ \A j, k \in Ids : j < first /\ first <= k /\ k <= last => turnOf[j] < turnOf[k]

(* What the request is about to yield continues what the page has: only    *)
(* entries of earlier turns may lie between them.                          *)
ReadInv ==
    /\ storedId <= last
    /\ message <= turn
    /\ conn = "replay" => lastId = resumeId
    /\ conn \in Open => lastId = storedId
    /\ conn \in {"backlog", "batch"} =>
          /\ lastId < pos
          /\ upTo <= last
          /\ pos <= upTo => \A k \in Ids : lastId < k /\ k < pos => turnOf[k] < turnOf[pos]

(* The page has everything of its message's turn up to storedId, or        *)
(* storedId is past that turn.                                             *)
ShownInv ==
    /\ \A j \in Received : j <= storedId
    /\ conn = "restoring" => received = <<>>
    /\ conn # "restoring" =>
          \A k \in Ids : turnOf[k] = message /\ k <= storedId /\ k \notin Received
                            => message < turnOf[storedId]

Inv == TypeOK /\ LogInv /\ ReadInv /\ ShownInv /\ Ordered /\ PrefixShown
-----------------------------------------------------------------------------
LEMMA NothingReceived == received = <<>> => Received = {} /\ Ordered /\ PrefixShown
<1> SUFFICES ASSUME received = <<>> PROVE Received = {} /\ Ordered /\ PrefixShown
  OBVIOUS
<1>1. DOMAIN received = {}
  OBVIOUS
<1>2. Received = {}
  BY <1>1 DEF Received
<1> QED BY <1>1, <1>2 DEF Ordered, PrefixShown

LEMMA ReceivedIds == TypeOK => Received \subseteq Ids
BY DEF TypeOK, Received

LEMMA ReceivedAppend ==
    ASSUME TypeOK, pos \in Ids, received' = Append(received, pos)
    PROVE  /\ Received' = Received \cup {pos}
           /\ (Ordered /\ \A j \in Received : j < pos) => Ordered'
<1>1. received \in Seq(Ids)
  BY DEF TypeOK
<1>2. /\ DOMAIN received' = 1..(Len(received) + 1)
      /\ DOMAIN received = 1..Len(received) /\ Len(received) \in Nat
      /\ received'[Len(received) + 1] = pos
      /\ \A i \in 1..Len(received) : received'[i] = received[i]
  BY <1>1
<1>3. 1..(Len(received) + 1) = 1..Len(received) \cup {Len(received) + 1}
  BY <1>2
<1>4. Received' = Received \cup {pos}
  BY <1>2, <1>3 DEF Received
<1>5. ASSUME Ordered, \A j \in Received : j < pos,
             NEW i \in DOMAIN received', NEW j \in DOMAIN received', i < j
      PROVE  received'[i] < received'[j]
  <2>1. i \in 1..Len(received)
    BY <1>2, <1>3, <1>5
  <2>2. CASE j \in 1..Len(received)
    BY <1>2, <1>5, <2>1, <2>2 DEF Ordered
  <2>3. CASE j = Len(received) + 1
    BY <1>2, <1>5, <2>1, <2>3 DEF Received
  <2> QED BY <1>2, <1>3, <1>5, <2>2, <2>3
<1> QED BY <1>4, <1>5 DEF Ordered

(* Only the worker and a new turn touch the log. *)
LEMMA LogStep == Inv /\ [Next]_vars => LogInv'
<1> SUFFICES ASSUME Inv, [Next]_vars PROVE LogInv'
  OBVIOUS
<1>t. /\ turnOf \in [Ids -> 0..NumTurns] /\ turn \in 0..NumTurns
      /\ first \in 1..(MaxIds + 1) /\ last \in 0..MaxIds /\ first <= last + 1
      /\ MaxIds \in Nat /\ NumTurns \in Nat
  BY ReaderAssumption DEF Inv, TypeOK
<1>l. LogInv
  BY DEF Inv
<1>1. CASE Begin
  <2>1. CASE first' = last + 1
    BY <1>1, <1>t, <1>l, <2>1 DEF Begin, LogInv, Ids
  <2>2. CASE first' = first
    BY <1>1, <1>t, <1>l, <2>2 DEF Begin, LogInv, Ids
  <2> QED BY <1>1, <2>1, <2>2 DEF Begin
<1>2. ASSUME NEW isTerminal \in BOOLEAN, Append1(isTerminal), turn' = turn, phase' # "queued"
      PROVE  LogInv'
  <2>1. /\ last' = last + 1 /\ first' = first
        /\ last + 1 \in Ids
        /\ turnOf' = [turnOf EXCEPT ![last + 1] = turn]
    BY <1>2, <1>t DEF Append1, Ids
  <2>2. \A k \in Ids : turnOf'[k] = IF k = last + 1 THEN turn ELSE turnOf[k]
    BY <2>1, <1>t
  <2> QED BY <1>2, <1>t, <1>l, <2>1, <2>2 DEF LogInv, Ids
<1>3. CASE PublishContent
  <2>1. Append1(FALSE) /\ turn' = turn /\ phase' # "queued"
    BY <1>3 DEF PublishContent, turnVars
  <2> QED BY ONLY <1>2, <2>1
<1>4. CASE PublishTerminal
  <2>1. CASE Append1(TRUE)
    <3>1. turn' = turn /\ phase' # "queued"
      BY <1>4 DEF PublishTerminal
    <3> QED BY ONLY <1>2, <2>1, <3>1
  <2>2. CASE UNCHANGED redis
    BY <1>4, <2>2, <1>l DEF PublishTerminal, redis, LogInv
  <2> QED BY <1>4, <2>1, <2>2 DEF PublishTerminal
<1>5. CASE EndTurn
  BY <1>5, <1>l DEF EndTurn, redis, LogInv
<1>6. CASE Stop
  BY <1>6, <1>l DEF Stop, StopSetsRevoked, StopPublishes, redis, LogInv
<1>7. ASSUME NewTurn, UNCHANGED redis PROVE LogInv'
  <2>1. turn' = turn + 1 /\ turn' > turn
    BY <1>7, <1>t DEF NewTurn
  <2>2. first' = first /\ last' = last /\ turnOf' = turnOf
    BY <1>7 DEF redis
  <2>3. \A k \in Ids : turnOf[k] < turn'
    BY <1>t, <1>l, <2>1 DEF LogInv
  <2> QED BY <1>l, <1>t, <2>1, <2>2, <2>3 DEF LogInv
<1>8. CASE Browser
  <2>1. CASE UNCHANGED <<redis, turnVars>>
    BY <2>1, <1>l DEF redis, turnVars, LogInv
  <2>2. (NewTurn /\ UNCHANGED redis) \/ UNCHANGED <<redis, turnVars>>
    BY <1>8 DEF Browser, Send, SendElsewhere, FindActiveTask, OpenAfterSend,
                OpenForReplay, Reconnect, Disconnect
  <2> QED BY ONLY <1>7, <2>1, <2>2
<1>9. CASE Reader \/ Monitor \/ UNCHANGED vars
  <2>1. UNCHANGED <<redis, turnVars>>
    BY <1>9 DEF Reader, Replay, YieldBacklog, BacklogDone, CheckRevoked, EndCancelled,
                StartRead, Read, ReadNothing, YieldBatch, Monitor, Subscribe,
                NoticeCancel, MonitorFails, vars
  <2> QED BY <2>1, <1>l DEF redis, turnVars, LogInv
<1> QED BY ONLY <1>1, <1>3, <1>4, <1>5, <1>6, <1>8, <1>9, [Next]_vars DEF Next, Worker

(* Only the reader moves its position; a yield moves it with the page's.   *)
LEMMA ReadStep == Inv /\ [Next]_vars => ReadInv'
<1> SUFFICES ASSUME Inv, [Next]_vars PROVE ReadInv'
  OBVIOUS
<1>t. /\ turnOf \in [Ids -> 0..NumTurns] /\ turn \in 0..NumTurns
      /\ first \in 1..(MaxIds + 1) /\ last \in 0..MaxIds /\ first <= last + 1
      /\ storedId \in 0..MaxIds /\ lastId \in 0..MaxIds /\ message \in 0..NumTurns
      /\ pos \in 1..(MaxIds + 1) /\ upTo \in 0..MaxIds
      /\ MaxIds \in Nat /\ NumTurns \in Nat
  BY ReaderAssumption DEF Inv, TypeOK
<1>r. LogInv /\ ReadInv
  BY DEF Inv
<1>1. ASSUME UNCHANGED <<request, page>>, turn' \in Nat, last' \in Nat, turn' >= turn,
             last' >= last,
             \A k \in Ids : k <= last => turnOf'[k] = turnOf[k]
      PROVE  ReadInv'
  <2>1. /\ storedId' <= last' /\ message' <= turn'
        /\ conn' = "replay" => lastId' = resumeId'
        /\ conn' \in Open => lastId' = storedId'
    BY <1>1, <1>t, <1>r DEF ReadInv, request, page
  <2>2. ASSUME conn' \in {"backlog", "batch"}
        PROVE  /\ lastId' < pos' /\ upTo' <= last'
               /\ pos' <= upTo' => \A k \in Ids : lastId' < k /\ k < pos' => turnOf'[k] < turnOf'[pos']
    <3>1. /\ lastId < pos /\ upTo <= last
          /\ pos <= upTo => \A k \in Ids : lastId < k /\ k < pos => turnOf[k] < turnOf[pos]
      BY <1>1, <1>r, <2>2 DEF ReadInv, request
    <3>2. pos <= upTo => pos \in Ids
      BY <1>t DEF Ids
    <3>3. UNCHANGED <<lastId, pos, upTo>>
      BY <1>1 DEF request
    <3>4. ASSUME pos <= upTo, NEW k \in Ids, lastId < k, k < pos
          PROVE  turnOf'[k] < turnOf'[pos]
      BY <1>1, <1>t, <3>1, <3>2, <3>4 DEF Ids
    <3>5. lastId' < pos' /\ upTo' <= last'
      BY <1>1, <1>t, <3>1, <3>3
    <3> QED BY ONLY <3>3, <3>4, <3>5
  <2> QED BY <2>1, <2>2 DEF ReadInv
<1>2. CASE Worker
  <2>1. UNCHANGED <<request, page>> /\ turn' = turn
    BY <1>2 DEF Worker, Begin, PublishContent, PublishTerminal, EndTurn, turnVars
  <2>2. \/ last' = last /\ turnOf' = turnOf
        \/ last' = last + 1 /\ turnOf' = [turnOf EXCEPT ![last + 1] = turn]
    BY <1>2 DEF Worker, Begin, PublishContent, PublishTerminal, EndTurn, Append1, redis
  <2>3. last' >= last /\ turn' >= turn /\ last' \in Nat /\ turn' \in Nat
    BY <1>t, <2>1, <2>2
  <2>4. \A k \in Ids : k <= last => turnOf'[k] = turnOf[k]
    BY <1>t, <2>2 DEF Ids
  <2> QED BY ONLY <1>1, <2>1, <2>3, <2>4
<1>3. CASE Stop \/ Monitor
  <2>1. /\ UNCHANGED <<redis, turn, page, conn, resumeId, lastId, pos, upTo>>
    BY <1>3 DEF Stop, StopSetsRevoked, StopPublishes, Monitor, Subscribe, NoticeCancel,
                MonitorFails, request, turnVars
  <2> QED BY <1>r, <2>1 DEF ReadInv, redis, page
<1>4. CASE SendElsewhere
  <2>1. /\ turn' >= turn /\ last' >= last /\ turn' \in Nat /\ last' \in Nat
        /\ turnOf' = turnOf /\ UNCHANGED <<request, page>>
    BY <1>4, <1>t DEF SendElsewhere, NewTurn, redis
  <2> QED BY ONLY <1>1, <2>1
<1>5. CASE Send
  BY <1>5, <1>t, <1>r DEF Send, NewTurn, ReadInv, Open, redis
<1>6. CASE FindActiveTask
  BY <1>6, <1>t, <1>r DEF FindActiveTask, ReadInv, Open, redis, turnVars
<1>7. ASSUME NEW id \in 0..MaxIds, Connect(id), storedId' = id, id <= last,
             UNCHANGED <<redis, turnVars, message>>
      PROVE  ReadInv'
  BY <1>7, <1>r DEF Connect, ReadInv, redis, turnVars
<1>8. CASE OpenAfterSend \/ Reconnect
  <2>1. /\ Connect(storedId) /\ storedId' = storedId /\ storedId <= last
        /\ UNCHANGED <<redis, turnVars, message>>
    BY <1>8, <1>r DEF OpenAfterSend, Reconnect, page, ReadInv
  <2> QED BY ONLY <1>7, <1>t, <2>1
<1>9. CASE OpenForReplay
  <2>1. NoId \in 0..MaxIds /\ NoId <= last
    BY <1>t DEF NoId
  <2>2. Connect(NoId) /\ storedId' = NoId /\ UNCHANGED <<redis, turnVars, message>>
    BY <1>9 DEF OpenForReplay
  <2> QED BY ONLY <1>7, <2>1, <2>2
<1>10. CASE Disconnect
  BY <1>10, <1>r DEF Disconnect, ReadInv, Open, redis, turnVars, page
<1>11. CASE Replay
  <2>1. conn \in Open /\ lastId = storedId /\ lastId = resumeId
    BY <1>11, <1>r DEF Replay, ReadInv, Open
  <2>2. CASE conn' = "check"
    BY <1>11, <1>r, <2>1, <2>2 DEF Replay, ReadInv, redis, turnVars, page
  <2>3. CASE resumeId = NoId /\ pos' = first /\ upTo' = last /\ conn' = "backlog"
    <3>1. lastId' = 0 /\ lastId' < pos' /\ upTo' <= last'
      BY <1>11, <1>t, <2>1, <2>3 DEF Replay, NoId, redis
    <3>2. ASSUME pos' <= upTo', NEW k \in Ids, k < pos'
          PROVE  turnOf'[k] < turnOf'[pos']
      BY <1>11, <1>t, <1>r, <2>3, <3>2 DEF Replay, LogInv, Ids, redis
    <3> QED BY <1>11, <1>r, <2>1, <2>3, <3>1, <3>2 DEF Replay, ReadInv, redis, turnVars, page
  <2> QED BY <1>11, <2>2, <2>3 DEF Replay, GoLive
<1>12. CASE BacklogDone \/ CheckRevoked \/ EndCancelled \/ StartRead \/ ReadNothing
  <2>1. /\ conn \in Open /\ conn' \in {"check", "closed", "poll", "read"}
        /\ UNCHANGED <<redis, turnVars, lastId, page>>
    BY <1>12 DEF BacklogDone, CheckRevoked, EndCancelled, StartRead, ReadNothing, GoLive,
                 SayCancelled, SayError, Open
  <2> QED BY <1>r, <2>1 DEF ReadInv, redis, turnVars, page
<1>13. CASE Read
  <2>1. /\ conn = "read" /\ conn' = "batch" /\ pos' = Oldest /\ Oldest <= last
        /\ UNCHANGED <<redis, turnVars, lastId, page>>
    BY <1>13 DEF Read
  <2>2. lastId = storedId
    BY <1>r, <2>1 DEF ReadInv, Open
  <2>3. pos' <= upTo' /\ upTo' <= last
    BY <1>13, ReadType DEF Inv
  <2>4. lastId < Oldest
    BY <1>t DEF Oldest
  <2>5. ASSUME NEW k \in Ids, lastId < k, k < Oldest PROVE turnOf[k] < turnOf[Oldest]
    <3>1. Oldest = first /\ Oldest \in Ids
      BY <1>t, <2>1, <2>5 DEF Oldest, Ids
    <3> QED BY <1>r, <1>t, <2>1, <2>5, <3>1 DEF LogInv
  <2> QED BY <1>r, <1>t, <2>1, <2>2, <2>3, <2>4, <2>5 DEF ReadInv, redis, turnVars, page
<1>14. CASE YieldBacklog \/ YieldBatch
  <2>1. PICK rest \in {"backlog", "poll", "batch"} : Yield(rest)
    BY <1>14 DEF YieldBacklog, YieldBatch
  <2>2. /\ pos <= upTo /\ upTo <= last /\ conn \in {"backlog", "batch"}
    BY <1>14, <1>r DEF YieldBacklog, YieldBatch, ReadInv, Inv, TypeOK
  <2>3. /\ storedId' = pos /\ lastId' = pos /\ pos' = pos + 1 /\ upTo' = upTo
        /\ conn' \in {"closed", rest}
        /\ UNCHANGED <<redis, turnVars, message>>
    BY <1>14, <2>1 DEF YieldBacklog, YieldBatch, Yield
  <2>4. pos <= last
    BY <1>t, <2>2
  <2>5. \A k \in Ids : ~(pos < k /\ k < pos + 1)
    BY <1>t DEF Ids
  <2>6. conn' # "replay"
    BY <2>1, <2>3
  <2> QED BY <1>r, <1>t, <2>2, <2>3, <2>4, <2>5, <2>6 DEF ReadInv, redis, turnVars
<1>15. CASE UNCHANGED vars
  BY <1>15, <1>r DEF vars, redis, turnVars, request, page, ReadInv
<1> QED BY ONLY <1>2, <1>3, <1>4, <1>5, <1>6, <1>8, <1>9, <1>10, <1>11, <1>12, <1>13, <1>14,
                <1>15, [Next]_vars DEF Next, Browser, Reader

(* What the page shows changes with a yield, and when it is emptied. *)
LEMMA ShownStep == Inv /\ [Next]_vars => ShownInv' /\ Ordered' /\ PrefixShown'
<1> SUFFICES ASSUME Inv, [Next]_vars PROVE ShownInv' /\ Ordered' /\ PrefixShown'
  OBVIOUS
<1>t. /\ turnOf \in [Ids -> 0..NumTurns] /\ turn \in 0..NumTurns
      /\ last \in 0..MaxIds /\ storedId \in 0..MaxIds /\ message \in 0..NumTurns
      /\ pos \in 1..(MaxIds + 1) /\ upTo \in 0..MaxIds
      /\ MaxIds \in Nat /\ NumTurns \in Nat
  BY ReaderAssumption DEF Inv, TypeOK
<1>r. /\ LogInv /\ ReadInv /\ ShownInv /\ Ordered /\ PrefixShown
      /\ Received \subseteq Ids
  BY ReceivedIds DEF Inv
<1>1. ASSUME UNCHANGED <<message, received, storedId>>,
             conn' = "restoring" <=> conn = "restoring",
             \A k \in Ids : k <= last => turnOf'[k] = turnOf[k]
      PROVE  ShownInv' /\ Ordered' /\ PrefixShown'
  <2>1. Received' = Received /\ Ordered'
    BY <1>1, <1>r DEF Received, Ordered
  <2>2. storedId <= last /\ \A j \in Received : j <= storedId /\ j <= last
    BY <1>r, <1>t DEF ShownInv, ReadInv, Ids
  <2>3. PrefixShown'
    BY <1>1, <1>r, <1>t, <2>1, <2>2 DEF PrefixShown, Ids
  <2>4. ASSUME conn # "restoring", NEW k \in Ids, turnOf'[k] = message, k <= storedId,
               k \notin Received
        PROVE  message < turnOf'[storedId]
    <3>1. storedId \in Ids /\ k <= last
      BY <1>t, <2>2, <2>4 DEF Ids
    <3> QED BY <1>1, <1>r, <2>2, <2>4, <3>1 DEF ShownInv
  <2> QED BY <1>1, <1>r, <2>1, <2>2, <2>3, <2>4 DEF ShownInv
<1>2. ASSUME UNCHANGED <<message, received, storedId, turnOf>>,
             conn' # "restoring", conn # "restoring"
      PROVE  ShownInv' /\ Ordered' /\ PrefixShown'
  BY ONLY <1>1, <1>2
<1>3. CASE Worker
  <2>1. UNCHANGED <<message, received, storedId, conn>>
    BY <1>3 DEF Worker, Begin, PublishContent, PublishTerminal, EndTurn, page, request
  <2>2. \/ turnOf' = turnOf
        \/ turnOf' = [turnOf EXCEPT ![last + 1] = turn]
    BY <1>3 DEF Worker, Begin, PublishContent, PublishTerminal, EndTurn, Append1, redis
  <2>3. \A k \in Ids : k <= last => turnOf'[k] = turnOf[k]
    BY <1>t, <2>2 DEF Ids
  <2> QED BY ONLY <1>1, <2>1, <2>3
<1>4. CASE Stop \/ Monitor \/ SendElsewhere \/ UNCHANGED vars
  <2>1. UNCHANGED <<message, received, storedId, conn, turnOf>>
    BY <1>4 DEF Stop, StopSetsRevoked, StopPublishes, Monitor, Subscribe, NoticeCancel,
                MonitorFails, SendElsewhere, page, request, redis, vars
  <2> QED BY ONLY <1>1, <2>1
<1>5. CASE OpenAfterSend \/ Reconnect \/ Disconnect
  <2>1. /\ UNCHANGED <<message, received, storedId, turnOf>>
        /\ conn' # "restoring" /\ conn # "restoring"
    BY <1>5 DEF OpenAfterSend, Reconnect, Disconnect, Connect, page, redis, Open
  <2> QED BY ONLY <1>2, <2>1
<1>6. CASE Replay \/ BacklogDone \/ CheckRevoked \/ EndCancelled \/ StartRead
             \/ Read \/ ReadNothing
  <2>1. /\ UNCHANGED <<message, received, storedId, turnOf>>
        /\ conn' # "restoring" /\ conn # "restoring"
    BY <1>6 DEF Replay, BacklogDone, CheckRevoked, EndCancelled, StartRead, Read,
                ReadNothing, GoLive, SayCancelled, SayError, page, redis
  <2> QED BY ONLY <1>2, <2>1
<1>7. CASE Send
  <2>1. /\ message' = turn + 1 /\ received' = <<>> /\ storedId' = storedId
        /\ turnOf' = turnOf /\ conn' = "sent"
    BY <1>7 DEF Send, NewTurn, redis
  <2>2. Received' = {} /\ Ordered' /\ PrefixShown'
    BY <2>1 DEF Received, Ordered, PrefixShown
  <2>3. \A k \in Ids : turnOf'[k] # message'
    BY <1>t, <1>r, <2>1 DEF LogInv
  <2> QED BY <2>1, <2>2, <2>3 DEF ShownInv
<1>8. CASE FindActiveTask
  <2>1. received' = <<>> /\ conn' = "restoring"
    BY <1>8 DEF FindActiveTask
  <2>2. Received' = {} /\ Ordered' /\ PrefixShown'
    BY <2>1 DEF Received, Ordered, PrefixShown
  <2> QED BY <2>1, <2>2 DEF ShownInv
<1>9. CASE OpenForReplay
  <2>1. received' = <<>> /\ storedId' = 0 /\ conn' = "replay"
    BY <1>9, <1>r DEF OpenForReplay, Connect, ShownInv, NoId
  <2>2. Received' = {} /\ Ordered' /\ PrefixShown'
    BY <2>1 DEF Received, Ordered, PrefixShown
  <2>3. \A k \in Ids : ~(k <= storedId')
    BY <2>1, <1>t DEF Ids
  <2> QED BY <2>1, <2>2, <2>3 DEF ShownInv
<1>10. CASE YieldBacklog \/ YieldBatch
  <2>1. PICK rest \in {"backlog", "poll", "batch"} : Yield(rest)
    BY <1>10 DEF YieldBacklog, YieldBatch
  <2>2. pos <= upTo /\ conn \in {"backlog", "batch"}
    BY <1>10 DEF YieldBacklog, YieldBatch, Inv, TypeOK
  <2>3. /\ upTo <= last /\ lastId = storedId /\ storedId < pos
        /\ \A k \in Ids : storedId < k /\ k < pos => turnOf[k] < turnOf[pos]
    BY <1>r, <2>2 DEF ReadInv, Open
  <2>4. pos \in Ids /\ pos <= last
    BY <1>t, <2>2, <2>3 DEF Ids
  <2>5. /\ storedId' = pos /\ received' = Append(received, pos)
        /\ message' = message /\ turnOf' = turnOf
        /\ conn' # "restoring" /\ conn # "restoring"
    BY <1>10, <2>1, <2>2 DEF YieldBacklog, YieldBatch, Yield, redis
  <2>6. \A j \in Received : j <= storedId /\ j < pos
    BY <1>r, <1>t, <2>3, <2>4 DEF ShownInv, Ids
  <2>7. Received' = Received \cup {pos} /\ Ordered'
    BY <1>r, <2>4, <2>5, <2>6, ReceivedAppend DEF Inv
  <2>8. ASSUME NEW k \in Ids, turnOf[k] = message, k < pos, k \notin Received
        PROVE  message < turnOf[pos]
    <3>1. CASE k <= storedId
      <4>1. storedId \in Ids /\ message < turnOf[storedId]
        BY <1>r, <1>t, <2>5, <2>8, <3>1 DEF ShownInv, Ids
      <4>2. turnOf[storedId] <= turnOf[pos]
        BY <1>r, <1>t, <2>3, <2>4, <4>1 DEF LogInv, Ids
      <4> QED BY <1>t, <2>4, <4>1, <4>2
    <3>2. CASE storedId < k
      BY <2>3, <2>8, <3>2
    <3> QED BY <1>t, <3>1, <3>2 DEF Ids
  <2>9. ShownInv'
    <3>1. \A j \in Received' : j <= storedId'
      BY <1>t, <1>r, <2>4, <2>5, <2>6, <2>7 DEF Ids
    <3>2. ASSUME NEW k \in Ids, turnOf[k] = message, k <= pos, k \notin Received'
          PROVE  message < turnOf[pos]
      BY <1>t, <2>4, <2>7, <2>8, <3>2 DEF Ids
    <3> QED BY <2>5, <3>1, <3>2 DEF ShownInv
  <2>10. PrefixShown'
    <3>1. ASSUME NEW k \in Ids, k < pos, turnOf[k] = message, turnOf[pos] = message
          PROVE  k \in Received
      BY <1>t, <2>8, <3>1
    <3> QED BY <1>r, <2>5, <2>7, <3>1 DEF PrefixShown
  <2> QED BY <2>7, <2>9, <2>10
<1> QED BY ONLY <1>3, <1>4, <1>5, <1>6, <1>7, <1>8, <1>9, <1>10, [Next]_vars
        DEF Next, Browser, Reader

LEMMA InvHolds == Spec => []Inv
<1>1. Init => Inv
  <2> SUFFICES ASSUME Init PROVE Inv
    OBVIOUS
  <2>1. TypeOK
    BY TypeInit
  <2>2. Received = {} /\ Ordered /\ PrefixShown
    BY NothingReceived DEF Init
  <2> QED BY <2>1, <2>2 DEF Init, Inv, LogInv, ReadInv, ShownInv, Ids, Open, NoId
<1>2. Inv /\ [Next]_vars => Inv'
  BY TypeStep, LogStep, ReadStep, ShownStep DEF Inv
<1> QED BY <1>1, <1>2, PTL DEF Spec

(* The event log of a message has nothing twice and nothing out of order.  *)
THEOREM ShownInOrder == Spec => []Ordered
<1>1. Inv => Ordered
  BY DEF Inv
<1> QED BY <1>1, InvHolds, PTL

(* Up to what it shows of its turn, a message shows everything, through    *)
(* any sequence of failures, reconnections and replays.                    *)
THEOREM ShownWithoutGap == Spec => []PrefixShown
<1>1. Inv => PrefixShown
  BY DEF Inv
<1> QED BY <1>1, InvHolds, PTL
=============================================================================
