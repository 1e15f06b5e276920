----------------------------- MODULE PtyQueues -----------------------------
(***************************************************************************)
(* The two bounded queues of a terminal session: what is typed on its way  *)
(* to the PTY, and what the PTY prints on its way to the WebSocket.        *)
(*   backend api/endpoints/websocket.py, enqueue_input, input_worker       *)
(*   backend services/sandbox.py, _enqueue_pty_output, forward_pty_output  *)
(*                                                                         *)
(* Both drop their oldest item when they are full, and both have a worker  *)
(* that takes all there is and sends it as one.  All of it runs on one     *)
(* event loop, so only an await lets another step in between.              *)
(***************************************************************************)
EXTENDS Integers, Sequences

CONSTANTS
  Cap,      \* what a queue holds: 1024 chunks of input, 512 of output
  MaxItems  \* bound: items put

VARIABLES
  way,     \* "input" or "output"
  n,       \* number of items put; they are 1 .. n
  queue,   \* asyncio.Queue
  buffer,  \* what the worker took and is sending
  at,      \* the worker: "get", "send" or "ended"
  open,    \* the session is registered, so that input finds its PTY
  got      \* (history) the items that arrived, in order

vars == <<way, n, queue, buffer, at, open, got>>

Init ==
  /\ way \in {"input", "output"}
  /\ n = 0 /\ queue = <<>> /\ buffer = <<>> /\ at = "get" /\ open = TRUE /\ got = <<>>

\* Mutant: what is new is dropped.
Put_DropsNew(q, x) == IF Len(q) < Cap THEN Append(q, x) ELSE q

\* Mutant: the oldest stays.
Put_Grows(q, x) == Append(q, x)

\* put_nowait, with room made for x
Put(q, x) == IF Len(q) < Cap THEN Append(q, x) ELSE Append(Tail(q), x)

\* enqueue_input, which needs its session; _enqueue_pty_output, the PTY's callback
Enqueue ==
  /\ n < MaxItems /\ (way = "input" => at # "ended")
  /\ n' = n + 1 /\ queue' = Put(queue, n + 1)
  /\ UNCHANGED <<way, buffer, at, open, got>>

\* Mutant: what is taken stays in the queue.
Take_Keeps ==
  /\ at = "get" /\ queue # <<>>
  /\ buffer' = queue /\ at' = "send"
  /\ UNCHANGED <<way, n, queue, open, got>>

\* The worker takes all there is.
Take ==
  /\ at = "get" /\ queue # <<>>
  /\ buffer' = queue /\ queue' = <<>> /\ at' = "send"
  /\ UNCHANGED <<way, n, open, got>>

\* It is sent.  Input for a session that is gone is not.
Sent ==
  /\ at = "send"
  /\ got' = IF open THEN got \o buffer ELSE got
  /\ buffer' = <<>> /\ at' = "get"
  /\ UNCHANGED <<way, n, queue, open>>

\* Sending fails: the session of the PTY is cleaned up and its worker goes on; the
\* worker of the output ends.
SendFails ==
  /\ at = "send" /\ open
  /\ open' = FALSE /\ buffer' = <<>>
  /\ at' = IF way = "input" THEN "get" ELSE "ended"
  /\ UNCHANGED <<way, n, queue, got>>

\* stop cancels the worker wherever it is; its queue is let go.
Stop ==
  /\ at # "ended"
  /\ at' = "ended" /\ queue' = <<>> /\ buffer' = <<>> /\ open' = FALSE
  /\ UNCHANGED <<way, n, got>>

Next == Enqueue \/ Take \/ Sent \/ SendFails \/ Stop

Spec == Init /\ [][Next]_vars

-----------------------------------------------------------------------------
(* Properties *)

TypeOK ==
  /\ way \in {"input", "output"} /\ n \in Nat /\ got \in Seq(Nat)
  /\ queue \in Seq(Nat) /\ Len(queue) <= Cap /\ buffer \in Seq(Nat)
  /\ at \in {"get", "send", "ended"} /\ open \in BOOLEAN

\* While the session lasts the newest item is on its way or has arrived: a full
\* queue loses what is old ("drops oldest input when full to ensure newest
\* keystrokes aren't lost").
NewestKept ==
  open =>
    IF queue # <<>> THEN queue[Len(queue)] = n
    ELSE IF buffer # <<>> THEN buffer[Len(buffer)] = n
    ELSE n = 0 \/ (got # <<>> /\ got[Len(got)] = n)

KN == INSTANCE KeepsNewest WITH made <- n, came <- got

\* The queues keep the promise of KeepsNewest.
Implements == KN!Spec
=============================================================================
