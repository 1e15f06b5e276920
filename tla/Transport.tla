----------------------------- MODULE Transport -----------------------------
(***************************************************************************)
(* The transport between the worker and the Claude CLI in its sandbox: the *)
(* process, the queue of its output, the task that waits for its end, the  *)
(* parser that makes messages of the output, and close().                  *)
(*   backend services/e2b_transport.py                                     *)
(*   backend services/claude_agent.py (get_ai_stream, cancel_active_stream)*)
(*                                                                         *)
(* Everything runs on one event loop: an action is what happens between    *)
(* two awaits.  The sandbox delivers the output in chunks that may be cut  *)
(* at any place; it awaits on_stdout, so a full queue holds it back.  The  *)
(* text of a message is a start, a word, some blanks, and an end; the last *)
(* message is the result.                                                  *)
(***************************************************************************)
EXTENDS Naturals, Sequences, FiniteSets, SequencesExt

CONSTANTS
  Outputs,    \* what a CLI may write: the number of blanks of each message
  Cap,        \* _STDOUT_QUEUE_MAXSIZE, 32 chunks
  MaxBuffer,  \* _max_buffer_size
  Closers,    \* the calls of close(): by cancel_active_stream, the SDK and __aexit__
  MaxChunk    \* bound: tokens of a chunk

VARIABLES
  blanks,     \* the blanks of each message of this CLI
  sent,       \* how much of its output has been delivered
  cli,        \* "off", "running", "finished", "failed" (exit code), "lost" or "killed"
  queue,      \* _stdout_queue
  ready,      \* _ready
  stdin,      \* it is open (_stdin_closed is not set)
  exitError,  \* _exit_error
  monitor,    \* _monitor_process: "none", "waiting", "putting", "done" or
              \* "cleared" (_monitor_task is None again)
  closing,    \* closer -> "no", "monitor", "kill" or "done"
  reader,     \* _parse_cli_output: "off", "get", "end", "ended", "failed" or "gone"
  buffer,     \* json_buffer
  started,    \* json_started
  got,        \* the messages the SDK was given
  clipped,    \* (history) messages that were cut beside a blank
  dropped     \* (history) close() found the queue full

process == <<blanks, sent, cli>>
parser == <<reader, buffer, started, got, clipped>>
vars == <<process, queue, ready, stdin, exitError, monitor, closing, parser, dropped>>

None == "none"
Sentinel == "sentinel"

-----------------------------------------------------------------------------
(* What the CLI writes: a line of other text, then a line for each message. *)

Token(m, part) == [m |-> m, part |-> part]
NewLine == Token(0, "newline")
Noise == Token(0, "noise")
IsBlank(t) == t.part = "blank"
Line(m, k) ==
  <<Token(m, "start"), Token(m, "word")>> \o [i \in 1 .. k |-> Token(m, "blank")]
  \o <<Token(m, "end"), NewLine>>
Output(ks) == <<Noise, NewLine>> \o FlattenSeq([m \in 1 .. Len(ks) |-> Line(m, ks[m])])
NumMessages == Len(blanks)

\* json_line.strip()
Strip(line) ==
  LET kept == {i \in 1 .. Len(line) : ~IsBlank(line[i])}
      first == CHOOSE i \in kept : \A j \in kept : i <= j
      last == CHOOSE i \in kept : \A j \in kept : j <= i
  IN IF kept = {} THEN <<>> ELSE SubSeq(line, first, last)

\* clean_chunk.split("\n")
Lines(chunk) ==
  LET Add(ls, t) == IF t = NewLine THEN Append(ls, <<>>)
                    ELSE [ls EXCEPT ![Len(ls)] = Append(@, t)]
  IN FoldLeft(Add, << <<>> >>, chunk)

\* Before a message has begun, a line is skipped up to its first bracket.
FromBracket(line) ==
  LET opens == {i \in 1 .. Len(line) : line[i].part = "start"}
  IN IF opens = {} THEN <<>>
     ELSE SubSeq(line, CHOOSE i \in opens : \A j \in opens : i <= j, Len(line))

\* _parse_json_buffer: a message is complete with its end, and a line has but one.
Complete(text) == text # <<>> /\ Last(text).part = "end"
Message(text) ==
  LET blank == {i \in DOMAIN text : IsBlank(text[i])}
  IN [m |-> Head(text).m,
      rest |-> Len(text) - Cardinality(blank), blanks |-> Cardinality(blank)]

\* Mutant: what is incomplete at the end of a line is not kept.
ParseLine_ForgetsRest(p, line) ==
  LET stripped == Strip(line)
      text == p.buffer \o (IF p.started THEN stripped ELSE FromBracket(stripped))
  IN CASE p.stop \/ p.over \/ stripped = <<>> \/ text = <<>> -> p
       [] Len(text) > MaxBuffer ->
            [p EXCEPT !.over = TRUE, !.buffer = <<>>, !.started = TRUE]
       [] Complete(text) ->
            [p EXCEPT !.buffer = <<>>, !.started = FALSE,
                      !.out = Append(@, Message(text)),
                      !.stop = Head(text).m = NumMessages]
       [] OTHER -> [p EXCEPT !.buffer = <<>>, !.started = TRUE]

\* One turn of the loop over the lines of a chunk
ParseLine(p, line) ==
  LET stripped == Strip(line)
      text == p.buffer \o (IF p.started THEN stripped ELSE FromBracket(stripped))
  IN CASE p.stop \/ p.over \/ stripped = <<>> \/ text = <<>> -> p
       [] Len(text) > MaxBuffer ->
            [p EXCEPT !.over = TRUE, !.buffer = <<>>, !.started = TRUE]
       [] Complete(text) ->
            [p EXCEPT !.buffer = <<>>, !.started = FALSE,
                      !.out = Append(@, Message(text)),
                      !.stop = Head(text).m = NumMessages]
       [] OTHER -> [p EXCEPT !.buffer = text, !.started = TRUE]

Parsed(chunk) ==
  FoldLeft(ParseLine, [buffer |-> buffer, started |-> started, out |-> <<>>,
                       stop |-> FALSE, over |-> FALSE], Lines(chunk))

-----------------------------------------------------------------------------
Init ==
  /\ blanks \in Outputs /\ sent = 0 /\ cli = "off"
  /\ queue = <<>> /\ ready = FALSE /\ stdin = TRUE /\ exitError = None
  /\ monitor = "none" /\ closing = [c \in Closers |-> "no"]
  /\ reader = "off" /\ buffer = <<>> /\ started = FALSE /\ got = <<>>
  /\ clipped = {} /\ dropped = FALSE

\* commands.run starts the CLI, whose output may come before connect goes on.
StartProcess ==
  /\ cli = "off"
  /\ cli' = "running"
  /\ UNCHANGED <<blanks, sent, queue, ready, stdin, exitError, monitor, closing, parser,
                 dropped>>

\* The rest of connect, which does not look whether there was a close meanwhile
Connected ==
  /\ cli # "off" /\ monitor = "none"
  /\ monitor' = "waiting" /\ ready' = TRUE
  /\ UNCHANGED <<process, queue, stdin, exitError, closing, parser, dropped>>

\* on_stdout.  When the monitor is cancelled in its wait, so is the handling of events.
OnStdout ==
  /\ cli = "running" /\ monitor \in {"none", "waiting"} /\ Len(queue) < Cap
  /\ \E n \in 1 .. MaxChunk :   \* bound
       /\ sent + n <= Len(Output(blanks))
       /\ sent' = sent + n
       /\ queue' = Append(queue, SubSeq(Output(blanks), sent + 1, sent + n))
       \* strip() takes the blanks at the ends of a chunk.
       /\ clipped' = clipped \cup {Output(blanks)[i].m : i \in
            {j \in {sent + 1, sent + n} : IsBlank(Output(blanks)[j])}}
  /\ UNCHANGED <<blanks, cli, ready, stdin, exitError, monitor, closing, reader, buffer,
                 started, got, dropped>>

\* The process ends, at last when it has written all, or the connection to it does.
Exit ==
  /\ cli = "running"
  /\ \/ cli' = "finished" /\ sent = Len(Output(blanks))
     \/ cli' \in {"failed", "lost"}
  /\ UNCHANGED <<blanks, sent, queue, ready, stdin, exitError, monitor, closing, parser,
                 dropped>>

\* write, which fails when the sandbox cannot be reached
Write ==
  /\ ready /\ stdin
  /\ exitError' = "write"
  /\ UNCHANGED <<process, queue, ready, stdin, monitor, closing, parser, dropped>>

\* end_input, when it does not fail
EndInput ==
  /\ ready /\ stdin
  /\ stdin' = FALSE
  /\ UNCHANGED <<process, queue, ready, exitError, monitor, closing, parser, dropped>>

-----------------------------------------------------------------------------
\* put(self._SENTINEL) in the finally of _monitor_process: at once when there is room
PutSentinel ==
  IF Len(queue) < Cap
  THEN queue' = Append(queue, Sentinel) /\ monitor' = "done" /\ ready' = FALSE
  ELSE monitor' = "putting" /\ UNCHANGED <<queue, ready>>

\* Mutant: an exit code is not looked at.
ProcessEnds_NoError ==
  /\ monitor = "waiting" /\ cli \in {"finished", "failed", "lost"}
  /\ exitError' = IF cli = "lost" THEN "lost" ELSE exitError
  /\ PutSentinel
  /\ UNCHANGED <<process, stdin, closing, parser, dropped>>

\* command.wait() returns or raises.
ProcessEnds ==
  /\ monitor = "waiting" /\ cli \in {"finished", "failed", "lost"}
  /\ exitError' = IF cli = "finished" THEN exitError ELSE cli
  /\ PutSentinel
  /\ UNCHANGED <<process, stdin, closing, parser, dropped>>

\* There is room for it.
SentinelPut ==
  /\ monitor = "putting" /\ Len(queue) < Cap
  /\ PutSentinel
  /\ UNCHANGED <<process, stdin, exitError, closing, parser, dropped>>

-----------------------------------------------------------------------------
\* put_nowait(self._SENTINEL), whose QueueFull is ignored
PutNowait ==
  /\ queue' = IF Len(queue) < Cap THEN Append(queue, Sentinel) ELSE queue
  /\ dropped' = (dropped \/ Len(queue) >= Cap)

\* close cancels the monitor: in its wait it still puts the end marker, while it puts it,
\* it gives up.
CancelMonitor ==
  CASE monitor = "waiting" ->
         IF Len(queue) < Cap
         THEN queue' = Append(queue, Sentinel) /\ monitor' = "done"
         ELSE monitor' = "putting" /\ UNCHANGED queue
    [] monitor = "putting" -> monitor' = "done" /\ UNCHANGED queue
    [] OTHER -> UNCHANGED <<queue, monitor>>

\* There is no monitor and no process: before connect has returned, and after a close.
NothingToStop ==
  monitor = "none" \/ (monitor = "cleared" /\ \A c \in Closers : closing[c] # "kill")

\* close, up to its first await; without anything to stop it has none.
Close(c) ==
  /\ closing[c] = "no"
  /\ ready' = FALSE
  /\ IF NothingToStop
     THEN /\ closing' = [closing EXCEPT ![c] = "done"] /\ stdin' = TRUE
          /\ PutNowait
          /\ UNCHANGED monitor
     ELSE /\ closing' = [closing EXCEPT ![c] = "monitor"]
          /\ CancelMonitor
          /\ UNCHANGED <<stdin, dropped>>
  /\ UNCHANGED <<process, exitError, parser>>

\* It has waited for the monitor and kills the process.
Kill(c) ==
  /\ closing[c] = "monitor" /\ monitor \in {"done", "cleared"}
  /\ closing' = [closing EXCEPT ![c] = "kill"]
  /\ monitor' = "cleared"
  /\ cli' = IF cli = "running" THEN "killed" ELSE cli
  /\ UNCHANGED <<blanks, sent, queue, ready, stdin, exitError, parser, dropped>>

\* Mutant: only a monitor puts the end marker.
Closed_NoSentinel(c) ==
  /\ closing[c] = "kill"
  /\ closing' = [closing EXCEPT ![c] = "done"]
  /\ stdin' = TRUE
  /\ UNCHANGED <<process, queue, ready, exitError, monitor, parser, dropped>>

\* The rest of close
Closed(c) ==
  /\ closing[c] = "kill"
  /\ closing' = [closing EXCEPT ![c] = "done"]
  /\ stdin' = TRUE
  /\ PutNowait
  /\ UNCHANGED <<process, ready, exitError, monitor, parser>>

-----------------------------------------------------------------------------
\* read_messages; a transport that was never connected raises.
Read ==
  /\ reader = "off" /\ cli # "off"
  /\ reader' = IF ready \/ monitor \notin {"none", "cleared"} THEN "get" ELSE "failed"
  /\ UNCHANGED <<process, queue, ready, stdin, exitError, monitor, closing, buffer, started,
                 got, clipped, dropped>>

\* A chunk or the end marker
Get ==
  /\ reader = "get" /\ queue # <<>>
  /\ queue' = Tail(queue)
  /\ IF Head(queue) = Sentinel
     THEN reader' = "end" /\ UNCHANGED <<buffer, started, got>>
     ELSE LET p == Parsed(Head(queue)) IN
          /\ buffer' = p.buffer /\ started' = p.started /\ got' = got \o p.out
          /\ reader' = CASE p.over -> "failed" [] p.stop -> "end" [] OTHER -> "get"
  /\ UNCHANGED <<process, ready, stdin, exitError, monitor, closing, clipped, dropped>>

\* After the loop: what is left is no message, and an error of the process is raised.
Finish ==
  /\ reader = "end"
  /\ reader' = IF buffer # <<>> \/ exitError # None THEN "failed" ELSE "ended"
  /\ UNCHANGED <<process, queue, ready, stdin, exitError, monitor, closing, buffer, started,
                 got, clipped, dropped>>

\* The SDK cancels its reader.
ReaderCancelled ==
  /\ reader \in {"get", "end"}
  /\ reader' = "gone"
  /\ UNCHANGED <<process, queue, ready, stdin, exitError, monitor, closing, buffer, started,
                 got, clipped, dropped>>

Next ==
  \/ StartProcess \/ Connected \/ OnStdout \/ Exit \/ Write \/ EndInput
  \/ ProcessEnds \/ SentinelPut
  \/ \E c \in Closers : Close(c) \/ Kill(c) \/ Closed(c)
  \/ Read \/ Get \/ Finish \/ ReaderCancelled

Spec == Init /\ [][Next]_vars

-----------------------------------------------------------------------------
TypeOK ==
  /\ blanks \in Outputs /\ sent \in 0 .. Len(Output(blanks))
  /\ cli \in {"off", "running", "finished", "failed", "lost", "killed"}
  /\ Len(queue) <= Cap /\ ready \in BOOLEAN /\ stdin \in BOOLEAN
  /\ exitError \in {None, "failed", "lost", "write"}
  /\ monitor \in {"none", "waiting", "putting", "done", "cleared"}
  /\ closing \in [Closers -> {"no", "monitor", "kill", "done"}]
  /\ reader \in {"off", "get", "end", "ended", "failed", "gone"}
  /\ Len(buffer) <= MaxBuffer /\ started \in BOOLEAN
  /\ clipped \subseteq 0 .. NumMessages /\ dropped \in BOOLEAN

\* The messages come in their order and once, wherever the output was cut, and with all
\* of their text unless a cut lay beside a blank.
MessagesAsWritten ==
  \A i \in DOMAIN got :
    /\ got[i].m = i
    /\ got[i].rest = 3
    /\ got[i].blanks = blanks[i] \/ i \in clipped

\* A reader that ends without an error has read the result, unless the transport was
\* closed: a CLI that failed or was lost is never taken for one that finished.
EndIsTrue ==
  reader = "ended" /\ Len(got) < NumMessages =>
    \E c \in Closers : closing[c] # "no"

\* A reader that waits is woken, by output or by the end marker, unless close found the
\* queue full.
WaitHasEnd ==
  reader = "get" /\ queue = <<>> =>
    \/ cli \in {"running", "finished", "failed", "lost"} /\ monitor \in {"none", "waiting"}
    \/ monitor = "putting" \/ \E c \in Closers : closing[c] \in {"monitor", "kill"}
    \/ dropped
=============================================================================
