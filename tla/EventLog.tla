------------------------------ MODULE EventLog ------------------------------
(***************************************************************************)
(* The log of one message in the browser: how a chunk is appended to its   *)
(* two copies, the one of the page (React state, applied when the page     *)
(* renders) and the one of the query cache, through the cache of parsed    *)
(* contents that both share.                                               *)
(*   frontend utils/stream.ts, hooks/useStreamCallbacks.ts (onChunk),      *)
(*   hooks/useMessageCache.ts, useStreamReconnect.ts (the reset before a   *)
(*   replay), components/chat/message-bubble/MessageRenderer.tsx           *)
(*                                                                         *)
(* parseEventLog returns, on a miss, the array it has just put into its    *)
(* cache, and appendEventToLog pushes into the array it is given: an       *)
(* append that misses leaves in the cache, under the old content, the      *)
(* events of the new one.  A content is the sequence of its events; two    *)
(* contents do not share a key here.                                       *)
(***************************************************************************)
EXTENDS Naturals, Sequences, FiniteSets, SequencesExt

CONSTANTS
  Messages,
  Nobody,        \* no message is on screen
  MaxEvents,     \* bound: events of one message
  MaxReplays,    \* bound: replays
  MaxSwitches,   \* bound: changes of what is on screen
  CacheSize      \* PARSE_CACHE_MAX_SIZE

VARIABLES
  parsed,        \* parseCache: content -> events
  age,           \* its contents, oldest first
  stored,        \* query cache: message -> content
  shown,         \* the message whose list the page holds
  visible,       \* the list is drawn (the `agent' view is the current one)
  view,          \* the page's copy of the message shown
  queue,         \* state updates waiting for the render: events or a reset
  early,         \* the content React computed at once for the first of them
  pos,           \* message -> events its source has delivered
  replays,
  switches,
  missed         \* (history) an append found its content not parsed

vars == <<parsed, age, stored, shown, visible, view, queue, early, pos, replays,
          switches, missed>>

Event(m, i) == <<m, i>>
Upto(m, n) == [i \in 1 .. n |-> Event(m, i)]
Reset == <<>>
NotComputed == "none"

-----------------------------------------------------------------------------
(* A memory is the parse cache: [parsed, age]. *)

Memory == [parsed |-> parsed, age |-> age]
Hit(mem, content) == content \in DOMAIN mem.parsed

\* Mutant: nothing is evicted.
Put_Unbounded(mem, content, events) ==
  [parsed |-> [c \in DOMAIN mem.parsed \cup {content} |->
                 IF c = content THEN events ELSE mem.parsed[c]],
   age |-> Append(mem.age, content)]

\* parseCache.set, after the oldest entry went when it is full
Put(mem, content, events) ==
  LET full == Len(mem.age) >= CacheSize
      kept == IF full THEN Tail(mem.age) ELSE mem.age
  IN [parsed |-> [c \in Range(kept) \cup {content} |->
                    IF c = content THEN events ELSE mem.parsed[c]],
      age |-> Append(kept, content)]

\* parseEventLog for a reader, which does not change what it gets
Parse(mem, content) == IF Hit(mem, content) THEN mem ELSE Put(mem, content, content)

\* Mutant: a hit is not copied either.
AppendEventToLog_Shares(mem, content, event) ==
  LET old == IF Hit(mem, content) THEN mem.parsed[content] ELSE content
      new == Append(old, event)
  IN [mem |-> IF Hit(mem, content) THEN [mem EXCEPT !.parsed[content] = new]
                                   ELSE Put(mem, content, new),
      content |-> new, missed |-> ~Hit(mem, content)]

\* appendEventToLog: a hit gives a copy, a miss the entry itself.
AppendEventToLog(mem, content, event) ==
  IF Hit(mem, content)
  THEN [mem |-> mem, content |-> Append(mem.parsed[content], event), missed |-> FALSE]
  ELSE [mem |-> Put(mem, content, Append(content, event)),
        content |-> Append(content, event), missed |-> TRUE]

-----------------------------------------------------------------------------
Init ==
  /\ parsed = [c \in {} |-> <<>>] /\ age = <<>>
  /\ stored = [m \in Messages |-> <<>>]
  /\ shown = Nobody /\ visible = TRUE /\ view = <<>>
  /\ queue = <<>> /\ early = NotComputed
  /\ pos = [m \in Messages |-> 0]
  /\ replays = 0 /\ switches = 0
  /\ missed = FALSE

\* onChunk: the page's updater is queued, and React may compute the first one
\* of a queue at once; the query cache is written at once.
Chunk(m, eager) ==
  LET e == Event(m, pos[m] + 1)
      mine == m = shown
      now == mine /\ eager /\ queue = <<>>
      first == AppendEventToLog(Memory, view, e)
      mem == IF now THEN first.mem ELSE Memory
      second == AppendEventToLog(mem, stored[m], e)
  IN
  /\ pos[m] < MaxEvents
  /\ eager => mine /\ queue = <<>>
  /\ pos' = [pos EXCEPT ![m] = @ + 1]
  /\ queue' = IF mine THEN Append(queue, e) ELSE queue
  /\ early' = IF now THEN first.content ELSE early
  /\ stored' = [stored EXCEPT ![m] = second.content]
  /\ parsed' = second.mem.parsed /\ age' = second.mem.age
  /\ missed' = (missed \/ second.missed \/ (now /\ first.missed))
  /\ UNCHANGED <<shown, visible, view, replays, switches>>

\* One updater of the queue on a copy
Applied(acc, update) ==
  IF update = Reset THEN [acc EXCEPT !.content = <<>>]
  ELSE LET a == AppendEventToLog(acc.mem, acc.content, update)
       IN [mem |-> a.mem, content |-> a.content, missed |-> acc.missed \/ a.missed]

\* The queue on the page's copy; what was computed at once is not done again.
Flushed ==
  LET start == IF early = NotComputed
               THEN [mem |-> Memory, content |-> view, missed |-> FALSE]
               ELSE [mem |-> Memory, content |-> early, missed |-> FALSE]
      rest == IF early = NotComputed THEN queue ELSE Tail(queue)
  IN FoldLeft(Applied, start, rest)

\* MessageRenderer: a drawn list parses its contents.
Drawn(mem, content) == IF visible THEN Parse(mem, content) ELSE mem

\* The page renders: it applies the queue and draws the message.
Render ==
  LET f == Flushed
      mem == Drawn(f.mem, f.content)
  IN
  /\ queue # <<>>
  /\ view' = f.content
  /\ queue' = <<>> /\ early' = NotComputed
  /\ parsed' = mem.parsed /\ age' = mem.age
  /\ missed' = (missed \/ f.missed)
  /\ UNCHANGED <<stored, shown, visible, pos, replays, switches>>

\* Another list comes on screen (useMessageInitialization): it is taken from
\* the query cache and drawn.  Updates that wait are lost with the old page.
Show(m) ==
  LET mem == Drawn(Memory, stored[m])
  IN
  /\ m # shown /\ switches < MaxSwitches
  /\ switches' = switches + 1
  /\ shown' = m /\ view' = stored[m]
  /\ queue' = <<>> /\ early' = NotComputed
  /\ parsed' = mem.parsed /\ age' = mem.age
  /\ UNCHANGED <<stored, visible, pos, replays, missed>>

\* The current view changes from the agent's or back to it.
SwitchView ==
  LET mem == IF visible \/ shown = Nobody THEN Memory ELSE Parse(Memory, view)
  IN
  /\ switches < MaxSwitches /\ queue = <<>>
  /\ switches' = switches + 1
  /\ visible' = ~visible
  /\ parsed' = mem.parsed /\ age' = mem.age
  /\ UNCHANGED <<stored, shown, view, queue, early, pos, replays, missed>>

\* Mutant: only the query cache is emptied.
Replay_KeepsView(m) ==
  /\ replays < MaxReplays /\ pos[m] > 0
  /\ replays' = replays + 1
  /\ pos' = [pos EXCEPT ![m] = 0]
  /\ stored' = [stored EXCEPT ![m] = <<>>]
  /\ UNCHANGED <<parsed, age, shown, visible, view, queue, early, switches, missed>>

\* checkActiveTask empties both copies; the source starts from the beginning.
Replay(m) ==
  /\ replays < MaxReplays /\ pos[m] > 0
  /\ replays' = replays + 1
  /\ pos' = [pos EXCEPT ![m] = 0]
  /\ stored' = [stored EXCEPT ![m] = <<>>]
  /\ queue' = IF m = shown THEN Append(queue, Reset) ELSE queue
  /\ UNCHANGED <<parsed, age, shown, visible, view, early, switches, missed>>

Next ==
  \/ \E m \in Messages : \/ \E eager \in BOOLEAN : Chunk(m, eager)
                         \/ Show(m) \/ Replay(m)
  \/ Render \/ SwitchView

Spec == Init /\ [][Next]_vars

-----------------------------------------------------------------------------
(* Properties *)

\* The page's copy once what waits is applied
Shown == Flushed.content

\* The messages' copies are contents, and the parse cache is bounded and in
\* the order of its entries' age.
TypeOK ==
  /\ \A m \in Messages : pos[m] \in 0 .. MaxEvents
  /\ Range(age) = DOMAIN parsed /\ Len(age) = Cardinality(DOMAIN parsed)
  /\ Len(age) <= CacheSize
  /\ early = NotComputed \/ queue # <<>>

\* appendEventToLog: as long as each append finds its content parsed (the
\* message was drawn since its last chunk), both copies are the events
\* delivered, once each and in order, through replays and changes of screen.
ExactWhenParsed ==
  ~missed => /\ \A m \in Messages : stored[m] = Upto(m, pos[m])
             /\ shown # Nobody => Shown = Upto(shown, pos[shown])

\* Whatever the shared arrays do, no copy loses an event its source has
\* delivered, and its own events stay in order (a repeat is next to its
\* original): aliasing only ever adds.
Own(log, m) == SelectSeq(log, LAMBDA e : e[1] = m)
InOrder(log, m) ==
  LET own == Own(log, m)
  IN /\ Range(own) = Range(Upto(m, pos[m]))
     /\ \A i \in 1 .. Len(own) - 1 : own[i][2] \in {own[i + 1][2] - 1, own[i + 1][2]}
NothingLost ==
  /\ \A m \in Messages : InOrder(stored[m], m)
  /\ shown # Nobody => InOrder(Shown, shown)

\* An entry of the parse cache is its content, or its content and one event
\* more: what an append has left behind is never pushed into again.
OneEventAhead ==
  \A c \in DOMAIN parsed : IsPrefix(c, parsed[c]) /\ Len(parsed[c]) <= Len(c) + 1
=============================================================================
