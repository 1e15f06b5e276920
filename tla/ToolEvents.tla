----------------------------- MODULE ToolEvents -----------------------------
(***************************************************************************)
(* From the messages of the CLI to the events of one turn.                 *)
(*   backend services/streaming/processor.py and tool_handler.py           *)
(*   backend services/claude_agent.py, get_ai_stream's loop, and           *)
(*   tasks/chat_processor.py, _process_stream_events, which takes the      *)
(*   events one at a time and may be cancelled between two of them         *)
(*                                                                         *)
(* A name and an input belong to a tool's id.  A result says which call it *)
(* answers and nothing else: what its event says of the tool comes from    *)
(* the registry.                                                           *)
(***************************************************************************)
EXTENDS Naturals, Sequences, SequencesExt, FiniteSets

CONSTANTS
  Tools,        \* calls of a tool; a call runs in the agent of an earlier one, or in none
  ExitPlanMode, \* the call of that name, if there is one
  NoTool,       \* no parent, and the id of a block that has none
  MaxBlocks,    \* bound: blocks of a message
  MaxEvents     \* bound: events of the turn

VARIABLES
  cli,      \* call -> "new", "running" or "over", for the CLI (external)
  parent,   \* call -> the call whose agent makes it, or NoTool (external)
  blocks,   \* what is left of the message: [kind, id, parent, is_error]
  active,   \* _active: [id, parent]
  events,   \* the events published: [kind, id, known, parent]
  step,     \* "take" a message or block, "mode" after ExitPlanMode, or "over"
  mode      \* the permission mode the client has set

vars == <<cli, parent, blocks, active, events, step, mode>>

Block(k, t, p, e) == [kind |-> k, id |-> t, parent |-> p, is_error |-> e]
Event(k, t, n, p) == [kind |-> k, id |-> t, known |-> n, parent |-> p]
Of(set, t) == {s \in set : s.id = t}

\* A call that was under way in an earlier turn may be answered in this one.
Init ==
  /\ cli \in [Tools -> {"new", "running"}]
  /\ parent = [t \in Tools |-> NoTool]
  /\ blocks = <<>> /\ active = {} /\ events = <<>> /\ step = "take" /\ mode = "plan"

-----------------------------------------------------------------------------
(* Messages of the CLI (external) *)

Listens == step = "take" /\ blocks = <<>> /\ Len(events) < MaxEvents   \* bound

\* An AssistantMessage of the agent that call p runs, with text or thinking (which may be
\* empty), calls, and blocks without an id.
AssistantMessage ==
  /\ Listens
  /\ \E p \in {NoTool} \cup {q \in Tools : cli[q] = "running"} :
     \E calls \in SUBSET {t \in Tools : cli[t] = "new" /\ (p = NoTool \/ p < t)} :
     \E others \in SUBSET {Block("text", NoTool, p, FALSE), Block("empty", NoTool, p, FALSE),
                           Block("use", NoTool, p, FALSE)} :
     \E s \in SetToSeqs({Block("use", t, p, FALSE) : t \in calls} \cup others) :
       /\ Len(s) \in 1 .. MaxBlocks
       /\ blocks' = s
       /\ cli' = [t \in Tools |-> IF t \in calls THEN "running" ELSE cli[t]]
       /\ parent' = [t \in Tools |-> IF t \in calls THEN p ELSE parent[t]]
  /\ UNCHANGED <<active, events, step, mode>>

\* A UserMessage with text, and with the results of calls whose agents, if any, have no
\* call left.
UserMessage ==
  /\ Listens
  /\ \E done \in SUBSET {t \in Tools : /\ cli[t] = "running"
                                       /\ \A u \in Tools : parent[u] = t => cli[u] = "over"} :
     \E failed \in SUBSET done :
     \E text \in SUBSET {Block("text", NoTool, NoTool, FALSE)} :
     \E s \in SetToSeqs({Block("result", t, NoTool, t \in failed) : t \in done} \cup text) :
       /\ Len(s) \in 1 .. MaxBlocks
       /\ blocks' = s
       /\ cli' = [t \in Tools |-> IF t \in done THEN "over" ELSE cli[t]]
  /\ UNCHANGED <<parent, active, events, step, mode>>

-----------------------------------------------------------------------------
(* _emit_block_events, _emit_user_item_event and the registry *)

\* Mutant: the agent a call belongs to is not kept.
StartTool_ForgetsParent(b) ==
  IF b.id = NoTool THEN UNCHANGED <<active, events>>
  ELSE /\ active' = (active \ Of(active, b.id)) \cup {[id |-> b.id, parent |-> NoTool]}
       /\ events' = Append(events, Event("started", b.id, TRUE, b.parent))

\* start_tool; a call without an id is not told of.
StartTool(b) ==
  IF b.id = NoTool THEN UNCHANGED <<active, events>>
  ELSE /\ active' = (active \ Of(active, b.id)) \cup {[id |-> b.id, parent |-> b.parent]}
       /\ events' = Append(events, Event("started", b.id, TRUE, b.parent))

\* Mutant: a call that failed stays active.
FinishTool_KeepsFailed(b) ==
  LET states == Of(active, b.id)
      kind == IF b.is_error THEN "failed" ELSE "completed"
  IN /\ active' = IF b.is_error THEN active ELSE active \ states
     /\ events' = Append(events,
          IF states = {} THEN Event(kind, b.id, FALSE, NoTool)
          ELSE Event(kind, b.id, TRUE, (CHOOSE s \in states : TRUE).parent))

\* finish_tool; a result of a call that is not active is one of an unknown tool.
FinishTool(b) ==
  LET states == Of(active, b.id)
      kind == IF b.is_error THEN "failed" ELSE "completed"
  IN /\ active' = active \ states
     /\ events' = Append(events,
          IF states = {} THEN Event(kind, b.id, FALSE, NoTool)
          ELSE Event(kind, b.id, TRUE, (CHOOSE s \in states : TRUE).parent))

\* One block, and its event if it has one.  After any event that names ExitPlanMode the
\* generator, once it is asked for more, sets the mode.
EmitBlock ==
  /\ step = "take" /\ blocks # <<>>
  /\ LET b == Head(blocks)
     IN CASE b.kind = "use" -> StartTool(b)
          [] b.kind = "result" -> FinishTool(b)
          [] b.kind = "text" -> /\ events' = Append(events, Event("text", NoTool, FALSE, NoTool))
                                /\ UNCHANGED active
          [] OTHER -> UNCHANGED <<active, events>>
  /\ blocks' = Tail(blocks)
  /\ step' = IF /\ events' # events
                /\ Last(events').id = ExitPlanMode /\ Last(events').known THEN "mode" ELSE "take"
  /\ UNCHANGED <<cli, parent, mode>>

SetPermissionMode ==
  /\ step = "mode"
  /\ mode' = "auto" /\ step' = "take"
  /\ UNCHANGED <<cli, parent, blocks, active, events>>

\* The ResultMessage, an error of the SDK or a cancellation, between two events.
End ==
  /\ step # "over"
  /\ step' = "over"
  /\ UNCHANGED <<cli, parent, blocks, active, events, mode>>

Next == \/ AssistantMessage \/ UserMessage \/ EmitBlock \/ SetPermissionMode \/ End

Spec == Init /\ [][Next]_vars

-----------------------------------------------------------------------------
TypeOK ==
  /\ cli \in [Tools -> {"new", "running", "over"}]
  /\ parent \in [Tools -> Tools \cup {NoTool}]
  /\ \A i \in DOMAIN blocks : blocks[i].kind \in {"use", "result", "text", "empty"}
  /\ active \subseteq [id : Tools, parent : Tools \cup {NoTool}]
  /\ \A i \in DOMAIN events : events[i].kind \in {"started", "failed", "completed", "text"}
  /\ step \in {"take", "mode", "over"} /\ mode \in {"plan", "auto"}

Started(t, n) == \E i \in 1 .. n : events[i].kind = "started" /\ events[i].id = t

\* An event that ends a call says what the event that started it said, its agent included,
\* and calls it unknown only if this turn did not start it, whatever came between.
EndNamesItsCall ==
  \A i \in DOMAIN events : events[i].kind \in {"completed", "failed"} =>
    /\ events[i].known <=> Started(events[i].id, i - 1)
    /\ events[i].known => events[i].parent = parent[events[i].id]

\* The calls that are drawn as running are those the registry holds, and no call is
\* started or ended twice: what a turn leaves open when it is cut off is just what the
\* CLI has not answered, or has answered in what is left of its last message.
OpenIsActive ==
  LET Ends(t) == {i \in DOMAIN events : events[i].id = t
                                        /\ events[i].kind \in {"completed", "failed"}}
      Starts(t) == {i \in DOMAIN events : events[i].id = t /\ events[i].kind = "started"}
      Left == {blocks[i].id : i \in DOMAIN blocks}
  IN \A t \in Tools :
       /\ Cardinality(Starts(t)) <= 1 /\ Cardinality(Ends(t)) <= 1
       /\ (Of(active, t) # {}) <=> (Starts(t) # {} /\ Ends(t) = {})
       /\ (Of(active, t) # {} /\ t \notin Left) => cli[t] = "running"
=============================================================================
