--------------------------- MODULE SegmentBuilder ---------------------------
(***************************************************************************)
(* How the browser turns the event log of one assistant message into what *)
(* it draws: frontend components/chat/message-bubble/segmentBuilder.ts.    *)
(* buildSegments folds over the log from the start on every change, so the *)
(* state after n steps is exactly what is drawn for the first n events.    *)
(*                                                                         *)
(* A tool aggregate is a tree held BY VALUE: a parent keeps a copy of each *)
(* child, the tool map keeps another, the root segment a third.  What can  *)
(* go wrong is that those copies part: events come child before parent,    *)
(* and a later event may move a tool to another parent.                    *)
(*                                                                         *)
(* Of a payload only the identifier, the status and the parent are kept;   *)
(* texts, inputs and results are left out.  Parents are numbered below     *)
(* their children (a call tree has no cycle).                              *)
(***************************************************************************)
EXTENDS Naturals, Sequences, FiniteSets, SequencesExt

CONSTANTS
  Tools,      \* tool ids: a call's parent has a smaller number
  Null,       \* parent_id = null
  Undefined,  \* parent_id missing from the payload
  MaxEvents   \* bound: events of the message

VARIABLES
  context,      \* the four structures passed through the tool functions
  pendingText,  \* number of text events not flushed yet
  events,       \* events folded so far
  moved,        \* (history) tools that changed parent while queued under the old one
  outdated      \* (history) tools whose copy in a queue fell behind the tool map

vars == <<context, pendingText, events, moved, outdated>>

Statuses == {"started", "completed", "failed"}

\* The payload of a tool event.
ToolEvent == [id : Tools, status : Statuses,
              parent_id : Tools \cup {Null, Undefined}]

Put(m, k, v) == [x \in DOMAIN m \cup {k} |-> IF x = k THEN v ELSE m[x]]
Without(m, k) == [x \in DOMAIN m \ {k} |-> m[x]]

-----------------------------------------------------------------------------
(* The pieces, on a context c *)

UpdateSegmentTool(c, t, aggregate) ==
  IF t \in DOMAIN c.index
  THEN [c EXCEPT !.segments[c.index[t]].tool = aggregate]
  ELSE c

\* toolMap.set followed by updateSegmentTool, as the code always does.
SetTool(c, aggregate) ==
  UpdateSegmentTool([c EXCEPT !.toolMap = Put(@, aggregate.id, aggregate)],
                    aggregate.id, aggregate)

\* Replace the copy of `child' in its parent, that parent's copy in its own
\* parent, and so on up to the root or to a parent that is not known.
\* Mutant: the direct parent only.
UpdateOneParent(c, child) ==
  IF child.parentId \notin DOMAIN c.toolMap THEN c
  ELSE LET parent == c.toolMap[child.parentId]
       IN SetTool(c, [parent EXCEPT !.children =
            [i \in DOMAIN parent.children |->
               IF parent.children[i].id = child.id THEN child ELSE parent.children[i]]])

UpdateParentChain(c, child) ==
  LET Lift(s) ==
        IF s.child.parentId \notin DOMAIN s.c.toolMap THEN s
        ELSE LET parent == s.c.toolMap[s.child.parentId]
                 kids == [i \in DOMAIN parent.children |->
                            IF parent.children[i].id = s.child.id
                            THEN s.child ELSE parent.children[i]]
                 updatedParent == [parent EXCEPT !.children = kids]
             IN [c |-> SetTool(s.c, updatedParent), child |-> updatedParent]
      climb[n \in 0 .. Cardinality(Tools)] ==
        IF n = 0 THEN [c |-> c, child |-> child] ELSE Lift(climb[n - 1])
  IN climb[Cardinality(Tools)].c

PushTool(c, aggregate, at) ==
  [c EXCEPT !.segments = Append(@, [kind |-> "tool", at |-> at, tool |-> aggregate]),
            !.index = Put(@, aggregate.id, Len(c.segments) + 1)]

CreateToolAggregate(ev) ==
  [id |-> ev.id, status |-> ev.status, children |-> <<>>,
   parentId |-> IF ev.parent_id = Undefined THEN Null ELSE ev.parent_id]

Waiting(c, p) == IF p \in DOMAIN c.pendingChildren THEN c.pendingChildren[p] ELSE <<>>

AttachPendingChildren(c, aggregate) ==
  [aggregate EXCEPT !.children = @ \o Waiting(c, aggregate.id)]

\* Mutant: the orphan is dropped instead of queued.
DropOrphan(c, child, p) ==
  IF p \notin DOMAIN c.toolMap \/ \E i \in DOMAIN c.toolMap[p].children :
                                     c.toolMap[p].children[i].id = child.id
  THEN c
  ELSE LET updatedParent == [c.toolMap[p] EXCEPT !.children = Append(@, child)]
       IN UpdateParentChain(SetTool(c, updatedParent), updatedParent)

AddChildToParent(c, child, p) ==
  IF p \notin DOMAIN c.toolMap
  THEN [c EXCEPT !.pendingChildren = Put(@, p, Append(Waiting(c, p), child))]
  ELSE IF \E i \in DOMAIN c.toolMap[p].children : c.toolMap[p].children[i].id = child.id
  THEN c
  ELSE LET updatedParent == [c.toolMap[p] EXCEPT !.children = Append(@, child)]
       IN UpdateParentChain(SetTool(c, updatedParent), updatedParent)

\* Mutant: the previous parent keeps the child.
LeaveWithPreviousParent(c, t, p) == c

RemoveFromPreviousParent(c, t, p) ==
  IF p \notin DOMAIN c.toolMap THEN c
  ELSE LET updatedParent == [c.toolMap[p] EXCEPT !.children =
                               SelectSeq(@, LAMBDA child : child.id # t)]
       IN UpdateParentChain(SetTool(c, updatedParent), updatedParent)

\* Mutant: the indices after the removed segment are not shifted.
RemoveWithoutShift(c, t) ==
  IF t \notin DOMAIN c.index THEN c
  ELSE [c EXCEPT !.segments = RemoveAt(@, c.index[t]), !.index = Without(@, t)]

RemoveToolFromRootSegments(c, t) ==
  IF t \notin DOMAIN c.index THEN c
  ELSE [c EXCEPT
          !.segments = RemoveAt(@, c.index[t]),
          !.index = [u \in DOMAIN @ \ {t} |-> IF @[u] > @[t] THEN @[u] - 1 ELSE @[u]]]

HandleParentChange(c, aggregate, previousParent, at) ==
  LET detached == IF previousParent = Null THEN c
                  ELSE RemoveFromPreviousParent(c, aggregate.id, previousParent)
  IN IF aggregate.parentId # Null
     THEN AddChildToParent(RemoveToolFromRootSegments(detached, aggregate.id),
                           aggregate, aggregate.parentId)
     ELSE IF aggregate.id \notin DOMAIN detached.index
     THEN PushTool(detached, aggregate, at)
     ELSE detached

ProcessNewTool(c, ev, at) ==
  LET aggregate == AttachPendingChildren(c, CreateToolAggregate(ev))
      known == [c EXCEPT !.toolMap = Put(@, ev.id, aggregate),
                         !.pendingChildren = Without(@, ev.id)]
  IN IF aggregate.parentId # Null
     THEN AddChildToParent(known, aggregate, aggregate.parentId)
     ELSE PushTool(known, aggregate, at)

ProcessExistingTool(c, ev, at) ==
  LET existing == c.toolMap[ev.id]
      changes == ev.parent_id # Undefined /\ ev.parent_id # existing.parentId
      updated == [existing EXCEPT !.status = ev.status,
                                  !.parentId = IF changes THEN ev.parent_id ELSE @]
      placed == IF changes THEN HandleParentChange(c, updated, existing.parentId, at) ELSE c
  IN UpdateParentChain(SetTool(placed, updated), updated)

ProcessToolEvent(c, ev, at) ==
  IF ev.id \in DOMAIN c.toolMap THEN ProcessExistingTool(c, ev, at)
                                ELSE ProcessNewTool(c, ev, at)

FlushText(c) ==
  IF pendingText = 0 THEN c
  ELSE [c EXCEPT !.segments =
          Append(@, [kind |-> "text", at |-> events - pendingText + 1,
                     length |-> pendingText])]

-----------------------------------------------------------------------------
(* buildSegments: one step per event of the log *)

Empty == [k \in {} |-> Null]

Init ==
  /\ context = [toolMap |-> Empty, pendingChildren |-> Empty, index |-> Empty,
                segments |-> <<>>]
  /\ pendingText = 0
  /\ events = 0
  /\ moved = {}
  /\ outdated = {}

\* assistant_text and user_text
Text ==
  /\ events < MaxEvents
  /\ pendingText' = pendingText + 1
  /\ events' = events + 1
  /\ UNCHANGED <<context, moved, outdated>>

\* assistant_thinking and code_review
Block(kind) ==
  /\ events < MaxEvents
  /\ context' = [FlushText(context) EXCEPT !.segments =
                   Append(@, [kind |-> kind, at |-> events + 1])]
  /\ pendingText' = 0
  /\ events' = events + 1
  /\ UNCHANGED <<moved, outdated>>

Copies(seq) == {seq[i] : i \in DOMAIN seq}
Queued(c) == UNION {Copies(c.pendingChildren[p]) : p \in DOMAIN c.pendingChildren}

\* Tools on the way from t up whose copy an event of t has just replaced.
Refreshed(c, t) ==
  LET Up(s) == s \cup {c.toolMap[u].parentId : u \in s \cap DOMAIN c.toolMap}
      reach[n \in 0 .. Cardinality(Tools)] == IF n = 0 THEN {t} ELSE Up(reach[n - 1])
  IN {u \in reach[Cardinality(Tools)] \cap DOMAIN c.toolMap :
        c.toolMap[u].parentId \in DOMAIN c.toolMap}

\* Mutant: the text before a tool is not flushed.
ToolWithoutFlush(ev) ==
  /\ events < MaxEvents
  /\ context' = ProcessToolEvent(context, ev, events + 1)
  /\ pendingText' = pendingText
  /\ events' = events + 1
  /\ UNCHANGED <<moved, outdated>>

\* tool_started, tool_completed and tool_failed
Tool(ev) ==
  LET c == ProcessToolEvent(FlushText(context), ev, events + 1)
  IN
  /\ events < MaxEvents
  /\ context' = c
  /\ pendingText' = 0
  /\ events' = events + 1
  /\ moved' = moved \cup {t \in DOMAIN context.toolMap :
                            /\ \E q \in Queued(context) : q.id = t
                            /\ c.toolMap[t].parentId # context.toolMap[t].parentId}
  /\ outdated' = (outdated \cup {q.id : q \in {d \in Queued(c) : d # c.toolMap[d.id]}})
                   \ Refreshed(c, ev.id)

Next ==
  \/ Text
  \/ \E kind \in {"thinking", "review"} : Block(kind)
  \/ \E ev \in ToolEvent :
       /\ ev.parent_id \in Nat => ev.parent_id < ev.id
       /\ Tool(ev)

Spec == Init /\ [][Next]_vars

-----------------------------------------------------------------------------
(* What is drawn *)

toolMap == context.toolMap
Holders(t) == {p \in DOMAIN toolMap : \E i \in DOMAIN toolMap[p].children :
                                         toolMap[p].children[i].id = t}

\* The structures have their shapes, and the index is a partial map.
TypeOK ==
  /\ DOMAIN toolMap \subseteq Tools
  /\ \A t \in DOMAIN toolMap : /\ toolMap[t].id = t
                               /\ toolMap[t].status \in Statuses
                               /\ toolMap[t].parentId \in Tools \cup {Null}
  /\ DOMAIN context.pendingChildren \subseteq Tools
  /\ DOMAIN context.index \subseteq DOMAIN toolMap
  /\ pendingText \in 0 .. events /\ events \in 0 .. MaxEvents
  /\ moved \subseteq Tools /\ outdated \subseteq Tools

\* segmentIndexByToolId names, for exactly the root tools, the place of their
\* segment, and the segment holds the aggregate of the tool map: the index
\* survives the splice of a root that becomes a child (lines 183-200).
IndexAgrees ==
  /\ \A t \in DOMAIN context.index :
       LET i == context.index[t]
       IN /\ i \in DOMAIN context.segments
          /\ context.segments[i].kind = "tool"
          /\ context.segments[i].tool = toolMap[t]
  /\ \A i \in DOMAIN context.segments :
       context.segments[i].kind = "tool" =>
          \E t \in DOMAIN context.index : context.index[t] = i

\* No tool is lost whatever the order of the events: it is a root, or a child
\* of its parent, or waits in its parent's queue (lines 110-112).
EveryToolIsPlaced ==
  \A t \in DOMAIN toolMap :
    LET p == toolMap[t].parentId
    IN IF p = Null THEN t \in DOMAIN context.index
       ELSE IF p \in DOMAIN toolMap THEN p \in Holders(t)
       ELSE \E q \in Copies(Waiting(context, p)) : q.id = t

\* A tool is drawn in one place only, even after it changed parent: never as a
\* root and a child, never under two parents.  Only a tool moved while it was
\* queued escapes, because nothing takes it out of the old parent's queue.
DrawnOnce ==
  \A t \in DOMAIN toolMap \ moved :
    /\ t \in DOMAIN context.index => toolMap[t].parentId = Null
    /\ Holders(t) \subseteq {toolMap[t].parentId}
    /\ \A p \in Holders(t) :
         Cardinality({i \in DOMAIN toolMap[p].children :
                        toolMap[p].children[i].id = t}) = 1

\* The copy of a child that its parent shows is the one of the tool map, at
\* every depth (lines 65-68), unless the copy waited in a queue while the tool
\* changed and no later event of its subtree has refreshed it.
NestedIsCurrent ==
  \A p \in DOMAIN toolMap : \A kid \in Copies(toolMap[p].children) :
    kid.id \notin moved \cup outdated => kid = toolMap[kid.id]

\* Segments stand in the order their first event came: text is flushed before
\* whatever follows it, and moving a tool does not reorder the others.
InOrder ==
  \A i, j \in DOMAIN context.segments :
    i < j => context.segments[i].at < context.segments[j].at
=============================================================================
