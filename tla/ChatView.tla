------------------------------ MODULE ChatView ------------------------------
(***************************************************************************)
(* The browser's side of a chat: the page with its stream state, the store *)
(* of open event sources, the query cache of messages, and the calls that  *)
(* are under way while the user moves from chat to chat.                   *)
(*   frontend store/streamStore.ts, services/streamService.ts,             *)
(*   hooks/useChatStreaming.ts, useStreamCallbacks.ts,                     *)
(*   useMessageActions.ts, useMessageCache.ts, useMessageInitialization.ts,*)
(*   useStreamReconnect.ts, useStreamRestoration.ts, useGlobalStream.ts,   *)
(*   useChatData.ts, pages/ChatPage.tsx                                    *)
(*                                                                         *)
(* One ChatPage serves every chat: going to another chat changes its       *)
(* chatId and keeps its state setters, going to another page unmounts it,  *)
(* and a later visit is a new instance.  What was started for one chat or  *)
(* one instance therefore returns into whatever is shown by then.          *)
(*                                                                         *)
(* The server is a list of turns that grow and end (ChatTask and           *)
(* StreamReader refine it); turns of one chat do not overlap here.  Only   *)
(* assistant messages are kept, as sequences of <<turn, event>>.           *)
(***************************************************************************)
EXTENDS Naturals, Sequences, FiniteSets, FiniteSetsExt, SequencesExt

CONSTANTS
  Chats,
  NoChat,      \* the page shown is not a chat
  Absent,      \* a message that a list does not hold
  NumTurns,    \* bound: turns
  MaxEvents,   \* bound: events of one turn
  MaxSources,  \* bound: event sources opened
  MaxMoves,    \* bound: visits to another chat or page, and reloads
  MaxErrors    \* bound: connection errors and failing posts

VARIABLES
  turns,       \* server: sequence of [chat, len, done]
  stops,       \* chats with a DELETE .../stream under way
  page,        \* state of the ChatPage instance on screen
  cache,       \* query cache: message -> events held, or Absent
  store,       \* streams, index by chat and message, metadata
  posts,       \* chat -> the POST of sendMessage
  checks,      \* chat -> the status call of useStreamReconnect
  restoring,   \* chats useStreamRestoration still has to ask about
  validating,  \* chat -> the status call of useGlobalStream
  bounds,      \* counters behind the bounds
  crossed,     \* (history) a call or callback of one chat changed the page of another
  overtaken    \* (history) a second source was opened by a call whose page had moved on

vars == <<turns, stops, page, cache, store, posts, checks, restoring, validating,
          bounds, crossed, overtaken>>

Turns == 1 .. NumTurns
Owner(m) == turns[m].chat
Active(c) == \E m \in DOMAIN turns : turns[m].chat = c /\ ~turns[m].done
Latest(c) == LET of == {m \in DOMAIN turns : turns[m].chat = c}
             IN IF of = {} THEN 0 ELSE Max(of)

Log(m, n) == [i \in 1 .. n |-> <<m, i>>]
Nothing == [m \in Turns |-> Absent]

-----------------------------------------------------------------------------
(* streamStore.ts *)

StreamsOf(st, c) == {s \in DOMAIN st.streams : st.streams[s].chat = c}
Key(stream) == <<stream.chat, stream.msg>>

AddStream(st, s, stream) ==
  [streams  |-> [t \in DOMAIN st.streams \cup {s} |->
                   IF t = s THEN stream ELSE st.streams[t]],
   index    |-> [k \in DOMAIN st.index \cup {Key(stream)} |->
                   IF k = Key(stream) THEN s ELSE st.index[k]],
   metadata |-> st.metadata \cup {stream.chat}]

\* Close a set of streams and forget their index entries.
Closed(st, gone) ==
  [st EXCEPT
     !.streams = Restrict(@, DOMAIN @ \ gone),
     !.index = Restrict(@, DOMAIN @ \ {Key(st.streams[s]) : s \in gone})]

\* Mutant: the index entry stays behind.
RemoveStream_KeepsIndex(st, s) ==
  IF s \notin DOMAIN st.streams THEN st
  ELSE [st EXCEPT !.streams = Restrict(@, DOMAIN @ \ {s})]

\* Mutant: the source that has ended stays in the store.
RemoveStream_Not(st, s) == st

\* The last stream of a chat takes the chat's metadata with it.
RemoveStream(st, s) ==
  IF s \notin DOMAIN st.streams THEN st
  ELSE LET rest == Closed(st, {s})
           c == st.streams[s].chat
       IN IF StreamsOf(rest, c) # {} THEN rest
          ELSE [rest EXCEPT !.metadata = @ \ {c}]

RemoveStreamMetadata(st, c) == [Closed(st, StreamsOf(st, c)) EXCEPT !.metadata = @ \ {c}]

AbortAllStreams(st) == [Closed(st, DOMAIN st.streams) EXCEPT !.metadata = {}]

-----------------------------------------------------------------------------
(* What the page's effects do after a change *)

FirstOf(st, c) == LET of == StreamsOf(st, c) IN IF of = {} THEN 0 ELSE Min(of)

\* checkAndUpdateCallbacks: the first stream of the chat on screen is given
\* the callbacks of this instance, through the index of the store.
Connected(pg, st) ==
  LET first == FirstOf(st, pg.chat)
      k == <<pg.chat, st.streams[first].msg>>
  IN IF pg.chat = NoChat \/ first = 0 \/ first = pg.connected THEN st
     ELSE IF k \in DOMAIN st.index
     THEN [st EXCEPT !.streams[st.index[k]].inst = pg.inst] ELSE st

\* Mutant: the page does not leave `streaming' when its stream is gone.
SyncStreamState_KeepsStreaming(pg, st) ==
  LET first == FirstOf(st, pg.chat)
  IN IF pg.chat = NoChat \/ first = 0 THEN [pg EXCEPT !.connected = 0]
     ELSE [pg EXCEPT !.connected = first, !.state = "streaming",
                     !.current = st.streams[first].msg, !.aborted = FALSE]

\* syncStreamState
SyncStreamState(pg, st) ==
  LET first == FirstOf(st, pg.chat)
      linked == [pg EXCEPT !.connected = first]
  IN IF pg.chat = NoChat THEN pg
     ELSE IF first # 0
     THEN IF st.streams[first].msg \in pg.pendingStop THEN linked
          ELSE [linked EXCEPT !.state = "streaming", !.aborted = FALSE,
                              !.current = st.streams[first].msg]
     ELSE IF pg.state = "streaming"
     THEN [linked EXCEPT !.state = "idle", !.current = 0, !.pendingStop = {}]
     ELSE linked

Fetched(c, ch) == [m \in Turns |-> IF m \in DOMAIN turns /\ Owner(m) = c THEN ch[m] ELSE Absent]

\* useMessageInitialization, and the dependencies of useStreamReconnect: the
\* list is taken from the query cache unless it is being written, and the
\* timer of the status check starts anew when what it depends on has changed.
Rendered(pg, ch) ==
  LET fetched == IF pg.chat = NoChat THEN Nothing ELSE Fetched(pg.chat, ch)
      reinit == /\ fetched # Nothing
                /\ pg.state # "loading" /\ ~pg.aborted
                /\ ~(pg.state = "streaming" /\ pg.messages # Nothing)
      idle == pg.state = "idle" /\ pg.current = 0 /\ ~pg.aborted /\ fetched # Nothing
      changed == \/ pg.chat # page.chat \/ pg.inst # page.inst
                 \/ pg.current # page.current \/ pg.state # page.state
                 \/ pg.aborted # page.aborted
                 \/ fetched # Fetched(page.chat, cache)
  IN [pg EXCEPT !.messages = IF reinit THEN fetched ELSE @,
                !.armed = idle /\ (changed \/ page.armed)]

\* One step of the browser: a new store, a new cache and a new page.
Browser(pg, st, ch) ==
  /\ store' = st
  /\ cache' = ch
  /\ page' = Rendered(pg, ch)

\* A change of the store notifies the page before anything else runs.
Notified(pg, st) == [page |-> SyncStreamState(pg, st), store |-> Connected(pg, st)]

NewPage(c, inst) ==
  [chat |-> c, inst |-> inst, state |-> "idle", current |-> 0, aborted |-> FALSE,
   pendingStop |-> {}, connected |-> 0, armed |-> FALSE, messages |-> Nothing]

NoPost == [st |-> "none", inst |-> 0, msg |-> 0]
NoCheck == [st |-> "none", inst |-> 0, msg |-> 0]

Init ==
  /\ turns = <<>>
  /\ stops = {}
  /\ page = NewPage(CHOOSE c \in Chats : TRUE, 1)
  /\ cache = Nothing
  /\ store = [streams |-> [s \in {} |-> 0], index |-> [k \in {} |-> 0], metadata |-> {}]
  /\ posts = [c \in Chats |-> NoPost]
  /\ checks = [c \in Chats |-> NoCheck]
  /\ restoring = {}
  /\ validating = [c \in Chats |-> "waiting"]
  /\ bounds = [insts |-> 1, moves |-> 0, sources |-> 0, errors |-> 0]
  /\ crossed = FALSE
  /\ overtaken = FALSE

-----------------------------------------------------------------------------
(* The server, as the browser sees it *)

Grow(m) ==
  /\ ~turns[m].done /\ turns[m].len < MaxEvents
  /\ turns' = [turns EXCEPT ![m].len = @ + 1]
  /\ UNCHANGED <<stops, page, cache, store, posts, checks, restoring, validating,
                 bounds, crossed, overtaken>>

Finish(m) ==
  /\ ~turns[m].done /\ turns[m].len > 0
  /\ turns' = [turns EXCEPT ![m].done = TRUE]
  /\ UNCHANGED <<stops, page, cache, store, posts, checks, restoring, validating,
                 bounds, crossed, overtaken>>

\* The DELETE has its effect some time after the browser has sent it.
HandleStop(c) ==
  /\ c \in stops
  /\ stops' = stops \ {c}
  /\ turns' = [m \in DOMAIN turns |-> IF Owner(m) = c THEN [turns[m] EXCEPT !.done = TRUE]
                                                      ELSE turns[m]]
  /\ UNCHANGED <<page, cache, store, posts, checks, restoring, validating,
                 bounds, crossed, overtaken>>

HandlePost(c) ==
  /\ posts[c].st \in {"sent", "orphan"}
  /\ ~Active(c)
  /\ turns' = Append(turns, [chat |-> c, len |-> 0, done |-> FALSE])
  /\ posts' = [posts EXCEPT ![c] = IF @.st = "orphan" THEN NoPost
                 ELSE [@ EXCEPT !.st = "answered", !.msg = Len(turns) + 1]]
  /\ UNCHANGED <<stops, page, cache, store, checks, restoring, validating,
                 bounds, crossed, overtaken>>

-----------------------------------------------------------------------------
(* The user *)

Live(inst) == page.inst = inst /\ page.chat # NoChat

\* Going to a chat, from another one (same instance) or from another page.
Open(c) ==
  LET kept == page.chat # NoChat
      fresh == NewPage(c, IF kept THEN page.inst ELSE bounds.insts + 1)
      pg == IF kept THEN [fresh EXCEPT !.pendingStop = page.pendingStop] ELSE fresh
      n == Notified(pg, store)
  IN
  /\ c # page.chat /\ bounds.moves < MaxMoves
  /\ bounds' = [bounds EXCEPT !.moves = @ + 1, !.insts = IF kept THEN @ ELSE @ + 1]
  /\ Browser(n.page, n.store, cache)
  /\ UNCHANGED <<turns, stops, posts, checks, restoring, validating, crossed, overtaken>>

Leave ==
  /\ page.chat # NoChat /\ bounds.moves < MaxMoves
  /\ bounds' = [bounds EXCEPT !.moves = @ + 1]
  /\ page' = NewPage(NoChat, page.inst)
  /\ UNCHANGED <<turns, stops, cache, store, posts, checks, restoring, validating,
                 crossed, overtaken>>

\* A reload loses every source and answer; messages come from the server, where
\* the content of a running turn is not stored yet.
Reload ==
  /\ page.chat # NoChat /\ bounds.moves < MaxMoves
  /\ bounds' = [bounds EXCEPT !.moves = @ + 1, !.insts = @ + 1]
  /\ Browser(NewPage(page.chat, bounds.insts + 1),
             [streams |-> [s \in {} |-> 0], index |-> [k \in {} |-> 0], metadata |-> {}],
             [m \in Turns |-> IF m \notin DOMAIN turns THEN Absent
                              ELSE Log(m, IF turns[m].done THEN turns[m].len ELSE 0)])
  /\ posts' = [c \in Chats |-> IF posts[c].st \in {"sent", "orphan"}
                               THEN [NoPost EXCEPT !.st = "orphan"] ELSE NoPost]
  /\ checks' = [c \in Chats |-> NoCheck]
  /\ restoring' = Chats
  /\ validating' = [c \in Chats |-> "waiting"]
  /\ UNCHANGED <<turns, stops, crossed, overtaken>>

\* handleMessageSend and sendMessage up to the await
Send ==
  LET c == page.chat
  IN
  /\ c # NoChat
  /\ page.state \notin {"loading", "streaming"}
  /\ posts[c].st = "none"
  /\ Len(turns) + Cardinality({d \in Chats : posts[d].st \in {"sent", "orphan"}}) < NumTurns
  /\ posts' = [posts EXCEPT ![c] = [st |-> "sent", inst |-> page.inst, msg |-> 0]]
  /\ Browser([page EXCEPT !.state = "loading", !.current = 0, !.aborted = FALSE], store, cache)
  /\ UNCHANGED <<turns, stops, checks, restoring, validating, bounds, crossed, overtaken>>

\* handleStop: the message on screen, or everything when there is none yet
Stop ==
  LET c == page.chat
      m == page.current
      k == <<c, m>>
      ids == IF m # 0 THEN {m} ELSE {store.streams[s].msg : s \in StreamsOf(store, c)}
      stopped == [page EXCEPT !.pendingStop = ids, !.state = "idle", !.current = 0,
                              !.aborted = TRUE]
      found == m # 0 /\ k \in DOMAIN store.index
      st == IF m = 0 THEN AbortAllStreams(store)
            ELSE IF found THEN RemoveStream(store, store.index[k]) ELSE store
      n == Notified(stopped, st)
  IN
  /\ c # NoChat /\ page.state \in {"loading", "streaming"}
  /\ IF st = store THEN Browser(stopped, store, cache) ELSE Browser(n.page, n.store, cache)
  /\ stops' = stops \cup (IF m = 0 THEN {store.streams[s].chat : s \in DOMAIN store.streams}
                          ELSE IF found THEN {c} ELSE {})
  /\ UNCHANGED <<turns, posts, checks, restoring, validating, bounds, crossed, overtaken>>

-----------------------------------------------------------------------------
(* sendMessage after the await; streamService.startStream *)

\* The answer is stale: it is about a turn that is not the chat's latest, or a
\* source is open or being asked for by another call, and the page is not as
\* this call left it.
Overtakes(c, m, inst, state) ==
  \/ m # Latest(c)
  \/ /\ StreamsOf(store, c) # {} \/ (state = "idle" /\ posts[c].st # "none")
     /\ ~(Live(inst) /\ page.chat = c /\ page.state = state /\ ~page.aborted)

\* An event source is opened for a chat: it reads the turn the chat is at.
Source(c, m, inst) == [chat |-> c, msg |-> m, inst |-> inst, turn |-> Latest(c), pos |-> 0,
                         skipped |-> FALSE]  \* (history) an event was ignored

PostReturns(c) ==
  LET m == posts[c].msg
      s == bounds.sources + 1
      n == Notified(page, AddStream(store, s, Source(c, m, posts[c].inst)))
      live == Live(posts[c].inst)
      pg == IF live THEN [n.page EXCEPT !.current = m, !.state = "streaming",
                                        !.messages[m] = <<>>]
            ELSE n.page
  IN
  /\ posts[c].st = "answered" /\ s <= MaxSources
  /\ bounds' = [bounds EXCEPT !.sources = s]
  /\ posts' = [posts EXCEPT ![c] = NoPost]
  /\ Browser(pg, n.store, [cache EXCEPT ![m] = <<>>])
  /\ crossed' = (crossed \/ (live /\ page.chat # c))
  /\ overtaken' = (overtaken \/ Overtakes(c, m, posts[c].inst, "loading"))
  /\ UNCHANGED <<turns, stops, checks, restoring, validating>>

PostFails(c) ==
  /\ posts[c].st = "sent" /\ bounds.errors < MaxErrors
  /\ bounds' = [bounds EXCEPT !.errors = @ + 1]
  /\ posts' = [posts EXCEPT ![c] = NoPost]
  /\ Browser(IF Live(posts[c].inst) THEN [page EXCEPT !.state = "error"] ELSE page, store, cache)
  /\ crossed' = (crossed \/ (Live(posts[c].inst) /\ page.chat # c))
  /\ overtaken' = (overtaken \/ Overtakes(c, Latest(c), posts[c].inst, "loading"))
  /\ UNCHANGED <<turns, stops, checks, restoring, validating>>

-----------------------------------------------------------------------------
(* Events of an open source: streamService's handlers and the callbacks *)

\* A new turn of the chat replaces the stream that the source was reading.
MoveOn(s) ==
  LET c == store.streams[s].chat
  IN
  /\ store.streams[s].turn # Latest(c)
  /\ store' = [store EXCEPT !.streams[s].turn = Latest(c), !.streams[s].pos = 0]
  /\ UNCHANGED <<turns, stops, page, cache, posts, checks, restoring, validating, bounds,
                 crossed, overtaken>>

Appended(list, m, e) == IF list[m] = Absent THEN list ELSE [list EXCEPT ![m] = Append(@, e)]

\* handleContentEvent and onChunk
Content(s) ==
  LET stream == store.streams[s]
      m == stream.msg
      t == stream.turn
      n == stream.pos + 1
      e == <<t, n>>
      live == Live(stream.inst)
      ignored == live /\ m \in page.pendingStop
      st == [store EXCEPT !.streams[s].pos = n, !.streams[s].skipped = @ \/ ignored]
  IN
  /\ n <= turns[t].len /\ (t # Latest(stream.chat) => turns[Latest(stream.chat)].len = 0)
  /\ IF ignored THEN Browser(page, st, cache)
     ELSE Browser(IF live THEN [page EXCEPT !.messages = Appended(@, m, e)] ELSE page,
                  st, Appended(cache, m, e))
  /\ UNCHANGED <<turns, stops, posts, checks, restoring, validating, bounds, crossed, overtaken>>

\* handleCompleteEvent and onComplete
Complete(s) ==
  LET stream == store.streams[s]
      n == Notified(page, RemoveStream(store, s))
      live == Live(stream.inst)
  IN
  /\ turns[stream.turn].done /\ stream.pos = turns[stream.turn].len
  /\ Browser(IF live THEN [n.page EXCEPT !.state = "idle", !.current = 0] ELSE n.page,
             n.store, cache)
  /\ crossed' = (crossed \/ (live /\ page.chat # stream.chat))
  /\ UNCHANGED <<turns, stops, posts, checks, restoring, validating, bounds, overtaken>>

\* handleErrorEvent or handleGenericError, cleanupStream and onError
SourceError(s) ==
  LET stream == store.streams[s]
      m == stream.msg
      n == Notified(page, RemoveStream(store, s))
      live == Live(stream.inst)
  IN
  /\ bounds.errors < MaxErrors
  /\ bounds' = [bounds EXCEPT !.errors = @ + 1]
  /\ Browser(IF live THEN [n.page EXCEPT !.state = "error", !.current = 0,
                                         !.messages[m] = Absent]
             ELSE n.page,
             n.store, [cache EXCEPT ![m] = Absent])
  /\ crossed' = (crossed \/ (live /\ page.chat # stream.chat))
  /\ UNCHANGED <<turns, stops, posts, checks, restoring, validating, overtaken>>

-----------------------------------------------------------------------------
(* useStreamReconnect: a timer, a status call, a replay *)

CheckActiveTask ==
  LET c == page.chat
  IN
  /\ page.armed /\ checks[c].st = "none"
  /\ checks' = [checks EXCEPT ![c] = [st |-> "asked", inst |-> page.inst, msg |-> 0]]
  /\ page' = [page EXCEPT !.armed = FALSE]
  /\ UNCHANGED <<turns, stops, cache, store, posts, restoring, validating, bounds,
                 crossed, overtaken>>

HandleStatus(c) ==
  /\ checks[c].st = "asked"
  /\ checks' = [checks EXCEPT ![c] = IF Active(c) THEN [@ EXCEPT !.st = "active", !.msg = Latest(c)]
                                                 ELSE NoCheck]
  /\ UNCHANGED <<turns, stops, page, cache, store, posts, restoring, validating, bounds,
                 crossed, overtaken>>

\* Mutant: the replay appends to what the message already holds.
Cleared_Keeps(list, m) == list

\* The message is emptied before the replay fills it again.
Cleared(list, m) == IF list[m] = Absent THEN list ELSE [list EXCEPT ![m] = <<>>]

StatusReturns(c) ==
  LET m == checks[c].msg
      live == Live(checks[c].inst)
      s == bounds.sources + 1
      placed == IF live /\ cache[m] = Absent THEN [page.messages EXCEPT ![m] = <<>>]
                                            ELSE page.messages
      pg == IF live THEN [page EXCEPT !.state = "streaming", !.current = m,
                                      !.messages = Cleared(placed, m)]
            ELSE page
      n == Notified(pg, AddStream(store, s, Source(c, m, checks[c].inst)))
  IN
  /\ checks[c].st = "active" /\ s <= MaxSources
  /\ bounds' = [bounds EXCEPT !.sources = s]
  /\ checks' = [checks EXCEPT ![c] = NoCheck]
  /\ Browser(n.page, n.store,
             Cleared(IF cache[m] = Absent THEN [cache EXCEPT ![m] = <<>>] ELSE cache, m))
  /\ crossed' = (crossed \/ (live /\ page.chat # c))
  /\ overtaken' = (overtaken \/ Overtakes(c, m, checks[c].inst, "idle"))
  /\ UNCHANGED <<turns, stops, posts, restoring, validating>>

-----------------------------------------------------------------------------
(* useStreamRestoration and useGlobalStream, once after the application starts *)

RestoreStreamMetadata(c) ==
  /\ c \in restoring
  /\ restoring' = restoring \ {c}
  /\ store' = [store EXCEPT !.metadata = IF Active(c) THEN @ \cup {c} ELSE @]
  /\ UNCHANGED <<turns, stops, page, cache, posts, checks, validating, bounds,
                 crossed, overtaken>>

\* The timer of 500 ms: the chats it asks about are those with metadata now.
ValidateStreams ==
  /\ \A c \in Chats : validating[c] = "waiting"
  /\ store.metadata # {}
  /\ validating' = [c \in Chats |-> IF c \in store.metadata THEN "asked" ELSE "over"]
  /\ UNCHANGED <<turns, stops, page, cache, store, posts, checks, restoring, bounds,
                 crossed, overtaken>>

ValidateAnswered(c) ==
  /\ validating[c] = "asked"
  /\ validating' = [validating EXCEPT ![c] = IF Active(c) THEN "over" ELSE "gone"]
  /\ UNCHANGED <<turns, stops, page, cache, store, posts, checks, restoring, bounds,
                 crossed, overtaken>>

ValidateReturns(c) ==
  LET n == Notified(page, RemoveStreamMetadata(store, c))
  IN
  /\ validating[c] = "gone"
  /\ validating' = [validating EXCEPT ![c] = "over"]
  /\ Browser(n.page, n.store, cache)
  /\ UNCHANGED <<turns, stops, posts, checks, restoring, bounds, crossed, overtaken>>

-----------------------------------------------------------------------------
Server(c) ==
  \/ HandlePost(c) \/ HandleStop(c) \/ HandleStatus(c) \/ ValidateAnswered(c)

Return(c) == PostReturns(c) \/ StatusReturns(c) \/ ValidateReturns(c)

Next ==
  \/ \E c \in Chats :
       \/ Server(c) \/ Return(c) \/ PostFails(c)
       \/ Open(c) \/ RestoreStreamMetadata(c)
  \/ \E m \in DOMAIN turns : Grow(m) \/ Finish(m)
  \/ \E s \in DOMAIN store.streams : Content(s) \/ Complete(s) \/ SourceError(s) \/ MoveOn(s)
  \/ Leave \/ Reload \/ Send \/ Stop \/ CheckActiveTask \/ ValidateStreams

Spec == Init /\ [][Next]_vars

-----------------------------------------------------------------------------
(* Properties *)

\* Types of all variables.
TypeOK ==
  /\ turns \in Seq([chat : Chats, len : 0 .. MaxEvents, done : BOOLEAN])
  /\ stops \subseteq Chats /\ restoring \subseteq Chats
  /\ page.chat \in Chats \cup {NoChat}
  /\ page.state \in {"idle", "loading", "streaming", "error"}
  /\ page.current \in 0 .. Len(turns) /\ page.pendingStop \subseteq DOMAIN turns
  /\ DOMAIN store.streams \subseteq 1 .. MaxSources /\ store.metadata \subseteq Chats
  /\ \A m \in Turns : cache[m] # Absent => m \in DOMAIN turns
  /\ \A c \in Chats : /\ posts[c].st \in {"none", "sent", "orphan", "answered"}
                      /\ checks[c].st \in {"none", "asked", "active"}
                      /\ validating[c] \in {"waiting", "asked", "gone", "over"}

\* streamStore: an index entry names an open stream of that chat and message,
\* and a chat with an open stream shows as streaming in the sidebar, however
\* streams of one chat overlap and whoever removes them.
StoreAgrees ==
  /\ \A k \in DOMAIN store.index : /\ store.index[k] \in DOMAIN store.streams
                                   /\ Key(store.streams[store.index[k]]) = k
  /\ \A s \in DOMAIN store.streams : store.streams[s].chat \in store.metadata

\* A chat is read by one event source at a time, unless an answer or a
\* callback of one chat changed the page of another, or a call started by the
\* page returned to a page that had moved on: these are the only ways to a
\* second source (useStreamReconnect's closure, sendMessage after its await).
OneSource ==
  \/ crossed \/ overtaken
  \/ \A s, t \in DOMAIN store.streams :
       store.streams[s].chat = store.streams[t].chat => s = t

\* What the query cache holds of a message is what its open source has
\* delivered: no event twice, none missing, none out of order, through
\* navigation, replays, stops, reloads and errors.  A message that was stopped
\* and is replayed by the same page ignores its events (pendingStopRef).
ListFollowsSource ==
  \/ crossed \/ overtaken
  \/ \A s \in DOMAIN store.streams :
       LET stream == store.streams[s]
       IN stream.skipped \/ (stream.turn = stream.msg =>
                              cache[stream.msg] = Log(stream.msg, stream.pos))

\* The page says `streaming' only while a source of its chat is open: the sync
\* with the store takes the state back whoever closed the source.
StreamingHasSource ==
  crossed \/ (page.state = "streaming" => StreamsOf(store, page.chat) # {})
=============================================================================
