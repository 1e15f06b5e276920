---------------------------- MODULE FirstPrompt ----------------------------
(***************************************************************************)
(* The first prompt of a chat: typed on the landing page, carried by the   *)
(* route to the chat that is created for it, and sent by an effect of the  *)
(* chat page.                                                              *)
(*   frontend pages/LandingPage.tsx, pages/ChatPage.tsx;                   *)
(*   hooks/useInitialPrompt.ts, useMessageInitialization.ts,               *)
(*   useChatData.ts, useMessageActions.ts                                  *)
(*                                                                         *)
(* Prompt c is the one chat c is created for; Other stands for what is     *)
(* typed on the chat page.  One instance of the chat page shows one chat   *)
(* after the other; the landing page and a reload end it.                  *)
(***************************************************************************)
EXTENDS Naturals, Sequences, FiniteSets, SequencesExt

CONSTANTS
  NumChats,   \* bound: chats created
  MaxOther,   \* bound: other messages
  MaxReloads, \* bound: reloads
  MaxMoves,   \* bound: other pages opened by the user
  MaxErrors   \* bound: requests that fail

VARIABLES
  page,       \* the chat shown, or Landing
  route,      \* prompt of the route's state, or None
  creating,   \* chats whose creation is under way
  exists,     \* chats there are
  server,     \* chat -> prompts it was sent
  cache,      \* chat -> what its messages query holds: [st, items]
  ui,         \* state of the chat page
  posts,      \* set of [id, chat, prompt, taken, mine]
  counts,     \* numbers of posts, other messages, reloads, moves and errors there were
  odd         \* (history) what happened that may send a prompt twice or elsewhere

vars == <<page, route, creating, exists, server, cache, ui, posts, counts, odd>>

Chats == 1 .. NumChats
Landing == 0
None == 0
Other == NumChats + 1
Bot == NumChats + 2

NewPage == [initialPrompt |-> None, sent |-> FALSE, messages |-> <<>>, state |-> "idle",
            error |-> FALSE, aborted |-> FALSE]
Unfetched == [st |-> "loading", items |-> <<>>]

Init ==
  /\ page = Landing /\ route = None /\ creating = {} /\ exists = {}
  /\ server = [c \in Chats |-> <<>>] /\ cache = [c \in Chats |-> Unfetched]
  /\ ui = NewPage /\ posts = {}
  /\ counts = [posts |-> 0, other |-> 0, reloads |-> 0, moves |-> 0, errors |-> 0] /\ odd = {}

isLoading(u) == u.state = "loading"
isStreaming(u) == u.state = "streaming"

-----------------------------------------------------------------------------
(* The effects of the chat page, after each render *)

\* useInitialPrompt
FromRoute(u, r) == IF r = None THEN u ELSE [u EXCEPT !.initialPrompt = r]

\* useMessageInitialization
Initialized(u, r, fetched) ==
  IF isLoading(u) \/ u.aborted \/ (isStreaming(u) /\ u.messages # <<>>) THEN u
  ELSE IF fetched # <<>> THEN [u EXCEPT !.messages = fetched]
  ELSE IF r # None /\ ~u.sent THEN [u EXCEPT !.messages = <<r>>]
  ELSE u

\* Mutant: the messages of the chat are not waited for.
SendsInitial_Eager(u, q) ==
  /\ u.initialPrompt # None /\ Len(u.messages) = 1
  /\ ~isLoading(u) /\ ~isStreaming(u) /\ ~u.sent /\ ~u.error
  /\ q.items = <<>>

\* The condition of the effect that sends the first prompt
SendsInitial(u, q) ==
  /\ u.initialPrompt # None /\ Len(u.messages) = 1
  /\ ~isLoading(u) /\ ~isStreaming(u) /\ ~u.sent /\ ~u.error
  /\ q.st # "loading" /\ q.items = <<>>

Post(c, prompt) ==
  [id |-> counts.posts + 1, chat |-> c, prompt |-> prompt, taken |-> FALSE, mine |-> TRUE]

\* Mutant: marked as sent before the messages of the chat are known.
Rendered_MarksEarly(c, r, u, q, waiting, n) ==
  LET u2 == Initialized(FromRoute(u, r), r, q.items)
  IN IF SendsInitial(u2, q)
     THEN /\ ui' = [u2 EXCEPT !.sent = TRUE, !.state = "loading", !.aborted = FALSE]
          /\ posts' = waiting \cup {Post(c, u2.initialPrompt)}
          /\ counts' = [n EXCEPT !.posts = @ + 1]
     ELSE /\ ui' = [u2 EXCEPT !.sent = @ \/ r # None]
          /\ posts' = waiting /\ counts' = n

\* The page c as u is rendered; waiting are the posts under way, n the counts.
Rendered(c, r, u, q, waiting, n) ==
  LET u2 == Initialized(FromRoute(u, r), r, q.items)
  IN IF SendsInitial(u2, q)
     THEN /\ ui' = [u2 EXCEPT !.sent = TRUE, !.state = "loading", !.aborted = FALSE]
          /\ posts' = waiting \cup {Post(c, u2.initialPrompt)}
          /\ counts' = [n EXCEPT !.posts = @ + 1]
     ELSE ui' = u2 /\ posts' = waiting /\ counts' = n

-----------------------------------------------------------------------------
(* The landing page *)

\* handleNewChat; the button is disabled while it is under way.
NewChat ==
  LET c == Cardinality(exists \cup creating) + 1
  IN
  /\ page = Landing /\ ui.state = "idle" /\ c \in Chats
  /\ creating' = creating \cup {c}
  /\ ui' = [ui EXCEPT !.state = "loading"]
  /\ UNCHANGED <<page, route, exists, server, cache, posts, counts, odd>>

CreateFails(c) ==
  /\ counts.errors < MaxErrors
  /\ counts' = [counts EXCEPT !.errors = @ + 1]
  /\ creating' = creating \ {c}
  /\ exists' = exists \cup {c}      \* the answer is lost, or there is no chat
  /\ ui' = IF page = Landing THEN NewPage ELSE ui
  /\ UNCHANGED <<page, route, server, cache, posts, odd>>

\* Mutant: the messages stay.
Changed_KeepsMessages(u) ==
  [NewPage EXCEPT !.initialPrompt = u.initialPrompt, !.messages = u.messages]

\* The same page shows another chat.
Changed(u) == [NewPage EXCEPT !.initialPrompt = u.initialPrompt]

\* A chat is opened, with a prompt or without.  In the first render the state is
\* still that of the chat before.
Show(c, r, n) ==
  /\ page' = c /\ route' = r
  /\ IF page = Landing THEN Rendered(c, r, NewPage, cache[c], posts, n) /\ UNCHANGED odd
     ELSE IF SendsInitial(ui, cache[c])
     THEN /\ ui' = [Changed(ui) EXCEPT !.state = "loading"]
          /\ posts' = posts \cup {Post(c, ui.initialPrompt)}
          /\ counts' = [n EXCEPT !.posts = @ + 1]
          /\ odd' = odd \cup {"hasty"}
     ELSE Rendered(c, r, Changed(ui), cache[c], posts, n) /\ UNCHANGED odd

\* The chat exists: the page goes to it, wherever the user is by now.
CreateReturns(c) ==
  /\ creating' = creating \ {c}
  /\ exists' = exists \cup {c}
  /\ Show(c, c, counts)
  /\ UNCHANGED <<server, cache>>

\* handleChatSelect
Select(c) ==
  /\ c # page /\ counts.moves < MaxMoves
  /\ Show(c, None, [counts EXCEPT !.moves = @ + 1])
  /\ UNCHANGED <<creating, exists, server, cache>>

ToLanding ==
  /\ page # Landing /\ counts.moves < MaxMoves
  /\ counts' = [counts EXCEPT !.moves = @ + 1]
  /\ page' = Landing /\ route' = None /\ ui' = NewPage
  /\ posts' = {[p EXCEPT !.mine = FALSE] : p \in posts}
  /\ UNCHANGED <<creating, exists, server, cache, odd>>

\* The state of the route outlives the page.
Reload ==
  /\ page # Landing /\ counts.reloads < MaxReloads
  /\ counts' = [counts EXCEPT !.reloads = @ + 1]
  /\ cache' = [c \in Chats |-> Unfetched]
  /\ ui' = Initialized(FromRoute(NewPage, route), route, <<>>)
  /\ odd' = IF posts # {} THEN odd \cup {"reloaded"} ELSE odd
  /\ posts' = {[p EXCEPT !.mine = FALSE] : p \in posts}
  /\ creating' = {}
  /\ UNCHANGED <<page, route, exists, server>>

-----------------------------------------------------------------------------
(* The chat page *)

FetchReturns ==
  /\ page # Landing
  /\ cache' = [cache EXCEPT ![page] = [st |-> "loaded", items |-> server[page]]]
  /\ Rendered(page, route, ui, cache'[page], posts, counts)
  /\ UNCHANGED <<page, route, creating, exists, server, odd>>

\* A query that failed is not loading, and holds nothing.
FetchFails ==
  LET q == [st |-> "failed", items |-> <<>>]
      u == Initialized(FromRoute(ui, route), route, <<>>)
      sends == SendsInitial(u, q)
  IN
  /\ page # Landing /\ cache[page].st = "loading" /\ counts.errors < MaxErrors
  /\ cache' = [cache EXCEPT ![page] = q]
  /\ ui' = IF sends THEN [u EXCEPT !.sent = TRUE, !.state = "loading", !.aborted = FALSE] ELSE u
  /\ posts' = IF sends THEN posts \cup {Post(page, u.initialPrompt)} ELSE posts
  /\ counts' = [counts EXCEPT !.posts = IF sends THEN @ + 1 ELSE @, !.errors = @ + 1]
  /\ odd' = odd \cup {"blind"}
  /\ UNCHANGED <<page, route, creating, exists, server>>

\* A message typed on the chat page (module Composer)
Send ==
  /\ page # Landing /\ ~isLoading(ui) /\ ~isStreaming(ui) /\ counts.other < MaxOther
  /\ ui' = [ui EXCEPT !.messages = Append(@, Other), !.state = "loading", !.error = FALSE,
                      !.aborted = FALSE]
  /\ posts' = posts \cup {Post(page, Other)}
  /\ counts' = [counts EXCEPT !.posts = @ + 1, !.other = @ + 1]
  /\ UNCHANGED <<page, route, creating, exists, server, cache, odd>>

\* handleStop, before there is a stream
Stop ==
  /\ page # Landing /\ isLoading(ui)
  /\ Rendered(page, route, [ui EXCEPT !.state = "idle", !.aborted = TRUE], cache[page], posts, counts)
  /\ odd' = odd \cup {"stopped"}
  /\ UNCHANGED <<page, route, creating, exists, server, cache>>

\* The server takes a message, also of a page that is gone.
Take(p) ==
  /\ ~p.taken
  /\ server' = [server EXCEPT ![p.chat] = Append(@, p.prompt)]
  /\ posts' = (posts \ {p}) \cup (IF p.mine THEN {[p EXCEPT !.taken = TRUE]} ELSE {})
  /\ UNCHANGED <<page, route, creating, exists, cache, ui, counts, odd>>

\* An answer acts on the chat that is shown, and may end what another waits for.
Answered(p) ==
  odd' = IF p.chat # page \/ posts # {p} THEN odd \cup {"crossed"} ELSE odd

\* The answer: the message is in the cache of its chat; the page streams.
PostReturns(p) ==
  LET items == Append(Append(cache[p.chat].items, p.prompt), Bot)
      u == [ui EXCEPT !.state = "streaming", !.messages = Append(@, Bot)]
  IN
  /\ p.taken /\ p.mine
  /\ cache' = IF cache[p.chat].st = "loaded"
              THEN [cache EXCEPT ![p.chat].items = items] ELSE cache
  /\ IF page = Landing THEN posts' = posts \ {p} /\ UNCHANGED <<ui, counts>>
     ELSE Rendered(page, route, u, cache'[page], posts \ {p}, counts)
  /\ Answered(p)
  /\ UNCHANGED <<page, route, creating, exists, server>>

PostFails(p) ==
  LET u == [ui EXCEPT !.state = "error", !.error = TRUE,
                      !.messages = IF p.prompt = Other
                                   THEN SelectSeq(@, LAMBDA m : m # Other) ELSE @]
  IN
  /\ p.mine /\ counts.errors < MaxErrors
  /\ ui' = Initialized(FromRoute(u, route), route, cache[page].items)
  /\ posts' = posts \ {p}
  /\ counts' = [counts EXCEPT !.errors = @ + 1]
  /\ Answered(p)
  /\ UNCHANGED <<page, route, creating, exists, server, cache>>

\* A post of a page that is gone is not answered.
Forget(p) ==
  /\ ~p.mine
  /\ posts' = posts \ {p}
  /\ UNCHANGED <<page, route, creating, exists, server, cache, ui, counts, odd>>

DismissError ==
  /\ page # Landing /\ ui.error
  /\ Rendered(page, route, [ui EXCEPT !.error = FALSE], cache[page], posts, counts)
  /\ UNCHANGED <<page, route, creating, exists, server, cache, odd>>

StreamEnds ==
  /\ page # Landing /\ isStreaming(ui)
  /\ Rendered(page, route, [ui EXCEPT !.state = "idle"], cache[page], posts, counts)
  /\ UNCHANGED <<page, route, creating, exists, server, cache, odd>>

Next ==
  \/ NewChat \/ ToLanding \/ Reload \/ FetchReturns \/ FetchFails \/ Send \/ Stop
  \/ DismissError \/ StreamEnds
  \/ \E c \in creating : CreateReturns(c) \/ CreateFails(c)
  \/ \E c \in exists : Select(c)
  \/ \E p \in posts : Take(p) \/ PostReturns(p) \/ PostFails(p) \/ Forget(p)

Spec == Init /\ [][Next]_vars

-----------------------------------------------------------------------------
(* Properties *)

TypeOK ==
  /\ page \in exists \cup {Landing} /\ route \in Chats \cup {None}
  /\ \A c \in Chats : Range(server[c]) \subseteq Chats \cup {Other}
  /\ ui.state \in {"idle", "loading", "streaming", "error"}
  /\ \A p, q \in posts : p.id = q.id => p = q

Times(c, prompt) == Cardinality({i \in DOMAIN server[c] : server[c][i] = prompt})

\* The first prompt goes to the chat that was created for it, and only there,
\* though it stays in the page when other chats are opened.  What escapes: an
\* empty chat whose first message is stopped while it is sent, or whose wait for
\* it is ended by the answer to another chat's message ("stopped", "crossed"), or
\* whose messages cannot be fetched ("blind"); and one that is opened before the
\* messages of the new chat are known ("hasty").
PromptInOwnChat ==
  odd \subseteq {"reloaded"} => \A c, prompt \in Chats : Times(c, prompt) > 0 => c = prompt

\* It reaches its chat once, though its route is there again after a reload,
\* unless the reload came while it was sent ("reloaded").
PromptOnce == odd = {} => \A c \in Chats : Times(c, c) <= 1

\* A chat opened with its prompt sends it as soon as its messages are known.
PromptIsSent ==
  (/\ page # Landing /\ route # None /\ cache[page].st = "loaded" /\ cache[page].items = <<>>
   /\ ui.state = "idle" /\ ~ui.error /\ counts.other = 0) =>
    Times(page, route) > 0 \/ \E p \in posts : p.chat = page /\ p.prompt = route
=============================================================================
