------------------------------ MODULE Composer ------------------------------
(***************************************************************************)
(* The message box of a chat: the draft, the files and the review comments *)
(* that go with it, sending, stopping and improving a prompt.              *)
(*   frontend components/chat/message-input/Input.tsx, Textarea.tsx,       *)
(*   InputControls.tsx, SendButton.tsx, ReviewChipsBar.tsx;                *)
(*   hooks/useInputState.ts, useMessageActions.ts, useChatStreaming.ts;    *)
(*   store/reviewStore.ts                                                  *)
(*                                                                         *)
(* One page shows one chat after the other and keeps one draft; a request  *)
(* goes on when its chat is left, and its answer acts on the page that is  *)
(* then shown.                                                             *)
(***************************************************************************)
EXTENDS Naturals, FiniteSets

CONSTANTS
  Chats,
  MaxDrafts,   \* bound: texts typed or improved
  MaxFiles,    \* bound: files attached
  MaxReviews,  \* bound: review comments written
  MaxPosts     \* bound: messages sent

VARIABLES
  chat,        \* chat on the page
  draft,       \* inputMessage: [id, improved]; 0 is the empty text
  files,       \* inputFiles
  reviews,     \* reviews of the store: set of [id, chat]
  state,       \* streamState
  active,      \* chats with an active stream in the stream store
  pendingStop, \* chats whose stream has been stopped by the page
  posts,       \* messages sent and not answered
  improving,   \* the text a prompt improvement was asked for, 0 if none
  made,        \* number of texts, files, review comments and messages there were
  used,        \* (history) what was dropped on purpose, or reached the server
  late         \* (history) files and review comments added while a message was sent

vars == <<chat, draft, files, reviews, state, active, pendingStop, posts, improving,
          made, used, late>>

Empty == [id |-> 0, improved |-> FALSE]
Text(n, improved) == [id |-> n, improved |-> improved]
Nothing == [files |-> {}, reviews |-> {}, texts |-> {}]

\* (history) The messages under way no longer keep the box disabled.
Released(ps) == {[p EXCEPT !.left = TRUE] : p \in ps}

Init ==
  /\ chat \in Chats
  /\ draft = Empty /\ files = {} /\ reviews = {}
  /\ state = "idle" /\ active = {} /\ pendingStop = {} /\ posts = {} /\ improving = 0
  /\ made = [texts |-> 0, files |-> 0, reviews |-> 0, posts |-> 0]
  /\ used = Nothing
  /\ late = [files |-> {}, reviews |-> {}]

isLoading == state \in {"loading", "streaming"}
hasMessage == draft # Empty

\* getReviewsForChat
ReviewsOf(c) == {r \in reviews : r.chat = c}

\* clearInput
ClearInput == draft' = Empty /\ files' = {}

-----------------------------------------------------------------------------
(* Writing *)

\* Mutant: the box can be edited while a message is sent.
Type_Always ==
  LET n == made.texts + 1
  IN
  /\ n <= MaxDrafts
  /\ made' = [made EXCEPT !.texts = n]
  /\ draft' = Text(n, FALSE)
  /\ UNCHANGED <<chat, files, reviews, state, active, pendingStop, posts, improving,
                 used, late>>

\* handleChange; the textarea is disabled while isLoading.
Type ==
  LET n == made.texts + 1
  IN
  /\ ~isLoading /\ n <= MaxDrafts
  /\ made' = [made EXCEPT !.texts = n]
  /\ draft' = Text(n, FALSE)
  /\ UNCHANGED <<chat, files, reviews, state, active, pendingStop, posts, improving,
                 used, late>>

\* onAttach: files can be attached at any time.
Attach ==
  LET n == made.files + 1
  IN
  /\ n <= MaxFiles
  /\ made' = [made EXCEPT !.files = n]
  /\ files' = files \cup {n}
  /\ late' = IF \E p \in posts : TRUE THEN [late EXCEPT !.files = @ \cup {n}] ELSE late
  /\ UNCHANGED <<chat, draft, reviews, state, active, pendingStop, posts, improving,
                 used>>

RemoveFile(f) ==
  /\ files' = files \ {f}
  /\ used' = [used EXCEPT !.files = @ \cup {f}]
  /\ UNCHANGED <<chat, draft, reviews, state, active, pendingStop, posts, improving,
                 made, late>>

\* addReview, from the diff of a tool call of the chat
AddReview ==
  LET n == made.reviews + 1
  IN
  /\ n <= MaxReviews
  /\ made' = [made EXCEPT !.reviews = n]
  /\ reviews' = reviews \cup {[id |-> n, chat |-> chat]}
  /\ late' = IF \E p \in posts : p.chat = chat
             THEN [late EXCEPT !.reviews = @ \cup {n}] ELSE late
  /\ UNCHANGED <<chat, draft, files, state, active, pendingStop, posts, improving,
                 used>>

\* The chips show the comments of the chat.
RemoveReview(r) ==
  /\ r \in ReviewsOf(chat)
  /\ reviews' = reviews \ {r}
  /\ used' = [used EXCEPT !.reviews = @ \cup {r.id}]
  /\ UNCHANGED <<chat, draft, files, state, active, pendingStop, posts, improving,
                 made, late>>

-----------------------------------------------------------------------------
(* Improving the prompt: asked, and answered into the box as it then is *)

Enhance ==
  /\ hasMessage /\ improving = 0 /\ ~isLoading
  /\ improving' = draft.id
  /\ UNCHANGED <<chat, draft, files, reviews, state, active, pendingStop, posts,
                 made, used, late>>

EnhanceReturns ==
  LET n == made.texts + 1
  IN
  /\ improving # 0 /\ n <= MaxDrafts
  /\ improving' = 0
  /\ made' = [made EXCEPT !.texts = n]
  /\ draft' = Text(n, TRUE)
  /\ UNCHANGED <<chat, files, reviews, state, active, pendingStop, posts, used, late>>

EnhanceFails ==
  /\ improving # 0
  /\ improving' = 0
  /\ UNCHANGED <<chat, draft, files, reviews, state, active, pendingStop, posts,
                 made, used, late>>

-----------------------------------------------------------------------------
(* Sending.  Enter is not disabled while a prompt is being improved.  A
   message that is too large, or has no model, is not sent and stays. *)

NewPost ==
  [id |-> made.posts + 1, chat |-> chat, text |-> draft.id, files |-> files,
   reviews |-> {r.id : r \in ReviewsOf(chat)}, taken |-> FALSE, left |-> FALSE]

\* submitOrStop, handleSubmit, handleMessageSend up to the request
Send ==
  /\ ~isLoading /\ hasMessage
  /\ made.posts < MaxPosts
  /\ made' = [made EXCEPT !.posts = @ + 1]
  /\ posts' = posts \cup {NewPost}
  /\ state' = "loading"
  /\ UNCHANGED <<chat, draft, files, reviews, active, pendingStop, improving, used,
                 late>>

\* The server takes the message (external here; module ChatTask).
Take(p) ==
  /\ ~p.taken
  /\ posts' = (posts \ {p}) \cup {[p EXCEPT !.taken = TRUE]}
  /\ used' = [files |-> used.files \cup p.files, reviews |-> used.reviews \cup p.reviews,
              texts |-> used.texts \cup {p.text}]
  /\ UNCHANGED <<chat, draft, files, reviews, state, active, pendingStop, improving,
                 made, late>>

\* Mutant: the comments of every chat are cleared.
ClearReviews_All(p) == IF p.reviews = {} THEN reviews ELSE {}

\* clearReviewsForChat, if there were comments
ClearReviews(p) == IF p.reviews = {} THEN reviews ELSE reviews \ ReviewsOf(p.chat)

PostReturns(p) ==
  /\ p.taken
  /\ posts' = Released(posts \ {p})
  /\ active' = active \cup {p.chat}
  /\ state' = "streaming"
  /\ reviews' = ClearReviews(p)
  /\ ClearInput
  /\ UNCHANGED <<chat, pendingStop, improving, made, used, late>>

\* Mutant: the box is cleared although the message was not sent.
PostFails_Clears(p) ==
  /\ posts' = Released(posts \ {p})
  /\ state' = "error"
  /\ ClearInput
  /\ UNCHANGED <<chat, reviews, active, pendingStop, improving, made, used, late>>

\* An error, or an answer that got lost: the text stays to be sent again.
PostFails(p) ==
  /\ posts' = Released(posts \ {p})
  /\ state' = "error"
  /\ UNCHANGED <<chat, draft, files, reviews, active, pendingStop, improving,
                 made, used, late>>

\* Mutant: a stream that ends while its message is shown leaves the box disabled.
Synced_Keeps(c, act) == IF c \in act /\ c \notin pendingStop THEN "streaming" ELSE state

\* syncStreamState
Synced(c, act) ==
  IF c \in act THEN IF c \in pendingStop THEN state ELSE "streaming"
  ELSE IF state = "streaming" THEN "idle" ELSE state

\* A stream is removed from the store (module ChatView).
StreamEnds(c) ==
  /\ active' = active \ {c}
  /\ state' = Synced(chat, active')
  /\ pendingStop' = IF state = "streaming" /\ state' = "idle" THEN {} ELSE pendingStop
  /\ UNCHANGED <<chat, draft, files, reviews, posts, improving, made, used, late>>

\* handleStop
Stop ==
  /\ isLoading
  /\ state' = "idle"
  /\ pendingStop' = {chat} \cap active
  /\ ClearInput
  /\ used' = [used EXCEPT !.files = @ \cup files]
  /\ posts' = Released(posts)
  /\ UNCHANGED <<chat, reviews, active, improving, made, late>>

\* The effects of a change of chatId: useInputState and useChatStreaming
Open(c) ==
  /\ c # chat
  /\ chat' = c
  /\ state' = IF c \in active /\ c \notin pendingStop THEN "streaming" ELSE "idle"
  /\ ClearInput
  /\ used' = [used EXCEPT !.files = @ \cup files]
  /\ posts' = Released(posts)
  /\ UNCHANGED <<reviews, active, pendingStop, improving, made, late>>

\* The message box: the text, what is attached to it, and its buttons
Input ==
  \/ Type \/ Attach \/ Enhance \/ Send \/ Stop
  \/ \E f \in files : RemoveFile(f)
  \/ \E r \in reviews : RemoveReview(r)

Next ==
  \/ Input \/ AddReview \/ EnhanceReturns \/ EnhanceFails
  \/ \E p \in posts : Take(p) \/ PostReturns(p) \/ PostFails(p)
  \/ \E c \in active : StreamEnds(c)
  \/ \E c \in Chats : Open(c)

Spec == Init /\ [][Next]_vars

-----------------------------------------------------------------------------
(* Properties *)

TypeOK ==
  /\ chat \in Chats /\ active \subseteq Chats /\ pendingStop \subseteq Chats
  /\ draft.id \in 0 .. made.texts /\ draft.improved \in BOOLEAN
  /\ files \subseteq 1 .. made.files
  /\ reviews \subseteq [id : 1 .. made.reviews, chat : Chats]
  /\ state \in {"idle", "loading", "streaming", "error"}
  /\ improving \in 0 .. made.texts
  /\ \A p, q \in posts : p.id = q.id => p = q

\* A text the user has typed is only taken out of the box by himself (typing,
\* Stop, another chat), by the improvement he asked for, or by the answer to
\* the message it was sent in.  The exception is the answer to a message he
\* stopped or left while it was sent: it clears whatever he typed since, also
\* in another chat.
DraftLeaves ==
  draft' # draft =>
    \/ Type \/ EnhanceReturns \/ Stop
    \/ \E c \in Chats : Open(c)
    \/ \E p \in posts : PostReturns(p) /\ (p.text = draft.id \/ p.left \/ draft.improved)
DraftKept == [][DraftLeaves]_vars

\* A review comment is in the list until the user removes it or a message has
\* brought it to the server; the exception is a comment written while a message
\* of its chat is being sent, which goes with the others.
ReviewsDelivered ==
  1 .. made.reviews \subseteq {r.id : r \in reviews} \cup used.reviews \cup late.reviews

\* So are the files, with the same exception; those of a message that was
\* stopped are dropped.
FilesDelivered ==
  1 .. made.files \subseteq files \cup used.files \cup late.files

\* The box is disabled only while a message of this chat is being sent, or
\* while some stream is active: it never stays disabled.
LoadingHasCause ==
  /\ state = "loading" => \E p \in posts : p.chat = chat /\ ~p.left
  /\ state = "streaming" => active # {}
=============================================================================
