------------------------------- MODULE Asking -------------------------------
(***************************************************************************)
(* The dialog that asks for permission, on a page that moves between       *)
(* chats while requests come and end and answers are under way.            *)
(*   frontend hooks/usePermissionRequest.ts, store/permissionStore.ts,     *)
(*   components/chat/tools/ToolPermissionModal.tsx,                        *)
(*   hooks/useStreamCallbacks.ts, services/base/BaseService.ts             *)
(*                                                                         *)
(* What the server does of it is in Permission: here a request waits until *)
(* it is answered or ends.  The store holds one request per chat; dialog   *)
(* and flag belong to the page and are shared by its chats.                *)
(***************************************************************************)
EXTENDS Naturals, FiniteSetsExt

CONSTANTS
  Chats,
  NumRequests,  \* bound: requests
  Plans,        \* those that ask to leave the plan mode
  MaxMoves,     \* bound: changes of the chat and of the page, and reloads of the browser
  MaxErrors     \* bound: responses that fail

VARIABLES
  asked,        \* number of requests of each chat so far
  waiting,      \* those the server waits on
  said,         \* what the server was told: per request the text that came with it
  heard,        \* number of requests of each chat the page has heard of
  pending,      \* pendingRequests: the request of a chat, or 0
  chatId, page, \* the chat, and the number of the page that shows it
  isLoading,
  showRejectInput, alternativeInstruction,  \* the text: the request it was typed for, or none
  responses,    \* calls of respondToPermission under way
  mode,         \* permissionMode
  approvedPlan, \* the server has accepted the approval of a plan (history)
  strayed,      \* the dialog went on to another request with a text in it (history)
  hidden,       \* chats whose newer request an answer to an older one took away (history)
  moves, errors

server == <<asked, waiting, said>>
dialog == <<isLoading, showRejectInput, alternativeInstruction, strayed>>
vars == <<server, heard, pending, chatId, page, dialog, responses, mode, approvedPlan,
          hidden, moves, errors>>

Requests == Chats \X (1 .. NumRequests)
NoText == [of |-> <<>>, strayed |-> FALSE]
Plan(r) == r[2] \in Plans

Init ==
  /\ asked = [c \in Chats |-> 0] /\ waiting = {}
  /\ said = [r \in Requests |-> NoText]
  /\ heard = [c \in Chats |-> 0] /\ pending = [c \in Chats |-> 0]
  /\ chatId \in Chats /\ page = 1
  /\ isLoading = FALSE /\ showRejectInput = FALSE /\ alternativeInstruction = <<>>
  /\ strayed = FALSE
  /\ responses = {} /\ mode = "plan" /\ approvedPlan = FALSE /\ hidden = {}
  /\ moves = 0 /\ errors = 0

-----------------------------------------------------------------------------
(* The agent *)

Ask(c) ==
  /\ MapThenSumSet(LAMBDA d : asked[d], Chats) < NumRequests
  /\ asked' = [asked EXCEPT ![c] = @ + 1]
  /\ waiting' = waiting \cup {<<c, asked'[c]>>}
  /\ UNCHANGED <<said, heard, pending, chatId, page, dialog, responses, mode, approvedPlan,
                 hidden, moves, errors>>

\* It times out, or its turn ends.
Expire(r) ==
  /\ r \in waiting
  /\ waiting' = waiting \ {r}
  /\ UNCHANGED <<asked, said, heard, pending, chatId, page, dialog, responses, mode,
                 approvedPlan, hidden, moves, errors>>

-----------------------------------------------------------------------------
(* The dialog follows the request of the chat, its input and text stay. *)
Follows ==
  strayed' = (strayed \/ /\ showRejectInput
                         /\ <<chatId', pending'[chatId']>> # <<chatId, pending[chatId]>>)

\* onChunk, handlePermissionRequest: the newest replaces what is there.  The stream
\* of a chat goes on while another is shown.
Hear(c) ==
  /\ heard[c] < asked[c]
  /\ heard' = [heard EXCEPT ![c] = @ + 1]
  /\ pending' = [pending EXCEPT ![c] = heard'[c]]
  /\ hidden' = hidden \ {c}
  /\ UNCHANGED <<server, chatId, page, isLoading, showRejectInput, alternativeInstruction,
                 responses, mode, approvedPlan, moves, errors>>
  /\ Follows

OpenChat(c) ==
  /\ c # chatId /\ moves < MaxMoves
  /\ moves' = moves + 1
  /\ chatId' = c
  /\ UNCHANGED <<server, heard, pending, page, isLoading, showRejectInput,
                 alternativeInstruction, responses, mode, approvedPlan, hidden, errors>>
  /\ Follows

NewPage ==
  /\ page' = page + 1
  /\ isLoading' = FALSE /\ showRejectInput' = FALSE /\ alternativeInstruction' = <<>>
  /\ strayed' = FALSE

\* The user leaves the chat page and comes back.
Leave ==
  /\ moves < MaxMoves
  /\ moves' = moves + 1
  /\ NewPage
  /\ UNCHANGED <<server, heard, pending, chatId, responses, mode, approvedPlan, hidden, errors>>

\* The store is gone, and the stream is replayed from its start.
Reload ==
  /\ moves < MaxMoves
  /\ moves' = moves + 1
  /\ NewPage
  /\ pending' = [c \in Chats |-> 0] /\ heard' = [c \in Chats |-> 0] /\ hidden' = {}
  /\ responses' = {[x EXCEPT !.by = 0] : x \in responses}
  /\ UNCHANGED <<server, chatId, mode, approvedPlan, errors>>

-----------------------------------------------------------------------------
(* ToolPermissionModal *)

Shown == pending[chatId] # 0
Request == <<chatId, pending[chatId]>>

\* The buttons are disabled while a response of this page is under way.
Enabled == Shown /\ ~isLoading

\* handleReject with no input: it is opened, with the text it had.
OpenInput ==
  /\ Enabled /\ ~showRejectInput
  /\ showRejectInput' = TRUE
  /\ UNCHANGED <<server, heard, pending, chatId, page, isLoading, alternativeInstruction,
                 strayed, responses, mode, approvedPlan, hidden, moves, errors>>

Type ==
  /\ Enabled /\ showRejectInput /\ alternativeInstruction = <<>>
  /\ alternativeInstruction' = Request
  /\ strayed' = FALSE
  /\ UNCHANGED <<server, heard, pending, chatId, page, isLoading, showRejectInput,
                 responses, mode, approvedPlan, hidden, moves, errors>>

\* The call is about the request of this moment.
Respond(approve, text) ==
  /\ isLoading' = TRUE
  /\ responses' = responses \cup {[of |-> Request, approve |-> approve, text |-> text,
                                   by |-> page, step |-> "sent"]}

handleApprove ==
  /\ Enabled /\ ~showRejectInput
  /\ Respond(TRUE, NoText)
  /\ UNCHANGED <<server, heard, pending, chatId, page, showRejectInput,
                 alternativeInstruction, strayed, mode, approvedPlan, hidden, moves,
                 errors>>

\* Mutant: the text stays in the closed input.
Cleared_Closes == showRejectInput' = FALSE /\ UNCHANGED <<alternativeInstruction, strayed>>

Cleared == showRejectInput' = FALSE /\ alternativeInstruction' = <<>> /\ strayed' = FALSE

\* `Send Instructions'
handleReject ==
  /\ Enabled /\ showRejectInput /\ alternativeInstruction # <<>>
  /\ Respond(FALSE, [of |-> alternativeInstruction, strayed |-> strayed])
  /\ Cleared
  /\ UNCHANGED <<server, heard, pending, chatId, page, mode, approvedPlan, hidden, moves, errors>>

handleJustReject ==
  /\ Enabled /\ showRejectInput
  /\ Respond(FALSE, NoText)
  /\ Cleared
  /\ UNCHANGED <<server, heard, pending, chatId, page, mode, approvedPlan, hidden, moves, errors>>

-----------------------------------------------------------------------------
(* respondToPermission *)

Step(x, step) == responses' = (responses \ {x}) \cup {[x EXCEPT !.step = step]}

\* Whoever waits hears it; a request that ended is refused.
HandleResponse(x) ==
  /\ x.step = "sent"
  /\ IF x.of \in waiting
     THEN /\ Step(x, "ok")
          /\ waiting' = waiting \ {x.of}
          /\ said' = [said EXCEPT ![x.of] = x.text]
          /\ approvedPlan' = (approvedPlan \/ (x.approve /\ Plan(x.of)))
     ELSE /\ Step(x, "error")
          /\ UNCHANGED <<waiting, said, approvedPlan>>
  /\ UNCHANGED <<asked, heard, pending, chatId, page, dialog, mode, hidden, moves, errors>>

\* It fails on its way, or its answer does.
ResponseFails(x) ==
  /\ x.step \in {"sent", "ok"} /\ errors < MaxErrors
  /\ errors' = errors + 1
  /\ Step(x, "error")
  /\ UNCHANGED <<server, heard, pending, chatId, page, dialog, mode, approvedPlan, hidden,
                 moves>>

\* Mutant: every failure clears the request.
AfterError_Clears(c) == pending' = [pending EXCEPT ![c] = 0]

\* isExpiredRequestError looks for the status 404, which handleServiceError does not
\* keep: no failure clears the request.
AfterError(c) == UNCHANGED pending

\* Mutant: the flag is reset after a success only.
LoadingAfter_Success(x) == IF x.by = page /\ x.step = "ok" THEN FALSE ELSE isLoading

\* finally
LoadingAfter(x) == IF x.by = page THEN FALSE ELSE isLoading

\* Mutant: the mode is changed whatever the answer.
ModeAfter_Any(x) == IF x.approve /\ Plan(x.of) THEN "auto" ELSE mode

ModeAfter(x) == IF x.step = "ok" /\ x.approve /\ Plan(x.of) THEN "auto" ELSE mode

\* The store is cleared of the chat's request, be it another by then.
Responded(x) ==
  /\ x.step \in {"ok", "error"} /\ x.by # 0
  /\ responses' = responses \ {x}
  /\ mode' = ModeAfter(x)
  /\ LET c == x.of[1]
     IN  IF x.step = "ok"
         THEN /\ pending' = [pending EXCEPT ![c] = 0]
              /\ hidden' = IF pending[c] \in {0, x.of[2]} THEN hidden ELSE hidden \cup {c}
         ELSE AfterError(c) /\ UNCHANGED hidden
  /\ isLoading' = LoadingAfter(x)
  /\ UNCHANGED <<server, heard, chatId, page, showRejectInput, alternativeInstruction,
                 approvedPlan, moves, errors>>
  /\ Follows

\* Nobody is there to be told after a reload.
Forgotten(x) ==
  /\ x.step \in {"ok", "error"} /\ x.by = 0
  /\ responses' = responses \ {x}
  /\ UNCHANGED <<server, heard, pending, chatId, page, dialog, mode, approvedPlan, hidden,
                 moves, errors>>

\* The dialog: its two buttons, and the text that tells why not
ToolPermissionModal ==
  OpenInput \/ Type \/ handleApprove \/ handleReject \/ handleJustReject

Next ==
  \/ \E c \in Chats : Hear(c) \/ OpenChat(c) \/ Ask(c)
  \/ \E r \in Requests : Expire(r)
  \/ Leave \/ Reload \/ ToolPermissionModal
  \/ \E x \in responses : HandleResponse(x) \/ ResponseFails(x) \/ Responded(x) \/ Forgotten(x)

Spec == Init /\ [][Next]_vars

-----------------------------------------------------------------------------
(* Properties *)

TypeOK ==
  /\ asked \in [Chats -> 0 .. NumRequests]
  /\ waiting \subseteq Requests /\ mode \in {"plan", "auto"} /\ hidden \subseteq Chats
  /\ \A c \in Chats : heard[c] <= asked[c] /\ pending[c] <= heard[c]
  /\ {isLoading, showRejectInput, strayed} \subseteq BOOLEAN
  /\ alternativeInstruction \in Requests \cup {<<>>}

\* An instruction reaches the request it was typed for, unless another took its place
\* in the dialog while the input was open.
InstructionIsForIt ==
  \A r \in Requests : said[r].of \in {<<>>, r} \/ said[r].strayed

\* The request that the agent waits on is on its page, once it has been heard of and no
\* response of the chat is under way, unless the answer to an older one took it away.
RequestIsShown ==
  \A c \in Chats :
    /\ <<c, asked[c]>> \in waiting /\ heard[c] = asked[c] /\ c \notin hidden
    /\ \A x \in responses : x.of[1] # c
    => pending[c] = asked[c]

\* The buttons are disabled only while a response of this page is under way.
ButtonsComeBack == isLoading => \E x \in responses : x.by = page

\* The page leaves the plan mode only once the server has taken the approval of a plan.
PlanLeft == mode = "auto" => approvedPlan
=============================================================================
