----------------------------- MODULE Permission -----------------------------
(***************************************************************************)
(* Tool permissions of ONE chat.  The permission server in the sandbox     *)
(* (e2b/permission_server.py) asks the API, which keeps a request key in   *)
(* Redis and waits on a pub/sub channel (endpoints/permissions.py); the    *)
(* page shows the request (permissionStore.ts, usePermissionRequest.ts)    *)
(* and its answer is published by permission_manager.py.                   *)
(*                                                                         *)
(* Time is left out: a TTL or a timeout may end at any step.               *)
(***************************************************************************)
EXTENDS Integers, Sequences

CONSTANTS NumRequests,   (* tool calls of the chat                          *)
          Devices,       (* pages that show the chat                        *)
          MaxFaults,     (* bound: Redis or network calls that fail         *)
          MaxReloads     (* bound: reloads of a page                        *)

ASSUME PermissionAssumption == /\ NumRequests \in Nat \ {0}
                               /\ MaxFaults \in Nat
                               /\ MaxReloads \in Nat

Requests == 1..NumRequests
Nothing == 0
Answers == {"approve", "reject"}
NoReply == [request |-> Nothing, answer |-> "reject", step |-> "none"]

VARIABLES
  mode,       (* PERMISSION_MODE of the sandbox                             *)
  (* the tool calls, as the permission server sees them *)
  planTool,   (* calls of EnterPlanMode or ExitPlanMode                     *)
  verdict,    (* "none", "pending", "allow", "deny"                         *)
  create,     (* POST /request: "none", "store", "publish", "created",      *)
              (* "failed"                                                   *)
  wait,       (* GET /response: "none", "get", "refresh", "subscribe",      *)
              (* "listen", "over"                                           *)
  (* Redis *)
  keys,       (* requests whose key exists                                  *)
  events,     (* the request events of the chat's stream                    *)
  heard,      (* the first answer a listening call received, or "none"      *)
  (* the pages *)
  shown,      (* pendingRequests.get(chatId) of a page                      *)
  seen,       (* how many of those events the page has received             *)
  reply,      (* the respond call the page is waiting for                   *)
  answered,   (* answers given by the user, per request (history)           *)
  faults, reloads

calls == <<planTool, verdict, create, wait>>
redis == <<keys, events, heard>>
pages == <<shown, seen, reply, answered>>
vars == <<mode, calls, redis, pages, faults, reloads>>
-----------------------------------------------------------------------------
Fault == faults > 0 /\ faults' = faults - 1

Init == /\ mode \in {"plan", "ask", "auto"}
        /\ planTool = {}
        /\ verdict = [r \in Requests |-> "none"]
        /\ create = [r \in Requests |-> "none"]
        /\ wait = [r \in Requests |-> "none"]
        /\ keys = {} /\ events = <<>>
        /\ heard = [r \in Requests |-> "none"]
        /\ shown = [d \in Devices |-> Nothing]
        /\ seen = [d \in Devices |-> 0]
        /\ reply = [d \in Devices |-> NoReply]
        /\ answered = [r \in Requests |-> {}]
        /\ faults = MaxFaults
        /\ reloads = MaxReloads
-----------------------------------------------------------------------------
(* handle_call_tool; the CLI may have several calls under way.             *)

MustAsk(isPlanTool) == mode = "ask" \/ isPlanTool

CallTool(r, isPlanTool) ==
    /\ verdict[r] = "none"
    /\ \A q \in Requests : q < r => verdict[q] # "none"
    /\ planTool' = IF isPlanTool THEN planTool \cup {r} ELSE planTool
    /\ IF MustAsk(isPlanTool)
       THEN /\ verdict' = [verdict EXCEPT ![r] = "pending"]
            /\ create' = [create EXCEPT ![r] = "store"]
       ELSE /\ verdict' = [verdict EXCEPT ![r] = "allow"]
            /\ UNCHANGED create
    /\ UNCHANGED <<mode, wait, redis, pages, faults, reloads>>

(* The sandbox's side of an HTTP call ends without a usable answer: a      *)
(* network error or a status other than 200.  The handler may go on.       *)
CallFails(r) ==
    /\ verdict[r] = "pending"
    /\ Fault
    /\ verdict' = [verdict EXCEPT ![r] = "deny"]
    /\ UNCHANGED <<mode, planTool, create, wait, redis, pages, reloads>>

(* Mutant: fails open. *)
Deny_FailsOpen(r) ==
    verdict' = [verdict EXCEPT ![r] = IF @ = "pending" THEN "allow" ELSE @]

Deny(r) == verdict' = [verdict EXCEPT ![r] = IF @ = "pending" THEN "deny" ELSE @]
-----------------------------------------------------------------------------
(* create_permission_request *)

StoreRequest(r) ==
    /\ create[r] = "store"
    /\ keys' = keys \cup {r}
    /\ create' = [create EXCEPT ![r] = "publish"]
    /\ UNCHANGED <<mode, planTool, verdict, wait, events, heard, pages, faults,
                   reloads>>

(* XADD's error is only logged, and then nobody sees the request. *)
PublishRequest(r) ==
    /\ create[r] = "publish"
    /\ create' = [create EXCEPT ![r] = "created"]
    /\ \/ events' = Append(events, r) /\ UNCHANGED faults
       \/ Fault /\ UNCHANGED events
    /\ UNCHANGED <<mode, planTool, verdict, wait, keys, heard, pages, reloads>>

(* SETEX or PUBLISH raises: the key is deleted and the call answered 500. *)
CreateFails(r) ==
    /\ create[r] \in {"store", "publish"}
    /\ Fault
    /\ create' = [create EXCEPT ![r] = "failed"]
    /\ keys' = keys \ {r}
    /\ Deny(r)
    /\ UNCHANGED <<mode, planTool, wait, events, heard, pages, reloads>>
-----------------------------------------------------------------------------
(* get_permission_response *)

StartWait(r) ==
    /\ create[r] = "created"
    /\ verdict[r] = "pending"
    /\ wait[r] = "none"
    /\ wait' = [wait EXCEPT ![r] = "get"]
    /\ UNCHANGED <<mode, planTool, verdict, create, redis, pages, faults, reloads>>

GetRequest(r) ==
    /\ wait[r] = "get"
    /\ IF r \in keys
       THEN wait' = [wait EXCEPT ![r] = "refresh"] /\ UNCHANGED verdict
       ELSE wait' = [wait EXCEPT ![r] = "over"] /\ Deny(r)
    /\ UNCHANGED <<mode, planTool, create, redis, pages, faults, reloads>>

(* SETEX: an expired key comes back. *)
RefreshTTL(r) ==
    /\ wait[r] = "refresh"
    /\ keys' = keys \cup {r}
    /\ wait' = [wait EXCEPT ![r] = "subscribe"]
    /\ UNCHANGED <<mode, planTool, verdict, create, events, heard, pages, faults,
                   reloads>>

Subscribe(r) ==
    /\ wait[r] = "subscribe"
    /\ wait' = [wait EXCEPT ![r] = "listen"]
    /\ UNCHANGED <<mode, planTool, verdict, create, redis, pages, faults, reloads>>

(* Mutant: the key is left to its TTL. *)
TakeAnswer_KeepsKey(r) ==
    /\ wait[r] = "listen"
    /\ heard[r] # "none"
    /\ wait' = [wait EXCEPT ![r] = "over"]
    /\ verdict' = [verdict EXCEPT ![r] =
                     IF @ # "pending" THEN @
                     ELSE IF heard[r] = "approve" THEN "allow" ELSE "deny"]
    /\ UNCHANGED <<mode, planTool, create, redis, pages, faults, reloads>>

TakeAnswer(r) ==
    /\ wait[r] = "listen"
    /\ heard[r] # "none"
    /\ wait' = [wait EXCEPT ![r] = "over"]
    /\ keys' = keys \ {r}
    /\ verdict' = [verdict EXCEPT ![r] =
                     IF @ # "pending" THEN @
                     ELSE IF heard[r] = "approve" THEN "allow" ELSE "deny"]
    /\ UNCHANGED <<mode, planTool, create, events, heard, pages, faults, reloads>>

(* Mutant: a timeout of the call is not a denial but tried no further. *)
WaitTimesOut_NoAnswer(r) ==
    /\ wait[r] = "listen"
    /\ wait' = [wait EXCEPT ![r] = "over"]
    /\ keys' = keys \ {r}
    /\ UNCHANGED <<mode, planTool, verdict, create, events, heard, pages, faults,
                   reloads>>

(* 408 *)
WaitTimesOut(r) ==
    /\ wait[r] = "listen"
    /\ wait' = [wait EXCEPT ![r] = "over"]
    /\ keys' = keys \ {r}
    /\ Deny(r)
    /\ UNCHANGED <<mode, planTool, create, events, heard, pages, faults, reloads>>

(* Redis fails: before the subscription the key is left, after it deleted. *)
WaitFails(r) ==
    /\ wait[r] \in {"get", "refresh", "subscribe", "listen"}
    /\ Fault
    /\ wait' = [wait EXCEPT ![r] = "over"]
    /\ keys' = IF wait[r] \in {"subscribe", "listen"} THEN keys \ {r} ELSE keys
    /\ Deny(r)
    /\ UNCHANGED <<mode, planTool, create, events, heard, pages, reloads>>

KeyExpires(r) ==
    /\ r \in keys
    /\ keys' = keys \ {r}
    /\ UNCHANGED <<mode, calls, events, heard, pages, faults, reloads>>
-----------------------------------------------------------------------------
(* The page.  The store holds one request per chat: the newest event wins, *)
(* and a respond call that succeeds clears whatever is there by then.      *)

ShowRequest(d) ==
    /\ seen[d] < Len(events)
    /\ seen' = [seen EXCEPT ![d] = @ + 1]
    /\ shown' = [shown EXCEPT ![d] = events[seen[d] + 1]]
    /\ UNCHANGED <<mode, calls, redis, reply, answered, faults, reloads>>

(* A reload forgets the store and replays the stream from its start. *)
Reload(d) ==
    /\ reloads > 0
    /\ reloads' = reloads - 1
    /\ shown' = [shown EXCEPT ![d] = Nothing]
    /\ seen' = [seen EXCEPT ![d] = 0]
    /\ reply' = [reply EXCEPT ![d] = NoReply]
    /\ UNCHANGED <<mode, calls, redis, answered, faults>>

(* Mutant: no check for a pending request. *)
Respond_NoPending(d, a) ==
    /\ reply[d].step = "none"
    /\ reply' = [reply EXCEPT ![d] = [request |-> shown[d], answer |-> a, step |-> "check"]]
    /\ answered' = [r \in Requests |-> IF r = shown[d] THEN answered[r] \cup {a} ELSE answered[r]]
    /\ UNCHANGED <<mode, calls, redis, shown, seen, faults, reloads>>

(* handleApprove, handleReject *)
Respond(d, a) ==
    /\ shown[d] # Nothing
    /\ reply[d].step = "none"
    /\ reply' = [reply EXCEPT ![d] = [request |-> shown[d], answer |-> a, step |-> "check"]]
    /\ answered' = [answered EXCEPT ![shown[d]] = @ \cup {a}]
    /\ UNCHANGED <<mode, calls, redis, shown, seen, faults, reloads>>

(* respond_to_permission: no key, hence 404. *)
CheckRequest(d) ==
    /\ reply[d].step = "check"
    /\ reply' = [reply EXCEPT ![d].step =
                   IF reply[d].request \in keys THEN "publish" ELSE "refused"]
    /\ UNCHANGED <<mode, calls, redis, shown, seen, answered, faults, reloads>>

(* PUBLISH reaches only who listens; success is reported all the same, and *)
(* an error of PUBLISH is reported as 404.                                 *)
PublishAnswer(d) ==
    /\ reply[d].step = "publish"
    /\ \/ /\ LET r == reply[d].request
             IN  heard' = [heard EXCEPT ![r] =
                   IF wait[r] = "listen" /\ @ = "none" THEN reply[d].answer ELSE @]
          /\ reply' = [reply EXCEPT ![d].step = "return"]
          /\ UNCHANGED faults
       \/ /\ Fault
          /\ reply' = [reply EXCEPT ![d].step = "refused"]
          /\ UNCHANGED heard
    /\ UNCHANGED <<mode, calls, keys, events, shown, seen, answered, reloads>>

(* Success clears the request, whichever is shown by then. *)
ReplyReturns(d) ==
    /\ reply[d].step = "return"
    /\ reply' = [reply EXCEPT ![d] = NoReply]
    /\ shown' = [shown EXCEPT ![d] = Nothing]
    /\ UNCHANGED <<mode, calls, redis, seen, answered, faults, reloads>>

(* handleServiceError keeps the text of an error and not its status, so    *)
(* that a 404 is not told from another error and the request stays shown.  *)
ReplyRefused(d) ==
    /\ reply[d].step = "refused"
    /\ reply' = [reply EXCEPT ![d] = NoReply]
    /\ UNCHANGED <<mode, calls, redis, shown, seen, answered, faults, reloads>>

(* Any other error, before or after the handler's work; nothing is tried   *)
(* again.                                                                  *)
ReplyLost(d) ==
    /\ reply[d].step \in {"check", "return", "refused"}
    /\ Fault
    /\ reply' = [reply EXCEPT ![d] = NoReply]
    /\ UNCHANGED <<mode, calls, redis, shown, seen, answered, reloads>>
-----------------------------------------------------------------------------
Create(r) == StoreRequest(r) \/ PublishRequest(r) \/ CreateFails(r)
Wait(r) == \/ StartWait(r) \/ GetRequest(r) \/ RefreshTTL(r) \/ Subscribe(r)
           \/ TakeAnswer(r) \/ WaitTimesOut(r) \/ WaitFails(r)
Page(d) == \/ ShowRequest(d)
           \/ \E a \in Answers : Respond(d, a)
           \/ Reload(d) \/ CheckRequest(d) \/ PublishAnswer(d) \/ ReplyReturns(d)
           \/ ReplyRefused(d) \/ ReplyLost(d)

Next == \/ \E r \in Requests : \/ \E isPlanTool \in BOOLEAN : CallTool(r, isPlanTool)
                               \/ CallFails(r) \/ Create(r) \/ Wait(r) \/ KeyExpires(r)
        \/ \E d \in Devices : Page(d)

Spec == Init /\ [][Next]_vars

(* The two handlers run, and a wait that nobody answers times out. *)
LiveSpec == Spec /\ \A r \in Requests : WF_vars(Create(r)) /\ WF_vars(Wait(r))
-----------------------------------------------------------------------------
Reply == [request : Requests \cup {Nothing}, answer : Answers,
          step : {"none", "check", "publish", "return", "refused"}]

TypeOK ==
    /\ mode \in {"plan", "ask", "auto"}
    /\ planTool \subseteq Requests
    /\ verdict \in [Requests -> {"none", "pending", "allow", "deny"}]
    /\ create \in [Requests -> {"none", "store", "publish", "created", "failed"}]
    /\ wait \in [Requests -> {"none", "get", "refresh", "subscribe", "listen", "over"}]
    /\ keys \subseteq Requests /\ events \in Seq(Requests)
    /\ heard \in [Requests -> Answers \cup {"none"}]
    /\ shown \in [Devices -> Requests \cup {Nothing}]
    /\ seen \in [Devices -> Nat]
    /\ reply \in [Devices -> Reply]
    /\ \A d \in Devices : reply[d].step # "none" => reply[d].request # Nothing
    /\ answered \in [Requests -> SUBSET Answers]
    /\ faults \in 0..MaxFaults /\ reloads \in 0..MaxReloads

(* A tool that needs permission runs only if the user approved this very   *)
(* call: no failure, timeout, expiry, or answer to another call lets it.   *)
OnlyApprovedRuns ==
    \A r \in Requests :
        verdict[r] = "allow" /\ (mode = "ask" \/ r \in planTool)
            => "approve" \in answered[r]

(* Unless Redis or the network failed, a wait that has ended leaves no key *)
(* behind, not even the one it refreshed: a later answer is refused.       *)
EndedRequestIsGone ==
    \A r \in Requests : wait[r] = "over" /\ faults = MaxFaults => r \notin keys

(* Every tool call gets its answer, whatever the user and Redis do. *)
EveryCallEnds == \A r \in Requests : (verdict[r] = "pending") ~> (verdict[r] \in {"allow", "deny"})
=============================================================================
