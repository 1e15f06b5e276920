----------------------------- MODULE Sandboxes -----------------------------
(***************************************************************************)
(* The chats of one user with their sandboxes and messages: creation,      *)
(* deletion of one chat and of all, and prompts that are sent meanwhile.   *)
(*   backend services/chat.py (create_chat, delete_chat, delete_all_chats, *)
(*   get_chat, initiate_chat_completion up to the rows of the turn)        *)
(*   backend services/sandbox.py (create_sandbox, initialize_sandbox,      *)
(*   delete_sandbox, _delete_sandbox_deferred, _retry_operation)           *)
(*   backend services/message.py (create_message)                          *)
(*                                                                         *)
(* A chat is known by the number of its sandbox.  A step is one statement, *)
(* commit or call of the sandbox service; the deferred deletions live in   *)
(* the memory of the server.  The chats of scheduled tasks, which outlive  *)
(* their sandboxes, are not among these.                                   *)
(***************************************************************************)
EXTENDS Naturals, FiniteSets, FiniteSetsExt

CONSTANTS
  NumSandboxes,  \* bound: sandboxes
  Setups,        \* the tasks of initialize_sandbox
  Creators,      \* requests that create a chat
  Removers,      \* requests that delete one chat or all
  Senders,       \* requests that send a prompt
  MaxFaults      \* bound: calls that fail, answers that are lost, restarts

VARIABLES
  sandbox,   \* "none", "running" or "killed"
  row,       \* the row of its chat: "none", "live" or "deleted"
  create,    \* creator -> [step: "create", "setup", "insert" or "over", id, todo: Setups left]
  remove,    \* remover -> [step: "idle", "one", "all" or "over", ids: what it has selected]
  kills,     \* tasks of _delete_sandbox_deferred
  send,      \* sender -> [step: "idle", "found", "asked" or "over", id]
  messages,  \* the rows that are not deleted: [send, role]
  faults,
  leaked,    \* (history) sandboxes a failure left behind
  late       \* (history) senders whose chat was deleted while they were under way

requests == <<create, remove, send>>
vars == <<sandbox, row, requests, kills, messages, faults, leaked, late>>

Ids == 1 .. NumSandboxes
Nothing == 0
Live == {c \in Ids : row[c] = "live"}
New == {c \in Ids : sandbox[c] = "none"}
MessagesOf(c) == {m \in messages : send[m.send].id = c}

Init ==
  /\ sandbox = [c \in Ids |-> "none"] /\ row = [c \in Ids |-> "none"]
  /\ create = [r \in Creators |-> [step |-> "create", id |-> Nothing, todo |-> {}]]
  /\ remove = [d \in Removers |-> [step |-> "idle", ids |-> {}]] /\ kills = {}
  /\ send = [s \in Senders |-> [step |-> "idle", id |-> Nothing]] /\ messages = {}
  /\ faults = 0 /\ leaked = {} /\ late = {}

Fault == faults < MaxFaults /\ faults' = faults + 1   \* bound

-----------------------------------------------------------------------------
(* create_chat, after its checks *)

CreateSandbox(r) ==
  /\ create[r].step = "create" /\ New # {}   \* bound
  /\ sandbox' = [sandbox EXCEPT ![Min(New)] = "running"]
  /\ create' = [create EXCEPT ![r] = [step |-> "setup", id |-> Min(New), todo |-> Setups]]
  /\ UNCHANGED <<row, remove, kills, send, messages, faults, leaked, late>>

\* The answer is lost, and _retry_operation asks for another one.
CreateLost(r) ==
  /\ create[r].step = "create" /\ New # {} /\ Fault
  /\ sandbox' = [sandbox EXCEPT ![Min(New)] = "running"]
  /\ leaked' = leaked \cup {Min(New)}
  /\ UNCHANGED <<row, requests, kills, messages, late>>

\* gather goes on with all of them.
SetUp(r) ==
  /\ create[r].step = "setup"
  /\ \E t \in create[r].todo :
       LET rest == create[r].todo \ {t}
       IN create' = [create EXCEPT ![r].todo = rest,
                                   ![r].step = IF rest = {} THEN "insert" ELSE "setup"]
  /\ UNCHANGED <<sandbox, row, remove, kills, send, messages, faults, leaked, late>>

\* One of them, or the insert of the row, fails; what was created stays.
CreateFails(r) ==
  /\ create[r].step \in {"setup", "insert"} /\ Fault
  /\ create' = [create EXCEPT ![r].step = "over"]
  /\ leaked' = leaked \cup {create[r].id}
  /\ UNCHANGED <<sandbox, row, remove, kills, send, messages, late>>

\* The row, which names the sandbox, is committed.
InsertChat(r) ==
  /\ create[r].step = "insert"
  /\ row' = [row EXCEPT ![create[r].id] = "live"]
  /\ create' = [create EXCEPT ![r].step = "over"]
  /\ UNCHANGED <<sandbox, remove, kills, send, messages, faults, leaked, late>>

-----------------------------------------------------------------------------
(* delete_chat and delete_all_chats *)

UnderWayIn(cs) == {s \in Senders : send[s].step \in {"found", "asked"} /\ send[s].id \in cs}

\* Mutant: the sandbox is deleted before the row.
SelectChat_KillsFirst(d) ==
  /\ remove[d].step = "idle"
  /\ \E c \in Live : /\ remove' = [remove EXCEPT ![d] = [step |-> "one", ids |-> {c}]]
                     /\ kills' = kills \cup {c}
  /\ UNCHANGED <<sandbox, row, create, send, messages, faults, leaked, late>>

SelectChat(d) ==
  /\ remove[d].step = "idle"
  /\ \E c \in Live : remove' = [remove EXCEPT ![d] = [step |-> "one", ids |-> {c}]]
  /\ UNCHANGED <<sandbox, row, create, kills, send, messages, faults, leaked, late>>

\* Mutant: the messages are kept.
DeleteChat_KeepsMessages(d) ==
  /\ remove[d].step = "one"
  /\ row' = [c \in Ids |-> IF c \in remove[d].ids THEN "deleted" ELSE row[c]]
  /\ kills' = kills \cup remove[d].ids
  /\ late' = late \cup UnderWayIn(remove[d].ids)
  /\ remove' = [remove EXCEPT ![d].step = "over"]
  /\ UNCHANGED <<sandbox, create, send, messages, faults, leaked>>

\* The chat and its messages are deleted in one commit, and its sandbox will be.
DeleteChat(d) ==
  /\ remove[d].step = "one"
  /\ row' = [c \in Ids |-> IF c \in remove[d].ids THEN "deleted" ELSE row[c]]
  /\ messages' = messages \ UNION {MessagesOf(c) : c \in remove[d].ids}
  /\ kills' = kills \cup remove[d].ids
  /\ late' = late \cup UnderWayIn(remove[d].ids)
  /\ remove' = [remove EXCEPT ![d].step = "over"]
  /\ UNCHANGED <<sandbox, create, send, faults, leaked>>

\* The sandboxes are listed by a statement of its own.
SelectSandboxes(d) ==
  /\ remove[d].step = "idle"
  /\ remove' = [remove EXCEPT ![d] = [step |-> "all", ids |-> Live]]
  /\ UNCHANGED <<sandbox, row, create, kills, send, messages, faults, leaked, late>>

\* Mutant: the sandboxes are left to their owners.
DeleteAllChats_KeepsSandboxes(d) ==
  /\ remove[d].step = "all"
  /\ row' = [c \in Ids |-> IF c \in Live THEN "deleted" ELSE row[c]]
  /\ messages' = {}
  /\ leaked' = leaked \cup (Live \ remove[d].ids)
  /\ late' = late \cup UnderWayIn(Live)
  /\ remove' = [remove EXCEPT ![d].step = "over"]
  /\ UNCHANGED <<sandbox, create, kills, send, faults>>

\* All chats are deleted, one that was created after the list was made included, and all
\* messages of the user's chats, the deleted ones included.
DeleteAllChats(d) ==
  /\ remove[d].step = "all"
  /\ row' = [c \in Ids |-> IF c \in Live THEN "deleted" ELSE row[c]]
  /\ messages' = {}
  /\ kills' = kills \cup remove[d].ids
  /\ leaked' = leaked \cup (Live \ remove[d].ids)
  /\ late' = late \cup UnderWayIn(Live)
  /\ remove' = [remove EXCEPT ![d].step = "over"]
  /\ UNCHANGED <<sandbox, create, send, faults>>

\* The commit fails.
RemoveFails(d) ==
  /\ remove[d].step \in {"one", "all"} /\ Fault
  /\ remove' = [remove EXCEPT ![d].step = "over"]
  /\ UNCHANGED <<sandbox, row, create, kills, send, messages, leaked, late>>

\* _delete_sandbox_deferred; one that is gone already cannot be connected to.
Kill(c) ==
  /\ c \in kills
  /\ kills' = kills \ {c}
  /\ sandbox' = [sandbox EXCEPT ![c] = "killed"]
  /\ UNCHANGED <<row, requests, messages, faults, leaked, late>>

\* It gives up after its retries.
KillFails(c) ==
  /\ c \in kills /\ Fault
  /\ kills' = kills \ {c}
  /\ leaked' = leaked \cup {c}
  /\ UNCHANGED <<sandbox, row, requests, messages, late>>

-----------------------------------------------------------------------------
(* initiate_chat_completion *)

GetChat(s) ==
  /\ send[s].step = "idle"
  /\ \E c \in Live : send' = [send EXCEPT ![s] = [step |-> "found", id |-> c]]
  /\ UNCHANGED <<sandbox, row, create, remove, kills, messages, faults, leaked, late>>

\* create_message, which does not look at the chat again
CreateMessage(s) ==
  \/ /\ send[s].step = "found"
     /\ send' = [send EXCEPT ![s].step = "asked"]
     /\ messages' = messages \cup {[send |-> s, role |-> "user"]}
     /\ UNCHANGED <<sandbox, row, create, remove, kills, faults, leaked, late>>
  \/ /\ send[s].step = "asked"
     /\ send' = [send EXCEPT ![s].step = "over"]
     /\ messages' = messages \cup {[send |-> s, role |-> "assistant"]}
     /\ UNCHANGED <<sandbox, row, create, remove, kills, faults, leaked, late>>

-----------------------------------------------------------------------------
\* The server restarts: requests under way and deferred deletions are gone.
Restart ==
  /\ Fault
  /\ create' = [r \in Creators |-> [create[r] EXCEPT !.step = "over"]]
  /\ remove' = [d \in Removers |-> [remove[d] EXCEPT !.step = "over"]]
  /\ send' = [s \in Senders |-> [send[s] EXCEPT !.step = "over"]]
  /\ kills' = {}
  /\ leaked' = leaked \cup kills
       \cup {create[r].id : r \in {q \in Creators : create[q].step \in {"setup", "insert"}}}
  /\ UNCHANGED <<sandbox, row, messages, late>>

Next ==
  \/ \E r \in Creators : \/ CreateSandbox(r) \/ CreateLost(r) \/ SetUp(r) \/ CreateFails(r)
                         \/ InsertChat(r)
  \/ \E d \in Removers : \/ SelectChat(d) \/ DeleteChat(d) \/ SelectSandboxes(d)
                         \/ DeleteAllChats(d) \/ RemoveFails(d)
  \/ \E c \in Ids : Kill(c) \/ KillFails(c)
  \/ \E s \in Senders : GetChat(s) \/ CreateMessage(s)
  \/ Restart

Spec == Init /\ [][Next]_vars

-----------------------------------------------------------------------------
TypeOK ==
  /\ sandbox \in [Ids -> {"none", "running", "killed"}]
  /\ row \in [Ids -> {"none", "live", "deleted"}]
  /\ create \in [Creators -> [step : {"create", "setup", "insert", "over"},
                              id : Ids \cup {Nothing}, todo : SUBSET Setups]]
  /\ remove \in [Removers -> [step : {"idle", "one", "all", "over"}, ids : SUBSET Ids]]
  /\ kills \subseteq Ids
  /\ send \in [Senders -> [step : {"idle", "found", "asked", "over"},
                           id : Ids \cup {Nothing}]]
  /\ messages \subseteq [send : Senders, role : {"user", "assistant"}]
  /\ faults <= MaxFaults /\ leaked \subseteq Ids /\ late \subseteq Senders

\* A chat that is not deleted has its sandbox, whatever deletions overlap or fail.
ChatHasSandbox == \A c \in Live : sandbox[c] = "running" /\ c \notin kills

\* No sandbox runs on without a chat: it has one, or is being created or deleted, unless a
\* failure or a chat created beside delete_all_chats left it behind.
SandboxHasChat ==
  \A c \in Ids \ leaked : sandbox[c] = "running" =>
    \/ c \in Live \/ c \in kills
    \/ \E r \in Creators : create[r].id = c /\ create[r].step \in {"setup", "insert"}

\* A deleted chat has no messages, but those of a prompt that was under way.
DeletedIsEmpty ==
  \A c \in Ids : row[c] = "deleted" => \A m \in MessagesOf(c) : m.send \in late
=============================================================================
