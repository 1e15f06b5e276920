---------------------------- MODULE UserService ----------------------------
(***************************************************************************)
(* The settings of one user, a row with a copy in Redis, and the daily     *)
(* limit of messages.                                                      *)
(*   backend services/user.py                                              *)
(*   backend api/endpoints/settings.py; agents.py, skills.py and           *)
(*   commands.py as far as they read and commit the row                    *)
(*   backend services/chat.py (initiate_chat_completion, up to the row of  *)
(*   the message)                                                          *)
(*                                                                         *)
(* What matters of the row is which updates it has, so it is the set of    *)
(* them.  A step is one statement or one Redis command.                    *)
(***************************************************************************)
EXTENDS Naturals, FiniteSets

CONSTANTS
  Writers,   \* requests that change the settings
  Readers,   \* requests that read them
  Senders,   \* requests that send a message
  Limit,     \* daily_message_limit
  NoWriter,
  NoCopy,    \* the key is not set
  MaxFaults  \* bound: Redis commands that fail

VARIABLES
  row,       \* the updates the committed row has
  lock,      \* the writer that holds the row, or NoWriter
  copy,      \* the copy in Redis
  write,     \* writer -> [step: "idle", "modify", "commit", "invalidate" or "over",
             \* row: what it read]
  read,      \* reader -> [step: "idle", "select", "store" or "over", row]
  send,      \* sender -> "idle", "insert", "sent" or "refused"
  day,       \* the date: 1 or 2
  sentOn,    \* day -> messages of the day
  faults,
  overtaken, \* (history) the copy is of a row that was changed before it was stored
  failed,    \* (history) the copy should have been deleted and could not be
  crowd      \* (history) the most sends that were under way at a time

settings == <<row, lock, copy, write, read, faults, overtaken, failed>>
messages == <<send, day, sentOn, crowd>>
vars == <<settings, messages>>

Init ==
  /\ row = {} /\ lock = NoWriter /\ copy = NoCopy
  /\ write = [w \in Writers |-> [step |-> "idle", row |-> {}]]
  /\ read = [r \in Readers |-> [step |-> "idle", row |-> {}]]
  /\ send = [s \in Senders |-> "idle"] /\ day = 1 /\ sentOn = [d \in {1, 2} |-> 0]
  /\ faults = 0 /\ overtaken = FALSE /\ failed = FALSE /\ crowd = 0

-----------------------------------------------------------------------------
(* A change: PATCH /settings, or a list of agents, skills or commands *)

\* Mutant: SELECT without FOR UPDATE
SelectForUpdate_Plain(w) ==
  /\ write[w].step = "idle"
  /\ write' = [write EXCEPT ![w] = [step |-> "modify", row |-> row]]
  /\ UNCHANGED <<row, lock, copy, read, faults, overtaken, failed, messages>>

\* with_for_update: waits for the row, and reads it as it is then
SelectForUpdate(w) ==
  /\ write[w].step = "idle" /\ lock = NoWriter
  /\ lock' = w
  /\ write' = [write EXCEPT ![w] = [step |-> "modify", row |-> row]]
  /\ UNCHANGED <<row, copy, read, faults, overtaken, failed, messages>>

\* The change is made of what was read; a request may find that it has nothing to do.
Modify(w) ==
  /\ write[w].step = "modify"
  /\ \/ /\ write' = [write EXCEPT ![w] = [step |-> "commit", row |-> @.row \cup {w}]]
        /\ UNCHANGED lock
     \/ write' = [write EXCEPT ![w].step = "over"] /\ lock' = NoWriter
  /\ UNCHANGED <<row, copy, read, faults, overtaken, failed, messages>>

\* db.commit; what a reader has selected by now is old.
Commit(w) ==
  /\ write[w].step = "commit"
  /\ row' = write[w].row /\ lock' = NoWriter
  /\ write' = [write EXCEPT ![w].step = "invalidate"]
  /\ UNCHANGED <<copy, read, faults, overtaken, failed, messages>>

\* Mutant: a copy that is there is left to expire.
InvalidateSettingsCache_Never(w) ==
  /\ write[w].step = "invalidate"
  /\ write' = [write EXCEPT ![w].step = "over"]
  /\ UNCHANGED <<row, lock, copy, read, faults, overtaken, failed, messages>>

\* invalidate_settings_cache
InvalidateSettingsCache(w) ==
  /\ write[w].step = "invalidate"
  /\ copy' = NoCopy /\ overtaken' = FALSE /\ failed' = FALSE
  /\ write' = [write EXCEPT ![w].step = "over"]
  /\ UNCHANGED <<row, lock, read, faults, messages>>

\* Redis fails, and the request with it, though its change is committed.
InvalidateFails(w) ==
  /\ write[w].step = "invalidate" /\ faults < MaxFaults   \* bound
  /\ faults' = faults + 1 /\ failed' = (failed \/ copy # NoCopy)
  /\ write' = [write EXCEPT ![w].step = "over"]
  /\ UNCHANGED <<row, lock, copy, read, overtaken, messages>>

-----------------------------------------------------------------------------
(* get_user_settings, for a reader with a connection to Redis *)

\* redis.get: a copy is the answer.
Get(r) ==
  /\ read[r].step = "idle"
  /\ read' = [read EXCEPT ![r] = IF copy = NoCopy THEN [step |-> "select", row |-> {}]
                                 ELSE [step |-> "over", row |-> copy]]
  /\ UNCHANGED <<row, lock, copy, write, faults, overtaken, failed, messages>>

Select(r) ==
  /\ read[r].step = "select"
  /\ read' = [read EXCEPT ![r] = [step |-> "store", row |-> row]]
  /\ UNCHANGED <<row, lock, copy, write, faults, overtaken, failed, messages>>

\* setex, of what was selected
Store(r) ==
  /\ read[r].step = "store"
  /\ copy' = read[r].row
  /\ overtaken' = (read[r].row # row) /\ failed' = FALSE
  /\ read' = [read EXCEPT ![r].step = "over"]
  /\ UNCHANGED <<row, lock, write, faults, messages>>

\* The time to live of the copy ends; it ends what the copy had wrong.
Expire ==
  /\ copy # NoCopy
  /\ copy' = NoCopy
  /\ overtaken' = FALSE /\ failed' = FALSE
  /\ UNCHANGED <<row, lock, write, read, faults, messages>>

-----------------------------------------------------------------------------
(* The daily limit *)

UnderWay == {s \in Senders : send[s] = "insert"}

\* Mutant: a limit that is just reached lets one more through.
MayContinue_OneMore == sentOn[day] <= Limit

\* check_message_limit: a limit of 0 or less lets nobody through.
MayContinue == sentOn[day] < Limit

\* The count, a statement of its own
CheckMessageLimit(s) ==
  /\ send[s] = "idle"
  /\ send' = [send EXCEPT ![s] = IF MayContinue THEN "insert" ELSE "refused"]
  /\ LET n == Cardinality(UnderWay) + (IF MayContinue THEN 1 ELSE 0)
     IN crowd' = IF n > crowd THEN n ELSE crowd
  /\ UNCHANGED <<settings, day, sentOn>>

\* create_message, after the keys, the chat and the files; any of them may refuse.
CreateMessage(s) ==
  /\ send[s] = "insert"
  /\ \/ send' = [send EXCEPT ![s] = "sent"] /\ sentOn' = [sentOn EXCEPT ![day] = @ + 1]
     \/ send' = [send EXCEPT ![s] = "refused"] /\ UNCHANGED sentOn
  /\ UNCHANGED <<settings, day, crowd>>

Midnight ==
  /\ day = 1   \* bound
  /\ day' = 2
  /\ UNCHANGED <<settings, send, sentOn, crowd>>

Next ==
  \/ \E w \in Writers : SelectForUpdate(w) \/ Modify(w) \/ Commit(w)
                        \/ InvalidateSettingsCache(w) \/ InvalidateFails(w)
  \/ \E r \in Readers : Get(r) \/ Select(r) \/ Store(r)
  \/ Expire
  \/ \E s \in Senders : CheckMessageLimit(s) \/ CreateMessage(s)
  \/ Midnight

Spec == Init /\ [][Next]_vars

-----------------------------------------------------------------------------
TypeOK ==
  /\ row \subseteq Writers /\ lock \in Writers \cup {NoWriter}
  /\ copy \in SUBSET Writers \cup {NoCopy}
  /\ write \in [Writers -> [step : {"idle", "modify", "commit", "invalidate", "over"},
                            row : SUBSET Writers]]
  /\ read \in [Readers -> [step : {"idle", "select", "store", "over"},
                           row : SUBSET Writers]]
  /\ send \in [Senders -> {"idle", "insert", "sent", "refused"}]
  /\ day \in {1, 2} /\ sentOn \in [{1, 2} -> 0 .. Cardinality(Senders)]
  /\ faults <= MaxFaults /\ overtaken \in BOOLEAN /\ failed \in BOOLEAN
  /\ crowd <= Cardinality(Senders)

\* No change of the settings is lost: the row has every one that was committed, however many
\* requests change it at a time.
NoChangeLost ==
  \A w \in Writers :
    write[w].step \in {"invalidate", "over"} /\ w \in write[w].row => w \in row

\* The copy is the row, but for a change that has yet to delete it, a deletion that failed,
\* and a reader that stored what was changed while it read.
CopyIsRow ==
  copy \in {NoCopy, row} \/ overtaken \/ failed
  \/ \E w \in Writers : write[w].step = "invalidate"

\* A day has no more messages than allowed, but for sends that were under way at a time.
LimitKept ==
  \A d \in {1, 2} : sentOn[d] <= Limit + (IF crowd = 0 THEN 0 ELSE crowd - 1)
=============================================================================
