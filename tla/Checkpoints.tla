---------------------------- MODULE Checkpoints ----------------------------
(***************************************************************************)
(* The checkpoints of one chat: after a turn the worker copies the home    *)
(* directory of the sandbox to a directory of its own and prunes the       *)
(* oldest, and the user goes back to an earlier message.                   *)
(*   backend services/sandbox.py (create_checkpoint, list_checkpoints,     *)
(*   _cleanup_old_checkpoints, restore_checkpoint, restore_to_message)     *)
(*   backend services/chat.py (restore_to_checkpoint)                      *)
(*   backend services/message.py (delete_messages_after)                   *)
(*   backend tasks/chat_processor.py (_create_checkpoint_if_needed,        *)
(*   _finalize_stream, _update_session_id)                                 *)
(*   frontend message-bubble/Message.tsx, useChatQueries.ts                *)
(*                                                                         *)
(* `complete' is published before the checkpoint is made, so the page may  *)
(* restore or send the next prompt while the worker is still copying.      *)
(* rsync -a gives the copy the modification time of the home directory,    *)
(* which is the date that list_checkpoints sorts by; it changes only when  *)
(* an entry of the directory itself comes or goes.  Directories of one     *)
(* date come in the order of their names, which are random.                *)
(***************************************************************************)
EXTENDS Naturals, Sequences, FiniteSets, SequencesExt

CONSTANTS
  NumMessages,  \* bound: turns
  Keep,         \* MAX_CHECKPOINTS_PER_SANDBOX, 20
  Files,        \* the files of the home directory
  MaxWorks,     \* bound: changes of the files
  MaxRestores,  \* bound: restores
  MaxFaults     \* bound: commands and statements that fail

VARIABLES
  order,      \* message -> the place of its name in the alphabet
  home,       \* the home directory: its files and its modification time
  disk,       \* the checkpoints: message -> its files and modification time
  rows,       \* the messages of the chat
  named,      \* those with a checkpoint_id
  session,    \* the message whose session the chat's row names; 0 is none
  step,       \* message -> its turn: "none", "running", "copy", "prune", "name" or "done"
  todo,       \* message -> files still to copy, or checkpoints still to prune
  restore,    \* a request to restore: its message, its step and the files still to copy
  works, restores, faults,
  left,       \* (history) message -> the files as its turn left them
  mixed,      \* (history) messages during whose copy the files were changed
  backdated,  \* (history) a copy was made beside another, or is not the newest by its date
  torn        \* (history) a restore failed after it had changed something

turns == <<step, todo>>
budget == <<works, restores, faults>>
history == <<left, mixed, backdated, torn>>
vars == <<order, home, disk, rows, named, session, turns, restore, budget, history>>

Messages == 1 .. NumMessages
Missing == MaxWorks + 1   \* not a version of a file
NoRestore == [m |-> 0, step |-> "idle", todo |-> {}]
Copying == {m \in Messages : step[m] = "copy"}

Without(f, m) == [x \in DOMAIN f \ {m} |-> f[x]]
With(f, m, v) == [x \in DOMAIN f \cup {m} |-> IF x = m THEN v ELSE f[x]]

Orders == {o \in [Messages -> Messages] : \A a, b \in Messages : o[a] = o[b] => a = b}

Init ==
  /\ order \in Orders
  /\ home = [files |-> [f \in Files |-> 0], time |-> 0]
  /\ disk = [m \in {} |-> home] /\ rows = {} /\ named = {} /\ session = 0
  /\ step = [m \in Messages |-> "none"] /\ todo = [m \in Messages |-> {}]
  /\ restore = NoRestore
  /\ works = 0 /\ restores = 0 /\ faults = 0
  /\ left = [m \in Messages |-> home.files] 
  /\ mixed = {} /\ backdated = FALSE /\ torn = FALSE

-----------------------------------------------------------------------------
(* A turn, as far as it matters here *)

Running == {m \in Messages : step[m] = "running"}

\* The page sends when no turn is streaming and no restore is under way.
Start(m) ==
  /\ step[m] = "none" /\ Running = {} /\ restore = NoRestore
  /\ \A k \in 1 .. m - 1 : step[k] # "none"
  /\ rows' = rows \cup {m}
  /\ step' = [step EXCEPT ![m] = "running"]
  /\ UNCHANGED <<order, home, disk, named, session, todo, restore, budget, history>>

\* _update_session_id, when the CLI has told its session, which it does first
SessionTold(m) ==
  /\ step[m] = "running" /\ session # m
  /\ session' = m
  /\ UNCHANGED <<order, home, disk, rows, named, turns, restore, budget, history>>

\* The CLI changes a file; in the home directory itself that may be a new entry.
Work(m) ==
  /\ step[m] = "running" /\ session = m /\ works < MaxWorks   \* bound
  /\ works' = works + 1
  /\ \E f \in Files, entry \in BOOLEAN :
       home' = [files |-> [home.files EXCEPT ![f] = works + 1],
                time |-> IF entry THEN works + 1 ELSE home.time]
  /\ mixed' = mixed \cup Copying
  /\ UNCHANGED <<order, disk, rows, named, session, turns, restore, restores, faults, left,
                 backdated, torn>>

\* _finalize_stream publishes `complete' and goes on to the checkpoint, of which rsync makes
\* the directory first.  A turn that did not complete has none.
Finalize(m) ==
  /\ step[m] = "running" /\ session = m
  /\ left' = [left EXCEPT ![m] = home.files]
  /\ \/ /\ step' = [step EXCEPT ![m] = "copy"] /\ todo' = [todo EXCEPT ![m] = Files]
        /\ disk' = With(disk, m, [files |-> [f \in Files |-> Missing], time |-> works])
     \/ step' = [step EXCEPT ![m] = "done"] /\ UNCHANGED <<disk, todo>>
  /\ UNCHANGED <<order, home, rows, named, session, restore, budget, mixed, backdated,
                 torn>>

-----------------------------------------------------------------------------
(* create_checkpoint *)

CopyFile(m) ==
  /\ step[m] = "copy"
  /\ \E f \in todo[m] :
       /\ disk' = [disk EXCEPT ![m].files[f] = home.files[f]]
       /\ todo' = [todo EXCEPT ![m] = @ \ {f}]
  /\ UNCHANGED <<order, home, rows, named, session, step, restore, budget, history>>

\* list_checkpoints: the latest first; sort keeps the order of the names among equals.
ListCheckpoints(d) ==
  SetToSortSeq(DOMAIN d, LAMBDA a, b : \/ d[a].time > d[b].time
                                       \/ d[a].time = d[b].time /\ order[a] < order[b])

\* Mutant: the latest are taken for the oldest.
Surplus_Newest(d) ==
  LET l == Reverse(ListCheckpoints(d)) IN {l[i] : i \in Keep + 1 .. Len(l)}

\* to_delete of _cleanup_old_checkpoints
Surplus(d) == LET l == ListCheckpoints(d) IN {l[i] : i \in Keep + 1 .. Len(l)}

\* The end of rsync, which sets the time, and the list for the clean-up
Copied(m) ==
  LET d == [disk EXCEPT ![m].time = home.time] IN
  /\ step[m] = "copy" /\ todo[m] = {}
  /\ disk' = d
  /\ todo' = [todo EXCEPT ![m] = Surplus(d)]
  /\ step' = [step EXCEPT ![m] = IF Surplus(d) = {} THEN "name" ELSE "prune"]
  /\ backdated' = (backdated \/ Copying # {m}
                   \/ \E k \in DOMAIN disk \ {m} : disk[k].time >= home.time \/ k > m)
  /\ UNCHANGED <<order, home, rows, named, session, restore, budget, left, mixed, torn>>

\* Mutant: what was copied of it stays, and its message is given the checkpoint.
CopyFails_Named(m) ==
  /\ step[m] = "copy" /\ faults < MaxFaults   \* bound
  /\ faults' = faults + 1
  /\ step' = [step EXCEPT ![m] = "name"] /\ todo' = [todo EXCEPT ![m] = {}]
  /\ UNCHANGED <<order, home, disk, rows, named, session, restore, works, restores,
                 history>>

\* rsync fails and what it has copied is removed, which may fail as well.
CopyFails(m) ==
  /\ step[m] = "copy" /\ faults < MaxFaults   \* bound
  /\ faults' = faults + 1
  /\ disk' \in {disk, Without(disk, m)}
  /\ step' = [step EXCEPT ![m] = "done"] /\ todo' = [todo EXCEPT ![m] = {}]
  /\ UNCHANGED <<order, home, rows, named, session, restore, works, restores, history>>

Prune(m) ==
  /\ step[m] = "prune"
  /\ \E k \in todo[m] :
       /\ disk' = Without(disk, k)
       /\ todo' = [todo EXCEPT ![m] = @ \ {k}]
       /\ step' = [step EXCEPT ![m] = IF todo[m] = {k} THEN "name" ELSE "prune"]
  /\ UNCHANGED <<order, home, rows, named, session, restore, budget, history>>

\* A clean-up that fails lets create_checkpoint fail.
PruneFails(m) ==
  /\ step[m] = "prune" /\ faults < MaxFaults   \* bound
  /\ faults' = faults + 1
  /\ step' = [step EXCEPT ![m] = "done"] /\ todo' = [todo EXCEPT ![m] = {}]
  /\ UNCHANGED <<order, home, disk, rows, named, session, restore, works, restores,
                 history>>

\* message.checkpoint_id is written, if there is still a message.
Name(m) ==
  /\ step[m] = "name"
  /\ step' = [step EXCEPT ![m] = "done"]
  /\ named' = named \cup ({m} \cap rows)
  /\ UNCHANGED <<order, home, disk, rows, session, todo, restore, budget, history>>

-----------------------------------------------------------------------------
(* restore_to_checkpoint *)

\* The button is not there while a turn streams, nor at the last message.
Restore(m) ==
  /\ restore = NoRestore /\ Running = {} /\ restores < MaxRestores   \* bound
  /\ m \in rows /\ \E k \in rows : k > m
  /\ restores' = restores + 1
  /\ restore' = [m |-> m, step |-> IF m \in named THEN "check" ELSE "delete", todo |-> {}]
  /\ UNCHANGED <<order, home, disk, rows, named, session, turns, works, faults, history>>

\* restore_to_message, which looks for the directory
Check ==
  /\ restore.step = "check"
  /\ restore' = IF restore.m \in DOMAIN disk
                THEN [restore EXCEPT !.step = "copy", !.todo = Files]
                ELSE NoRestore
  /\ UNCHANGED <<order, home, disk, rows, named, session, turns, budget, history>>

\* rsync, back; it fails if the directory has been pruned meanwhile.
CopyBack ==
  /\ restore.step = "copy"
  /\ IF restore.m \notin DOMAIN disk
     THEN /\ restore' = NoRestore /\ torn' = (torn \/ restore.todo # Files)
          /\ UNCHANGED <<home, mixed>>
     ELSE /\ \E f \in restore.todo :
               /\ home' = [home EXCEPT !.files[f] = disk[restore.m].files[f]]
               /\ restore' = [restore EXCEPT !.todo = @ \ {f}]
          /\ mixed' = mixed \cup Copying
          /\ UNCHANGED torn
  /\ UNCHANGED <<order, disk, rows, named, session, turns, budget, left, backdated>>

CopiedBack ==
  /\ restore.step = "copy" /\ restore.todo = {} /\ restore.m \in DOMAIN disk
  /\ home' = [home EXCEPT !.time = disk[restore.m].time]
  /\ restore' = [restore EXCEPT !.step = "delete"]
  /\ UNCHANGED <<order, disk, rows, named, session, turns, budget, history>>

\* Mutant: the message itself goes as well.
DeleteMessagesAfter_Itself ==
  /\ restore.step = "delete"
  /\ rows' = {m \in rows : m < restore.m} /\ named' = named \cap rows'
  /\ restore' = [restore EXCEPT !.step = "session"]
  /\ UNCHANGED <<order, home, disk, session, turns, budget, history>>

\* delete_messages_after, which commits
DeleteMessagesAfter ==
  /\ restore.step = "delete"
  /\ rows' = {m \in rows : m <= restore.m} /\ named' = named \cap rows'
  /\ restore' = [restore EXCEPT !.step = "session"]
  /\ UNCHANGED <<order, home, disk, session, turns, budget, history>>

\* The chat goes on in the session of the message.
RestoreSession ==
  /\ restore.step = "session"
  /\ session' = restore.m
  /\ restore' = NoRestore
  /\ UNCHANGED <<order, home, disk, rows, named, turns, budget, history>>

RestoreFails ==
  /\ restore # NoRestore /\ faults < MaxFaults   \* bound
  /\ faults' = faults + 1
  /\ torn' = (torn \/ restore.step = "session"
              \/ (restore.step = "copy" /\ restore.todo # Files)
              \/ (restore.step = "delete" /\ restore.m \in named))
  /\ restore' = NoRestore
  /\ UNCHANGED <<order, home, disk, rows, named, session, turns, works, restores, left,
                 mixed, backdated>>

Next ==
  \/ \E m \in Messages :
       \/ Start(m) \/ SessionTold(m) \/ Work(m) \/ Finalize(m)
       \/ CopyFile(m) \/ Copied(m) \/ CopyFails(m)
       \/ Prune(m) \/ PruneFails(m) \/ Name(m)
       \/ Restore(m)
  \/ Check \/ CopyBack \/ CopiedBack \/ DeleteMessagesAfter \/ RestoreSession \/ RestoreFails

Spec == Init /\ [][Next]_vars

-----------------------------------------------------------------------------
Contents == [Files -> 0 .. Missing]
Directories == [files : Contents, time : 0 .. MaxWorks]

TypeOK ==
  /\ order \in Orders /\ home \in Directories
  /\ DOMAIN disk \subseteq Messages /\ \A m \in DOMAIN disk : disk[m] \in Directories
  /\ rows \subseteq Messages /\ named \subseteq rows /\ session \in 0 .. NumMessages
  /\ step \in [Messages -> {"none", "running", "copy", "prune", "name", "done"}]
  /\ todo \in [Messages -> SUBSET (Files \cup Messages)]
  /\ restore \in [m : 0 .. NumMessages,
                  step : {"idle", "check", "copy", "delete", "session"},
                  todo : SUBSET Files]
  /\ works <= MaxWorks /\ restores <= MaxRestores /\ faults <= MaxFaults
  /\ left \in [Messages -> Contents] /\ mixed \subseteq Messages
  /\ backdated \in BOOLEAN /\ torn \in BOOLEAN

\* A checkpoint that a message names holds the files as its turn left them, unless they were
\* changed while it was made.
CheckpointIsWhole ==
  \A m \in named \cap DOMAIN disk : disk[m].files = left[m] \/ m \in mixed

\* Pruning takes the oldest: nothing older is left than what is gone, unless dates were
\* equal or set back, or two copies were made at a time.
OldestGoFirst ==
  \A m \in named \ DOMAIN disk, k \in DOMAIN disk : k > m \/ backdated

\* After a restore the chat goes on in the session of its last turn.
SessionIsShown ==
  restore = NoRestore => session = 0 \/ session \in rows \/ torn
=============================================================================
