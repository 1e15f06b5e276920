------------------------------ MODULE Settings ------------------------------
(***************************************************************************)
(* The settings page: one row of settings, of which the page has a copy    *)
(* that it edits ahead of the server.                                      *)
(*   frontend pages/SettingsPage.tsx, hooks/useCrudForm.ts,                *)
(*   hooks/queries/useSettingsQueries.ts, utils/settings.ts,               *)
(*   utils/validation.ts, components/settings, components/ui               *)
(*                                                                         *)
(* text stands for the secrets and the instructions, which are saved by a  *)
(* button; list for the MCP servers and the environment variables, which   *)
(* are saved at once, as a whole list.                                     *)
(***************************************************************************)
EXTENDS Naturals, Sequences, FiniteSets, SequencesExt

CONSTANTS
  Keys,        \* names of items
  Texts,       \* what may be typed as text
  MaxRequests, \* bound: requests
  MaxOpen,     \* bound: requests under way
  MaxErrors,   \* bound: requests that fail
  MaxForeign   \* bound: fields changed by another page of the user

VARIABLES
  server,   \* the row: [text, list]
  query,    \* what the settings query holds
  loading,  \* it holds nothing yet
  local,    \* localSettings, which localSettingsRef follows
  requests, \* set of [id, how, payload, prev, form, taken, answer]
  dialog,   \* the form of an item: [open, index, key, error, target]
  pending,  \* pendingDeleteIndex, 0 if none, with the item that was meant
  foreign,  \* fields another page changed
  counts,   \* numbers of requests and errors there were
  touched,  \* (history) fields the user changed on this page
  missed,   \* (history) an edit or a delete hit another item than was meant
  odd       \* (history) which of the cases happened that the page does not handle

vars == <<server, query, loading, local, requests, dialog, pending, foreign, counts, touched, missed, odd>>

Fields == {"text", "list"}
Empty == [text |-> 0, list |-> <<>>]
Foreign == [text |-> 9, list |-> <<[key |-> 9, enabled |-> TRUE]>>]
Item(k) == [key |-> k, enabled |-> TRUE]
NoDialog == [open |-> FALSE, index |-> 0, key |-> 0, error |-> FALSE, target |-> 0]
NoPending == [index |-> 0, target |-> 0]

Init ==
  /\ server = [Empty EXCEPT !.list = SetToSeq({Item(k) : k \in Keys})]
  /\ query = Empty /\ loading = TRUE /\ local = Empty
  /\ requests = {} /\ dialog = NoDialog /\ pending = NoPending
  /\ counts = [requests |-> 0, errors |-> 0] /\ foreign = {}
  /\ touched = {} /\ missed = FALSE /\ odd = {}

Idle == ~dialog.open /\ pending.index = 0 /\ ~loading

-----------------------------------------------------------------------------
(* Saving *)

\* Mutant: everything is sent.
buildChangedPayload_All(current, previous) == current

\* The fields of current that differ from previous
buildChangedPayload(current, previous) ==
  [f \in {g \in Fields : current[g] # previous[g]} |-> current[f]]

CanSend == counts.requests < MaxRequests /\ Cardinality(requests) < MaxOpen

Request(how, payload, prev, form) ==
  [id |-> counts.requests + 1, how |-> how, payload |-> payload, prev |-> prev, form |-> form,
   taken |-> FALSE, answer |-> Empty]

Sends(r) ==
  /\ CanSend
  /\ requests' = requests \cup {r}
  /\ counts' = [counts EXCEPT !.requests = @ + 1]
  /\ odd' = IF requests = {} THEN odd ELSE odd \cup {"overlapped"}

\* Mutant: the page shows a change when the server has it.
Persist_Waits(updated, form) ==
  /\ Sends(Request("instant", buildChangedPayload(updated, local), local, form))
  /\ local' = local

\* persistSettings: the page shows the change at once and sends what differs.
Persist(updated, form) ==
  LET payload == buildChangedPayload(updated, local)
  IN /\ local' = updated
     /\ IF DOMAIN payload = {} THEN UNCHANGED <<requests, counts, odd>>
        ELSE Sends(Request("instant", payload, local, form))

\* The query has the row d, and so has the page.
Shows(d) == query' = d /\ local' = d

\* The PATCH endpoint sets the fields it is given.
Take(r) ==
  LET row == [f \in Fields |-> IF f \in DOMAIN r.payload THEN r.payload[f] ELSE server[f]]
  IN
  /\ ~r.taken
  /\ server' = row
  /\ requests' = (requests \ {r}) \cup {[r EXCEPT !.taken = TRUE, !.answer = row]}
  /\ UNCHANGED <<query, loading, local, dialog, pending, foreign, counts, touched, missed, odd>>

\* The answer is the row, which replaces what the page has; the form that was
\* saved is closed, or whichever is open by now.
Returns(r) ==
  /\ r.taken
  /\ requests' = requests \ {r}
  /\ Shows(r.answer)
  /\ dialog' = IF r.form THEN NoDialog ELSE dialog
  /\ UNCHANGED <<server, loading, pending, foreign, counts, touched, missed, odd>>

\* Mutant: what was shown ahead stays.
Reverted_Keeps(r) == local

\* What the page shows when r failed: what it was before r, if r was instant
Reverted(r) == IF r.how = "instant" THEN r.prev ELSE local

\* It fails, though the server may have taken it.
Fails(r) ==
  /\ counts.errors < MaxErrors
  /\ counts' = [counts EXCEPT !.errors = @ + 1]
  /\ requests' = requests \ {r}
  /\ local' = Reverted(r)
  /\ dialog' = IF r.form THEN [dialog EXCEPT !.error = TRUE] ELSE dialog
  /\ odd' = odd \cup (IF r.taken THEN {"lost"} ELSE {}) \cup 
              (IF r.how = "instant" /\ (requests # {r} \/ ~Idle) THEN {"reverted"} ELSE {})
  /\ UNCHANGED <<server, query, loading, pending, foreign, touched, missed>>

\* useSettingsQuery
Fetched ==
  /\ loading
  /\ loading' = FALSE /\ Shows(server)
  /\ UNCHANGED <<server, requests, dialog, pending, foreign, counts, touched, missed, odd>>

ForeignChange(f) ==
  /\ Cardinality(foreign) < MaxForeign
  /\ foreign' = foreign \cup {f}
  /\ server' = [server EXCEPT ![f] = Foreign[f]]
  /\ UNCHANGED <<query, loading, local, requests, dialog, pending, counts, touched, missed, odd>>

-----------------------------------------------------------------------------
(* Text *)

\* handleInputChange
InputChange(t) ==
  /\ Idle /\ t # local.text
  /\ local' = [local EXCEPT !.text = t]
  /\ touched' = touched \cup {"text"}
  /\ UNCHANGED <<server, query, loading, requests, dialog, pending, foreign, counts, missed, odd>>

hasUnsavedChanges == local.text # query.text

\* handleSave sends all that differs, not only the fields of the tab; its button
\* waits for the answer.
Save ==
  /\ Idle /\ hasUnsavedChanges /\ ~\E r \in requests : r.how = "manual"
  /\ Sends(Request("manual", buildChangedPayload(local, query), local, FALSE))
  /\ UNCHANGED <<server, query, loading, local, dialog, pending, foreign, touched, missed>>

\* handleCancel
Cancel ==
  /\ Idle /\ hasUnsavedChanges
  /\ local' = query
  /\ odd' = IF requests = {} THEN odd ELSE odd \cup {"overlapped"}
  /\ UNCHANGED <<server, query, loading, requests, dialog, pending, foreign, counts, touched, missed>>

-----------------------------------------------------------------------------
(* Items: useCrudForm *)

handleAdd ==
  /\ Idle
  /\ dialog' = [NoDialog EXCEPT !.open = TRUE]
  /\ UNCHANGED <<server, query, loading, local, requests, pending, foreign, counts, touched, missed, odd>>

handleEdit(i) ==
  /\ Idle /\ i \in DOMAIN local.list
  /\ dialog' = [NoDialog EXCEPT !.open = TRUE, !.index = i, !.key = local.list[i].key,
                                !.target = local.list[i].key]
  /\ UNCHANGED <<server, query, loading, local, requests, pending, foreign, counts, touched, missed, odd>>

handleFormChange(k) ==
  /\ dialog.open /\ k # dialog.key
  /\ dialog' = [dialog EXCEPT !.key = k]
  /\ UNCHANGED <<server, query, loading, local, requests, pending, foreign, counts, touched, missed, odd>>

handleDialogClose ==
  /\ dialog.open
  /\ dialog' = NoDialog
  /\ UNCHANGED <<server, query, loading, local, requests, pending, foreign, counts, touched, missed, odd>>

\* Mutant: the item itself is not told from the others.
validateForm_Index(key, index, list) ==
  key # 0 /\ \A i \in DOMAIN list : i + 1 # index => list[i].key # key

\* validateRequired, validateUnique
validateForm(key, index, list) ==
  key # 0 /\ \A i \in DOMAIN list : i # index => list[i].key # key

\* nextItems[editingIndex] = form, or push
Written(list, index, item) ==
  IF index = 0 THEN Append(list, item)
  ELSE IF index \in DOMAIN list THEN [list EXCEPT ![index] = item]
  ELSE Append(list, item)     \* beyond the end of a list that became shorter

handleSaveItem ==
  /\ dialog.open
  /\ IF validateForm(dialog.key, dialog.index, local.list)
     THEN /\ Persist([local EXCEPT !.list = Written(@, dialog.index, Item(dialog.key))], TRUE)
          /\ touched' = touched \cup {"list"}
          /\ missed' = (missed \/ (dialog.index # 0 /\
                          ~(/\ dialog.index \in DOMAIN local.list
                            /\ local.list[dialog.index].key \in {dialog.target, dialog.key})))
          /\ UNCHANGED dialog
     ELSE /\ dialog' = [dialog EXCEPT !.error = TRUE]
          /\ UNCHANGED <<local, requests, foreign, counts, touched, missed, odd>>
  /\ UNCHANGED <<server, query, loading, pending, foreign>>

\* handleToggleEnabled
handleToggleEnabled(i) ==
  /\ Idle /\ i \in DOMAIN local.list
  /\ Persist([local EXCEPT !.list[i].enabled = ~@], FALSE)
  /\ touched' = touched \cup {"list"}
  /\ UNCHANGED <<server, query, loading, dialog, pending, foreign, missed>>

\* The question whether to delete; it names the item at that place.
AskDelete(i) ==
  /\ Idle /\ i \in DOMAIN local.list
  /\ pending' = [index |-> i, target |-> local.list[i].key]
  /\ UNCHANGED <<server, query, loading, local, requests, dialog, foreign, counts, touched, missed, odd>>

CloseDelete ==
  /\ pending.index # 0
  /\ pending' = NoPending
  /\ UNCHANGED <<server, query, loading, local, requests, dialog, foreign, counts, touched, missed, odd>>

\* handleConfirmDelete, handleDelete: splice at the index.
handleDelete ==
  LET i == pending.index
  IN
  /\ i # 0
  /\ Persist([local EXCEPT !.list = IF i \in DOMAIN @ THEN RemoveAt(@, i) ELSE @], FALSE)
  /\ pending' = NoPending
  /\ touched' = touched \cup {"list"}
  /\ missed' = (missed \/ ~(i \in DOMAIN local.list /\ local.list[i].key = pending.target))
  /\ UNCHANGED <<server, query, loading, dialog, foreign>>

\* The panels of the page: its texts, and a list of items with the buttons of each
Panels ==
  \/ \E t \in Texts : InputChange(t)
  \/ handleAdd
  \/ \E i \in 1 .. Cardinality(Keys) : handleEdit(i) \/ handleToggleEnabled(i) \/ AskDelete(i)

\* The dialog of one item
ItemDialog ==
  \/ \E k \in Keys : handleFormChange(k)
  \/ handleSaveItem \/ handleDialogClose

Next ==
  \/ Fetched \/ Save \/ Cancel \/ Panels \/ ItemDialog \/ CloseDelete \/ handleDelete
  \/ \E r \in requests : Take(r) \/ Returns(r) \/ Fails(r)
  \/ \E f \in Fields : ForeignChange(f)

Spec == Init /\ [][Next]_vars

-----------------------------------------------------------------------------
(* Properties *)

TypeOK ==
  /\ DOMAIN server = Fields /\ DOMAIN query = Fields /\ DOMAIN local = Fields
  /\ \A r \in requests : DOMAIN r.payload \subseteq Fields /\ DOMAIN r.payload # {}
  /\ \A i \in DOMAIN local.list : local.list[i].key \in Keys \cup {Foreign.list[1].key}
  /\ pending.index # 0 => ~dialog.open

\* No two items of the stored list have one name, whatever requests overlap, come
\* late or fail: a list is sent as a whole, and the page checked it.
KeysUnique ==
  \A i, j \in DOMAIN server.list : server.list[i].key = server.list[j].key => i = j

\* When nothing is under way the page shows what is stored.  Not so after a change
\* by another page, after requests that overlapped, and after one that failed
\* though the server took it ("lost").
SettlesToServer ==
  requests = {} /\ ~loading /\ foreign = {} /\ odd \cap {"overlapped", "lost"} = {} =>
    local.list = server.list /\ query = server

\* Saving one setting leaves the others as another page may have set them, though
\* what the page shows of them is old.  Not so if requests overlapped and one failed:
\* the page goes back to values older than what it fetched since, and saves them.
OnlyTouched ==
  ~({"overlapped", "reverted"} \subseteq odd) =>
    \A f \in foreign \ touched : server[f] = Foreign[f]

\* An edit and a delete hit the item they were asked for, though they know it by its
\* place in a list that answers replace.  Not so if another page changed the list,
\* requests overlapped, one failed while the item was being asked for, or one failed
\* that the server took.
EditsWhatWasMeant == missed => foreign # {} \/ odd # {}
=============================================================================
