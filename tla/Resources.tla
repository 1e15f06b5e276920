----------------------------- MODULE Resources -----------------------------
(***************************************************************************)
(* Agents, skills and slash commands of a user: each is an entry of a list *)
(* in the row of settings and a file.  They are uploaded, edited and       *)
(* deleted by name and one after the other, but switched on and off by     *)
(* saving the list the settings page has.  A request can fail before the   *)
(* server has it, and so can the answer to one that the server has done:   *)
(* the page then shows an error, keeps its list and saves nothing.         *)
(*   frontend hooks/useFileResourceManagement.ts, pages/SettingsPage.tsx,  *)
(*   components/ui/SettingsUploadModal.tsx, ListManagementTab.tsx,         *)
(*   services/agentService.ts, skillService.ts, commandService.ts          *)
(*   backend  api/endpoints/agents.py, services/base_resource.py,          *)
(*   services/user.py                                                      *)
(***************************************************************************)
EXTENDS Naturals, Sequences, FiniteSets, SequencesExt

CONSTANTS
  Names,     \* names a file may give its resource
  MaxItems,  \* entries allowed
  MaxOps,    \* bound: operations
  MaxOpen,   \* bound: operations under way
  MaxVisits, \* bound: visits of the settings page
  MaxErrors  \* bound: requests that fail

VARIABLES
  row,     \* the list stored, a sequence of [name, ver, enabled]
  files,   \* name -> version of its file, 0 if there is none
  query,   \* the list the settings query holds
  local,   \* the list the page shows
  dialog,  \* what is open: [kind, index], kind "none", "upload", "edit" or "delete"
  ops,     \* operations under way: [id, kind, index, name, new, st,
           \*   ver, list, prev]
  counts,  \* numbers of operations, visits and errors there were
  odd,     \* (history) which of the cases happened that the code does not handle
  unheard  \* (history) names the server changed without being heard, which the page
           \*   has not shown as they are stored since

vars == <<row, files, query, local, dialog, ops, counts, odd, unheard>>

Closed == [kind |-> "none", index |-> 0]

Init ==
  /\ row = <<>> /\ files = [n \in Names |-> 0] /\ query = <<>> /\ local = <<>>
  /\ dialog = Closed /\ ops = {}
  /\ counts = [ops |-> 0, visits |-> 0, errors |-> 0] /\ odd = {} /\ unheard = {}

NamesOf(list) == {list[i].name : i \in DOMAIN list}
IndexOf(list, name) == CHOOSE i \in DOMAIN list : list[i].name = name
Item(n) == [name |-> n, ver |-> 1, enabled |-> TRUE]

Kind(k) == {o \in ops : o.kind = k}
Becomes(o, st) == {p \in ops : p.id # o.id} \cup {[o EXCEPT !.st = st]}

\* An operation; its st goes from "sent" to "done", and from "save" on it saves the
\* list of the page.
Op(kind, index, name, new) ==
  [id |-> counts.ops + 1, kind |-> kind, index |-> index, name |-> name, new |-> new,
   st |-> "sent", ver |-> 0, list |-> <<>>, prev |-> <<>>]

Begin(o) ==
  /\ counts.ops < MaxOps /\ Cardinality(ops) < MaxOpen
  /\ counts' = [counts EXCEPT !.ops = @ + 1]
  /\ ops' = ops \cup {o}
  /\ odd' = IF ops = {} THEN odd ELSE odd \cup {"overlapped"}

\* A name has one entry and its file, or neither.
Paired(n) ==
  LET places == {i \in DOMAIN row : row[i].name = n}
  IN IF places = {} THEN files[n] = 0 ELSE \E i \in places : places = {i} /\ files[n] = row[i].ver

MayFail == counts.errors < MaxErrors
Failed == [counts EXCEPT !.errors = @ + 1]

-----------------------------------------------------------------------------
(* The page *)

\* A visit of the page shows what the query holds, which for five minutes is not
\* fetched again.
Visit ==
  /\ counts.visits < MaxVisits /\ ops = {}
  /\ counts' = [counts EXCEPT !.visits = @ + 1]
  /\ \E q \in {query, row} :
       /\ query' = q /\ local' = q
       /\ odd' = IF q = row THEN odd ELSE odd \cup {"stale"}
       /\ unheard' = IF q = row THEN {n \in unheard : ~Paired(n)} ELSE unheard
  /\ dialog' = Closed
  /\ UNCHANGED <<row, files, ops>>

\* handleCancel of the page
Cancel ==
  /\ dialog = Closed /\ local # query
  /\ local' = query
  /\ odd' = odd \cup (IF query = row THEN {} ELSE {"stale"})
                 \cup (IF ops = {} THEN {} ELSE {"overlapped"})
  /\ UNCHANGED <<row, files, query, dialog, ops, counts, unheard>>

\* handleAdd, handleEdit, the question whether to delete
OpenDialog(kind, i) ==
  /\ dialog = Closed /\ (IF kind = "upload" THEN i = 0 ELSE i \in DOMAIN local)
  /\ dialog' = [kind |-> kind, index |-> i]
  /\ UNCHANGED <<row, files, query, local, ops, counts, odd, unheard>>

\* Also while it uploads or saves
CloseDialog ==
  /\ dialog # Closed
  /\ dialog' = Closed
  /\ UNCHANGED <<row, files, query, local, ops, counts, odd, unheard>>

Without(i) == IF i \in DOMAIN local THEN RemoveAt(local, i) ELSE local

\* The names an operation is about
About(o) == {o.name, o.new} \cap Names

\* The request, or the answer of the server to what it has done, is lost: an error in the
\* dialog, which stays open, or a toast.
CallFails(o) ==
  /\ o.st \in {"sent", "done"} /\ MayFail
  /\ counts' = Failed
  /\ ops' = ops \ {o}
  /\ unheard' = IF o.st = "done" THEN unheard \cup About(o) ELSE unheard
  /\ UNCHANGED <<row, files, query, local, dialog, odd>>

\* Mutant: the entry is put at the end.
With_Appended(i, item) == Append(local, item)

\* arr[index] = item
With(i, item) == IF i \in DOMAIN local THEN [local EXCEPT ![i] = item] ELSE Append(local, item)

\* persistSettings (module Settings), for the operation o
Persist(o, updated) ==
  /\ local' = updated
  /\ ops' = IF updated = local THEN ops \ {o}
            ELSE (ops \ {o}) \cup {[o EXCEPT !.st = "save", !.list = updated, !.prev = local]}

\* The list is stored as it was sent.
SaveTaken(o) ==
  /\ o.st = "save"
  /\ row' = o.list /\ ops' = Becomes(o, "saved")
  /\ UNCHANGED <<files, query, local, dialog, counts, odd, unheard>>

DialogOf(o) == IF o.kind = dialog.kind THEN Closed ELSE dialog

\* The answer is that list; the dialog is closed, or another of its kind.
SaveReturns(o) ==
  /\ o.st = "saved"
  /\ ops' = ops \ {o} /\ query' = o.list /\ local' = o.list
  /\ dialog' = DialogOf(o)
  /\ UNCHANGED <<row, files, counts, odd, unheard>>

\* Before or after the list is stored; the page goes back to the list it had.
SaveFails(o) ==
  /\ o.st \in {"save", "saved"} /\ MayFail
  /\ counts' = Failed
  /\ ops' = ops \ {o} /\ local' = o.prev
  /\ unheard' = IF o.kind = "toggle" /\ o.st = "save" THEN unheard ELSE unheard \cup About(o)
  /\ UNCHANGED <<row, files, query, dialog, odd>>

\* handleToggle
Toggle(i) ==
  LET o == Op("toggle", i, local[i].name, local[i].name)
      updated == [local EXCEPT ![i].enabled = ~@]
  IN
  /\ dialog = Closed /\ i \in DOMAIN local
  /\ Begin([o EXCEPT !.st = "save", !.list = updated, !.prev = local])
  /\ local' = updated
  /\ UNCHANGED <<row, files, query, dialog, unheard>>

-----------------------------------------------------------------------------
(* Uploads *)

\* handleUpload; the button waits for the one before.
handleUpload(n) ==
  /\ dialog.kind = "upload" /\ Kind("upload") = {} /\ Len(local) < MaxItems
  /\ Begin(Op("upload", 0, n, n))
  /\ UNCHANGED <<row, files, query, local, dialog, unheard>>

\* Mutant: the name is not looked for.
MayAdd_Any(n) == Len(row) < MaxItems

\* Checked under the lock of the row
MayAdd(n) == Len(row) < MaxItems /\ n \notin NamesOf(row)

Withdrawn(n) == [files EXCEPT ![n] = 0]

\* upload_agent: the file is written, then the row; if that fails the file is deleted.
UploadTaken(o) ==
  /\ o.kind = "upload" /\ o.st = "sent"
  /\ \/ /\ MayAdd(o.name)
        /\ files' = [files EXCEPT ![o.name] = 1] /\ row' = Append(row, Item(o.name))
        /\ ops' = Becomes(o, "done") /\ UNCHANGED counts
     \/ /\ ~MayAdd(o.name)
        /\ ops' = ops \ {o} /\ UNCHANGED <<row, files, counts>>
     \/ /\ MayAdd(o.name) /\ MayFail                            \* the commit fails
        /\ counts' = Failed
        /\ files' = Withdrawn(o.name) /\ ops' = ops \ {o} /\ UNCHANGED row
  /\ UNCHANGED <<query, local, dialog, odd, unheard>>

\* The answer: the entry is added to the list of the page, and that list saved.
UploadReturns(o) ==
  /\ o.kind = "upload" /\ o.st = "done"
  /\ Persist(o, Append(local, Item(o.name)))
  /\ UNCHANGED <<row, files, query, dialog, counts, odd, unheard>>

-----------------------------------------------------------------------------
(* Edits *)

\* handleSaveEdit: the entry at the index, under the name n; the button waits.
handleSaveEdit(n) ==
  /\ dialog.kind = "edit" /\ Kind("edit") = {} /\ dialog.index \in DOMAIN local
  /\ Begin(Op("edit", dialog.index, local[dialog.index].name, n))
  /\ UNCHANGED <<row, files, query, local, dialog, unheard>>

Version(n) == files[n] + 1

\* update: the old file goes, the new one is written.
Renamed(old, new) == [[files EXCEPT ![old] = 0] EXCEPT ![new] = Version(old)]

\* update_agent: the file first, then the row.
EditTaken(o) ==
  LET may == o.name \in NamesOf(row) /\ (o.new = o.name \/ o.new \notin NamesOf(row))
  IN
  /\ o.kind = "edit" /\ o.st = "sent"
  /\ \/ /\ may
        /\ files' = Renamed(o.name, o.new)
        /\ row' = [row EXCEPT ![IndexOf(row, o.name)] = [Item(o.new) EXCEPT !.ver = Version(o.name)]]
        /\ ops' = Becomes([o EXCEPT !.ver = Version(o.name)], "done") /\ UNCHANGED <<counts, odd, unheard>>
     \/ /\ ~may
        /\ ops' = ops \ {o} /\ UNCHANGED <<row, files, counts, odd, unheard>>
     \/ /\ may /\ MayFail                                       \* the commit fails
        /\ counts' = Failed
        /\ files' = Renamed(o.name, o.new) /\ UNCHANGED row
        /\ ops' = ops \ {o} /\ odd' = odd \cup {"half"}
  /\ UNCHANGED <<query, local, dialog, unheard>>

\* The answer replaces the entry at the index, and the list is saved.
EditReturns(o) ==
  /\ o.kind = "edit" /\ o.st = "done"
  /\ Persist(o, With(o.index, [Item(o.new) EXCEPT !.ver = o.ver]))
  /\ UNCHANGED <<row, files, query, dialog, counts, odd, unheard>>

-----------------------------------------------------------------------------
(* Deletes *)

\* handleConfirmDelete, handleDelete; the question is closed, and others may be asked.
handleDelete ==
  /\ dialog.kind = "delete" /\ dialog.index \in DOMAIN local
  /\ Begin(Op("delete", dialog.index, local[dialog.index].name, 0))
  /\ dialog' = Closed
  /\ UNCHANGED <<row, files, query, local, unheard>>

\* Mutant: the file stays.
Deleted_KeepsFile(n) == files

Deleted(n) == [files EXCEPT ![n] = 0]

\* delete_agent: the file first, then the row; an unknown name is no error.
DeleteTaken(o) ==
  /\ o.kind = "delete" /\ o.st = "sent"
  /\ \/ /\ o.name \in NamesOf(row)
        /\ files' = Deleted(o.name) /\ row' = RemoveAt(row, IndexOf(row, o.name))
        /\ ops' = Becomes(o, "done") /\ UNCHANGED <<counts, odd, unheard>>
     \/ /\ o.name \notin NamesOf(row)
        /\ ops' = Becomes(o, "done") /\ UNCHANGED <<row, files, counts, odd, unheard>>
     \/ /\ o.name \in NamesOf(row) /\ MayFail                   \* the commit fails
        /\ counts' = Failed
        /\ files' = Deleted(o.name) /\ UNCHANGED row
        /\ ops' = ops \ {o} /\ odd' = odd \cup {"half"}
  /\ UNCHANGED <<query, local, dialog, unheard>>

\* Mutant: the page keeps the entry.
DeleteReturns_Keeps(o) ==
  /\ o.kind = "delete" /\ o.st = "done"
  /\ ops' = ops \ {o}
  /\ UNCHANGED <<row, files, query, local, dialog, counts, odd, unheard>>

\* The answer: the page drops the entry at the index.  The query keeps it.
DeleteReturns(o) ==
  /\ o.kind = "delete" /\ o.st = "done"
  /\ local' = Without(o.index)
  /\ ops' = ops \ {o}
  /\ UNCHANGED <<row, files, query, dialog, counts, odd, unheard>>

\* A panel of the page: the list, and the buttons of an entry
Panel ==
  \/ OpenDialog("upload", 0)
  \/ \E i \in 1 .. MaxItems : OpenDialog("edit", i) \/ OpenDialog("delete", i) \/ Toggle(i)

\* The dialog of an upload, the one of an edit, and the question whether to delete
UploadModal == dialog.kind = "upload" /\ (CloseDialog \/ \E n \in Names : handleUpload(n))
EditDialog == dialog.kind = "edit" /\ (CloseDialog \/ \E n \in Names : handleSaveEdit(n))
DeleteDialog == dialog.kind = "delete" /\ (CloseDialog \/ handleDelete)

Next ==
  \/ Visit \/ Cancel \/ Panel \/ UploadModal \/ EditDialog \/ DeleteDialog
  \/ \E o \in ops :
       \/ SaveTaken(o) \/ SaveReturns(o) \/ SaveFails(o)
       \/ UploadTaken(o) \/ UploadReturns(o) \/ EditTaken(o) \/ EditReturns(o)
       \/ DeleteTaken(o) \/ DeleteReturns(o) \/ CallFails(o)

Spec == Init /\ [][Next]_vars

-----------------------------------------------------------------------------
(* Properties *)

TypeOK ==
  /\ NamesOf(row) \cup NamesOf(local) \cup NamesOf(query) \subseteq Names
  /\ dialog.kind \in {"none", "upload", "edit", "delete"}
  /\ \A o \in ops : o.st \in {"sent", "done", "save", "saved"}
  /\ unheard \subseteq Names

\* The entries of a list but those whose change was not heard of
Heard(list) == SelectSeq(list, LAMBDA item : item.name \notin unheard)

\* No two entries have one name, also when the server did an edit or a delete half, so
\* that the file and the row came apart.  A lost answer spoils its own names only, and
\* until the page has been visited with the stored list.
NameOnce ==
  odd \subseteq {"half"} =>
    LET list == Heard(row)
    IN \A i, j \in DOMAIN list : list[i].name = list[j].name => i = j

\* An entry of the row has its file, with the content the entry has: the order of the
\* file, the row and the saved list keeps them together, but for names of which an
\* answer was lost, when nothing else goes wrong.
EveryEntryHasItsFile ==
  odd = {} => LET list == Heard(row) IN \A i \in DOMAIN list : files[list[i].name] = list[i].ver

\* A file is in the row, also when the page saved a list from before, but for names of
\* which an answer was lost.
EveryFileHasAnEntry ==
  odd \subseteq {"stale"} => \A n \in Names \ unheard : files[n] > 0 => n \in NamesOf(row)

\* With nothing under way the page shows what is stored, also after an edit or a delete
\* that the server did half, but for names of which an answer was lost.
Settles == odd \subseteq {"half"} /\ ops = {} => Heard(local) = Heard(row)
=============================================================================
