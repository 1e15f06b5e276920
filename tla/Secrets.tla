------------------------------- MODULE Secrets ------------------------------
(***************************************************************************)
(* The environment variables of a sandbox: the rows being edited, the      *)
(* requests a save sends one after another, the refetch after each answer  *)
(* that replaces the rows while the save goes on, and the lines of the     *)
(* sandbox's .bashrc.                                                      *)
(*                                                                         *)
(*   frontend/src/components/editor/secrets/SecretsView.tsx                *)
(*   frontend/src/hooks/queries/useSandboxQueries.ts                       *)
(*   backend/app/services/sandbox.py (add_secret, update_secret,           *)
(*     delete_secret, get_secrets), backend/app/api/endpoints/sandbox.py   *)
(*                                                                         *)
(* Keys and values are numbers, 0 being the empty text.                    *)
(***************************************************************************)
EXTENDS Integers, Sequences, SequencesExt, FiniteSets

CONSTANTS
    Keys,        \* names of variables
    Values,      \* their values
    MaxEdits,    \* bound: fields changed
    MaxSaves,    \* bound: presses of Save
    MaxErrors    \* bound: requests that fail

VARIABLES
    bashrc,    \* the export lines of the sandbox, in order
    data,      \* secretsData: what the query holds, Unknown before the first load
    fetch,     \* its fetch under way
    rows,      \* secrets: the rows of the form
    todo,      \* requests of the save under way, the first one being out
    step,      \* how far the first request is
    removing,  \* delete requests of the rows' own buttons, by key
    edits,     \* number of fields changed
    saves,     \* number of saves
    errors,    \* number of requests that failed
    wanted,    \* keys the user means to have (history)
    asked,     \* lines the last save was to leave (history)
    crossed    \* a save removed a key it had written before, met a value left
               \* empty, or went on with a removal or a refetch (history)

vars == <<bashrc, data, fetch, rows, todo, step, removing, edits, saves,
          errors, wanted, asked, crossed>>

NoKey == 0
Unknown == <<[key |-> NoKey, value |-> 0]>>   \* no list that can be fetched
Idle == Unknown
Asked == <<[key |-> NoKey, value |-> 1]>>     \* a fetch not yet read

\* A row as the effect makes it from a line, and as Add makes it.
Row(line) == [key |-> line.key, value |-> line.value, was |-> line, new |-> FALSE]
NewRow == [key |-> NoKey, value |-> 0, was |-> [key |-> NoKey, value |-> 0],
           new |-> TRUE]
Rows(lines) == [i \in DOMAIN lines |-> Row(lines[i])]
isModified(row) == ~row.new /\ (row.key # row.was.key \/ row.value # row.was.value)

Init ==
    /\ bashrc \in {<<>>, <<[key |-> 1, value |-> 1]>>}
    /\ data = Unknown
    /\ fetch = Asked
    /\ rows = <<>>
    /\ todo = <<>>
    /\ step = "none"
    /\ removing = [k \in Keys |-> "no"]
    /\ edits = 0
    /\ saves = 0
    /\ errors = 0
    /\ wanted = {bashrc[i].key : i \in DOMAIN bashrc}
    /\ asked = {}
    /\ crossed = FALSE

Deleted(lines, key) == SelectSeq(lines, LAMBDA line : line.key # key)

\* get_secrets reads the lines.
ReadSecrets ==
    /\ fetch = Asked
    /\ fetch' = bashrc
    /\ UNCHANGED <<bashrc, data, rows, todo, step, removing, edits, saves,
                   errors, wanted, asked, crossed>>

\* The answer of the query: a list other than the one held makes the effect
\* replace all rows.
SecretsFetched ==
    /\ fetch \notin {Idle, Asked}
    /\ fetch' = Idle
    /\ data' = fetch
    /\ rows' = IF fetch = data THEN rows ELSE Rows(fetch)
    /\ UNCHANGED <<bashrc, todo, step, removing, edits, saves, errors, wanted,
                   asked, crossed>>

SecretsFail ==
    /\ fetch # Idle /\ errors < MaxErrors
    /\ fetch' = Idle
    /\ errors' = errors + 1
    /\ UNCHANGED <<bashrc, data, rows, todo, step, removing, edits, saves,
                   wanted, asked, crossed>>

\* The refresh button
Refresh ==
    /\ fetch = Idle
    /\ fetch' = Asked
    /\ UNCHANGED <<bashrc, data, rows, todo, step, removing, edits, saves,
                   errors, wanted, asked, crossed>>

\* handleAddSecret.  Without data the query gives a new empty list at every
\* rendering, so that the effect takes the row away at once.
AddSecret ==
    /\ data # Unknown
    /\ \A i \in DOMAIN rows : rows[i].key # NoKey
    /\ rows' = Append(rows, NewRow)
    /\ UNCHANGED <<bashrc, data, fetch, todo, step, removing, edits, saves,
                   errors, wanted, asked, crossed>>

\* handleUpdateSecret
UpdateSecret(i, key, value) ==
    /\ edits < MaxEdits
    /\ (key = rows[i].key) # (value = rows[i].value)
    /\ rows' = [rows EXCEPT ![i].key = key, ![i].value = value]
    /\ edits' = edits + 1
    /\ UNCHANGED <<bashrc, data, fetch, todo, step, removing, saves, errors,
                   wanted, asked, crossed>>

\* handleRemoveSecret: a new row is dropped, a stored one asked to be deleted.
RemoveSecret(i) ==
    /\ IF rows[i].new
       THEN /\ rows' = RemoveAt(rows, i)
            /\ UNCHANGED <<removing, wanted, asked, crossed>>
       ELSE LET key == rows[i].was.key
            IN  /\ removing[key] = "no"
                /\ removing' = [removing EXCEPT ![key] = "sent"]
                /\ wanted' = wanted \ {key}
                /\ asked' = {line \in asked : line.key # key}
                /\ crossed' = (crossed \/ todo # <<>>)
                /\ UNCHANGED rows
    /\ UNCHANGED <<bashrc, data, fetch, todo, step, edits, saves, errors>>

DeleteTaken(key) ==
    /\ removing[key] = "sent"
    /\ removing' = [removing EXCEPT ![key] = "taken"]
    /\ bashrc' = Deleted(bashrc, key)
    /\ UNCHANGED <<data, fetch, rows, todo, step, edits, saves, errors, wanted,
                   asked, crossed>>

\* Mutant: an answer does not make the query fetch anew.
Invalidated_Not == UNCHANGED fetch
\* An answer drops a fetch under way and starts another one.
Invalidated == fetch' = Asked

DeleteReturns(key) ==
    /\ removing[key] = "taken"
    /\ removing' = [removing EXCEPT ![key] = "no"]
    /\ rows' = SelectSeq(rows, LAMBDA row : row.new \/ row.was.key # key)
    /\ Invalidated
    /\ UNCHANGED <<bashrc, data, todo, step, edits, saves, errors, wanted,
                   asked, crossed>>

DeleteFails(key) ==
    /\ removing[key] # "no" /\ errors < MaxErrors
    /\ removing' = [removing EXCEPT ![key] = "no"]
    /\ errors' = errors + 1
    /\ UNCHANGED <<bashrc, data, fetch, rows, todo, step, edits, saves, wanted,
                   asked, crossed>>

Add(row) == <<[kind |-> "add", key |-> row.key, value |-> row.value]>>
\* Mutant: a renamed variable is added under its new name only.
Requests_KeepOld(row) ==
    CASE row.key = NoKey -> <<>>
      [] row.key # NoKey /\ (row.new \/ row.key # row.was.key) -> Add(row)
      [] isModified(row) /\ row.key = row.was.key ->
            <<[kind |-> "update", key |-> row.key, value |-> row.value]>>
      [] OTHER -> <<>>
\* The requests for one row: a rename is a deletion and an addition.
Requests(row) ==
    CASE row.key = NoKey -> <<>>
      [] row.key # NoKey /\ row.new -> Add(row)
      [] isModified(row) /\ row.key \notin {NoKey, row.was.key} ->
            <<[kind |-> "delete", key |-> row.was.key, value |-> 0]>> \o Add(row)
      [] isModified(row) /\ row.key = row.was.key ->
            <<[kind |-> "update", key |-> row.key, value |-> row.value]>>
      [] OTHER -> <<>>

\* validateRequired throws before a variable without a value is sent.
Refused(request) == request.kind # "delete" /\ request.value = 0

\* The next request goes out; one that is refused ends the save.
Send(requests) ==
    LET goes == requests # <<>> /\ ~Refused(Head(requests))
    IN  /\ todo' = IF goes THEN requests ELSE <<>>
        /\ step' = IF goes THEN "sent" ELSE "none"

\* handleSaveSecrets: the rows of the moment the button is pressed.
Save ==
    /\ saves < MaxSaves /\ todo = <<>>
    /\ \E i \in DOMAIN rows : rows[i].new \/ isModified(rows[i])
    /\ saves' = saves + 1
    /\ LET requests == FlattenSeq([i \in DOMAIN rows |-> Requests(rows[i])])
           n == Len(requests)
           writes == {i \in 1 .. n : requests[i].kind # "delete"}
           meant == {i \in DOMAIN rows :
                        rows[i].key # NoKey /\ (rows[i].new \/ isModified(rows[i]))}
           gone == {rows[i].was.key : i \in meant} \ {NoKey}
           lines == {[key |-> rows[i].key, value |-> rows[i].value] : i \in meant}
       IN  /\ Send(requests)
           /\ wanted' = (wanted \ gone) \cup {line.key : line \in lines}
           /\ asked' = lines
           /\ crossed' = \/ crossed
                         \/ fetch # Idle
                         \/ \E k \in Keys : removing[k] # "no"
                         \/ \E i \in writes : Refused(requests[i])
                         \/ \E i \in writes, j \in 1 .. n :
                               /\ i < j /\ requests[j].kind # "add"
                               /\ requests[i].key = requests[j].key
                         \/ \E i \in DOMAIN rows :
                               /\ rows[i].key \in gone /\ ~rows[i].new
                               /\ ~isModified(rows[i])
    /\ UNCHANGED <<bashrc, data, fetch, rows, removing, edits, errors>>

\* The sandbox runs the commands of a request; an update is two of them.
RemoveLines ==
    /\ step = "sent" /\ Head(todo).kind \in {"delete", "update"}
    /\ bashrc' = Deleted(bashrc, Head(todo).key)
    /\ step' = IF Head(todo).kind = "delete" THEN "taken" ELSE "half"
    /\ UNCHANGED <<data, fetch, rows, todo, removing, edits, saves, errors,
                   wanted, asked, crossed>>

AppendLine ==
    /\ \/ step = "sent" /\ Head(todo).kind = "add"
       \/ step = "half"
    /\ bashrc' = Append(bashrc, [key |-> Head(todo).key, value |-> Head(todo).value])
    /\ step' = "taken"
    /\ UNCHANGED <<data, fetch, rows, todo, removing, edits, saves, errors,
                   wanted, asked, crossed>>

\* Mutant: the loop goes over the rows shown by now.
Rest_OfRows ==
    IF \E i \in DOMAIN rows : rows[i].new \/ isModified(rows[i])
    THEN Tail(todo) ELSE <<>>
\* The loop goes on with the rows it was started with.
Rest == Tail(todo)

SaveReturns ==
    /\ step = "taken"
    /\ Send(Rest)
    /\ Invalidated
    /\ UNCHANGED <<bashrc, data, rows, removing, edits, saves, errors, wanted,
                   asked, crossed>>

\* A request fails, before, between or after its commands: the rest of the
\* save is given up.
SaveFails ==
    /\ step # "none" /\ errors < MaxErrors
    /\ Send(<<>>)
    /\ errors' = errors + 1
    /\ UNCHANGED <<bashrc, data, fetch, rows, removing, edits, saves, wanted,
                   asked, crossed>>

\* The view: the fields of each row, and the buttons
SecretsView ==
    \/ AddSecret \/ Save \/ Refresh
    \/ \E i \in DOMAIN rows : RemoveSecret(i)
    \/ \E i \in DOMAIN rows, k \in Keys \cup {NoKey}, v \in Values \cup {0} :
          UpdateSecret(i, k, v)

Next ==
    \/ ReadSecrets \/ SecretsFetched \/ SecretsFail
    \/ SecretsView \/ RemoveLines \/ AppendLine
    \/ SaveReturns \/ SaveFails
    \/ \E k \in Keys : DeleteTaken(k) \/ DeleteReturns(k) \/ DeleteFails(k)

Spec == Init /\ [][Next]_vars

-----------------------------------------------------------------------------

Line == [key : Keys \cup {NoKey}, value : Values \cup {0}]

\* Types of all variables.
TypeOK ==
    /\ \A lines \in {bashrc, data, fetch, rows, todo} : Len(lines) \in Nat
    /\ \A i \in DOMAIN bashrc : bashrc[i] \in Line /\ bashrc[i].key # NoKey
    /\ \A i \in DOMAIN rows :
          rows[i] \in [key : Keys \cup {NoKey}, value : Values \cup {0},
                       was : Line, new : BOOLEAN]
    /\ \A i \in DOMAIN todo :
          todo[i] \in [kind : {"add", "delete", "update"}, key : Keys,
                       value : Values \cup {0}]
    /\ step \in {"none", "sent", "half", "taken"}
    /\ (step = "none") = (todo = <<>>)
    /\ removing \in [Keys -> {"no", "sent", "taken"}]
    /\ edits \in 0 .. MaxEdits /\ saves \in 0 .. MaxSaves
    /\ errors \in 0 .. MaxErrors /\ crossed \in BOOLEAN
    /\ wanted \subseteq Keys /\ asked \subseteq Line

Quiet == todo = <<>> /\ fetch = Idle /\ \A k \in Keys : removing[k] = "no"
Undisturbed == Quiet /\ errors = 0 /\ ~crossed

\* Once everything is answered and nothing failed, the sandbox has just the
\* variables that were meant (SecretsView.tsx, handleSaveSecrets): a renamed
\* one is gone under its old name, and no other is lost -- unless a save wrote
\* a key and a later request of it removed that key again, met a value left
\* empty, or a removal or a refetch was under way together with it.
KeysAsWanted ==
    Undisturbed => {bashrc[i].key : i \in DOMAIN bashrc} = wanted

\* Every row of a save reaches the sandbox, although the answer to its first
\* request already makes the form show the stored rows again.
SavedAll == Undisturbed => asked \subseteq {bashrc[i] : i \in DOMAIN bashrc}

\* With everything answered, and under the same conditions, a form without
\* changes shows what is stored.
ShownIsStored ==
    Undisturbed
          /\ (\A i \in DOMAIN rows : ~rows[i].new /\ ~isModified(rows[i]))
        => [i \in DOMAIN rows |-> rows[i].was] = bashrc
=============================================================================
