------------------------------- MODULE Editor -------------------------------
(***************************************************************************)
(* The code editor of a chat: the file chosen in the tree, its text from   *)
(* the query cache, the text typed, Save, and the callbacks of a save that *)
(* come when another file, or no editor, is shown; and the file tree.      *)
(*                                                                         *)
(*   frontend/src/components/editor/editor-view/View.tsx, Header.tsx       *)
(*   frontend/src/hooks/queries/useSandboxQueries.ts                       *)
(*   frontend/src/hooks/useEditorState.ts                                  *)
(*   backend/app/services/sandbox.py (write_file, get_file_content)        *)
(*   frontend/src/utils/file.ts, frontend/src/hooks/useFileTreeSearch.ts   *)
(*   frontend/src/components/editor/file-tree/Tree.tsx, Item.tsx           *)
(*   frontend/src/components/editor/editor-core/Editor.tsx                 *)
(*                                                                         *)
(* A text is a number.  A fetched text is read at the sandbox in a step of *)
(* its own, so that a write can come between the reading and the answer.   *)
(***************************************************************************)
EXTENDS Integers, Sequences, SequencesExt, FiniteSets

CONSTANTS
    Files,       \* paths of files
    NoFile,      \* selectedFile is null
    MaxText,     \* bound: the texts are 0 .. MaxText, 0 being the empty one
    MaxSaves,    \* bound: presses of Save
    MaxForeign,  \* bound: writes of a file by the agent
    MaxErrors,   \* bound: requests that fail
    MaxViews     \* bound: times the editor is left

VARIABLES
    disk,      \* the files in the sandbox
    cached,    \* fileContent query: the text it holds
    stale,     \* files whose query was invalidated while it was not in use
    fetch,     \* fileContent query: the fetch under way
    selected,  \* selectedFile of useEditorState
    mounted,   \* currentView is the editor
    view,      \* View: prevSelectedFileRef, currentContent, hasUnsavedChanges
    saves,     \* the updateFile mutations, in the order Save was pressed
    foreign,   \* number of writes by the agent
    errors,    \* number of requests that failed
    views,     \* number of times the editor was left
    own,       \* the texts a file had or that were typed into it (history)
    crossed,   \* a save's end cleared the mark of a later text (history)
    outrun     \* an answer read before a write came after its invalidation
               \* and was taken for the new text (history)

vars == <<disk, cached, stale, fetch, selected, mounted, view, saves,
          foreign, errors, views, own, crossed, outrun>>

Texts == 0 .. MaxText
Unknown == -1                          \* the query has no data
Idle == -1                             \* no fetch is under way
Asked == -2                            \* a fetch is under way, not yet read

Fresh == [path |-> NoFile, base |-> 0, text |-> 0, dirty |-> FALSE]

Init ==
    /\ disk = [f \in Files |-> 1]
    /\ cached = [f \in Files |-> Unknown]
    /\ stale = [f \in Files |-> FALSE]
    /\ fetch = [f \in Files |-> Idle]
    /\ selected = NoFile
    /\ mounted = TRUE
    /\ view = Fresh
    /\ saves = [i \in {} |-> 0]
    /\ foreign = 0
    /\ errors = 0
    /\ views = 0
    /\ own = [f \in Files |-> {1}]
    /\ crossed = FALSE
    /\ outrun = FALSE

\* Mutant: the text follows the query and not the file that is chosen.
Rendered_OnlyData(v, f, data) ==
    IF f # NoFile /\ data # Unknown /\ v.base # data
    THEN [path |-> f, base |-> data, text |-> data, dirty |-> FALSE]
    ELSE [v EXCEPT !.path = f]
\* Mutant: the mark of unsaved changes stays when the text is replaced.
Rendered_KeepsMark(v, f, data) ==
    LET text == IF data = Unknown THEN 0 ELSE data
    IN  IF f # NoFile /\ (v.path # f \/ (data # Unknown /\ v.base # data))
        THEN [v EXCEPT !.path = f, !.base = text, !.text = text]
        ELSE v
\* The effect that follows the file and the text of its query: a file newly
\* shown, or a text other than the one last taken, replaces what is shown.
Rendered(v, f, data) ==
    LET text == IF data = Unknown THEN 0 ELSE data
    IN  IF f # NoFile /\ (v.path # f \/ (data # Unknown /\ v.base # data))
        THEN [path |-> f, base |-> text, text |-> text, dirty |-> FALSE]
        ELSE v

\* Using a query fetches when it has no text or an outdated one; `old` says
\* that five minutes have gone by.
Used(f, old) ==
    /\ fetch' = IF fetch[f] = Idle /\ (cached[f] = Unknown \/ stale[f] \/ old)
                THEN [fetch EXCEPT ![f] = Asked] ELSE fetch

\* Item.tsx: a click on a file of the tree.
Open(f) ==
    /\ mounted /\ f # selected
    /\ selected' = f
    /\ view' = Rendered(view, f, cached[f])
    /\ \E old \in BOOLEAN : Used(f, old)
    /\ UNCHANGED <<disk, cached, stale, mounted, saves, foreign, errors,
                   views, own, crossed, outrun>>

\* Another view is shown: the editor and what was typed in it are gone, and
\* so are the callbacks its saves were given.
LeaveView ==
    /\ mounted /\ views < MaxViews
    /\ mounted' = FALSE
    /\ views' = views + 1
    /\ view' = Fresh
    /\ saves' = [i \in DOMAIN saves |-> [saves[i] EXCEPT !.mine = FALSE]]
    /\ UNCHANGED <<disk, cached, stale, fetch, selected, foreign, errors, own,
                   crossed, outrun>>

ReturnToView ==
    /\ ~mounted
    /\ mounted' = TRUE
    /\ IF selected = NoFile
       THEN UNCHANGED <<view, fetch>>
       ELSE /\ view' = Rendered(Fresh, selected, cached[selected])
            /\ \E old \in BOOLEAN : Used(selected, old)
    /\ UNCHANGED <<disk, cached, stale, selected, saves, foreign, errors,
                   views, own, crossed, outrun>>

\* The text is read at the sandbox.
ReadFile(f) ==
    /\ fetch[f] = Asked
    /\ fetch' = [fetch EXCEPT ![f] = disk[f]]
    /\ UNCHANGED <<disk, cached, stale, selected, mounted, view, saves,
                   foreign, errors, views, own, crossed, outrun>>

\* The answer of the query; the effect runs when the file is shown.
FetchReturns(f) ==
    /\ fetch[f] \in Texts
    /\ cached' = [cached EXCEPT ![f] = fetch[f]]
    /\ stale' = [stale EXCEPT ![f] = FALSE]
    /\ fetch' = [fetch EXCEPT ![f] = Idle]
    /\ view' = IF mounted /\ selected = f THEN Rendered(view, f, fetch[f])
               ELSE view
    /\ outrun' = (outrun \/ (stale[f] /\ fetch[f] # disk[f]))
    /\ UNCHANGED <<disk, selected, mounted, saves, foreign, errors, views, own,
                   crossed>>

\* The fetch and its retry fail: what was cached stays.
FetchFails(f) ==
    /\ fetch[f] # Idle /\ errors < MaxErrors
    /\ fetch' = [fetch EXCEPT ![f] = Idle]
    /\ errors' = errors + 1
    /\ UNCHANGED <<disk, cached, stale, selected, mounted, view, saves,
                   foreign, views, own, crossed, outrun>>

\* The overlay shown while a first text is loading keeps the user from typing.
Loading == cached[selected] = Unknown /\ fetch[selected] # Idle

\* handleEditorChange
Type(t) ==
    /\ mounted /\ selected # NoFile /\ ~Loading /\ t # view.text
    /\ view' = [view EXCEPT !.text = t, !.dirty = t # view.base]
    /\ own' = [own EXCEPT ![selected] = @ \cup {t}]
    /\ UNCHANGED <<disk, cached, stale, fetch, selected, mounted, saves,
                   foreign, errors, views, crossed, outrun>>

Saving == \E i \in DOMAIN saves : saves[i].mine /\ saves[i].phase # "done"

\* handleUpdateFile; the button is disabled while a save of this view is
\* under way.
Save ==
    /\ mounted /\ selected # NoFile /\ view.dirty /\ ~Saving
    /\ Cardinality(DOMAIN saves) < MaxSaves
    /\ saves' = [i \in 1 .. Cardinality(DOMAIN saves) + 1 |->
                    IF i \in DOMAIN saves THEN saves[i]
                    ELSE [file |-> selected, text |-> view.text,
                          phase |-> "sent", mine |-> TRUE]]
    /\ UNCHANGED <<disk, cached, stale, fetch, selected, mounted, view,
                   foreign, errors, views, own, crossed, outrun>>

\* write_file in the sandbox
WriteFile(i) ==
    /\ saves[i].phase = "sent"
    /\ disk' = [disk EXCEPT ![saves[i].file] = saves[i].text]
    /\ saves' = [saves EXCEPT ![i].phase = "written"]
    /\ UNCHANGED <<cached, stale, fetch, selected, mounted, view, foreign,
                   errors, views, own, crossed, outrun>>

\* The request fails, before or after the write: only the error is shown.
SaveFails(i) ==
    /\ saves[i].phase \in {"sent", "written"} /\ errors < MaxErrors
    /\ saves' = [saves EXCEPT ![i].phase = "done"]
    /\ errors' = errors + 1
    /\ UNCHANGED <<disk, cached, stale, fetch, selected, mounted, view,
                   foreign, views, own, crossed, outrun>>

\* The query of the text of a file is used by the editor that shows the file.
InUse(f) == mounted /\ selected = f

\* Mutant: only the list of files is invalidated.
Invalidated_Not(f) == UNCHANGED <<stale, fetch>>
\* invalidateQueries: a query in use is fetched anew, its fetch under way
\* being dropped unless it is the first; one that is not is fetched when it is
\* used again.
Invalidated(f) ==
    IF InUse(f)
    THEN /\ fetch' = [fetch EXCEPT ![f] =
                        IF cached[f] = Unknown /\ @ # Idle THEN @ ELSE Asked]
         /\ stale' = [stale EXCEPT ![f] = TRUE]
    ELSE /\ stale' = [stale EXCEPT ![f] = TRUE]
         /\ UNCHANGED fetch

\* The answer of a save: the mutation awaits the new text of the file, if that is in use.
SaveReturns(i) ==
    /\ saves[i].phase = "written"
    /\ saves' = [saves EXCEPT ![i].phase = IF InUse(saves[i].file) THEN "refetching" ELSE "ending"]
    /\ Invalidated(saves[i].file)
    /\ UNCHANGED <<disk, cached, selected, mounted, view, foreign, errors,
                   views, own, crossed, outrun>>

\* The onSuccess given to mutate, whichever file is shown by now.
Unmarked(v) == [v EXCEPT !.dirty = FALSE]

\* The mutation ends when its refetch has, and that of the list of files: its
\* callback runs if the editor that pressed Save is still there.
SaveEnds(i) ==
    /\ \/ saves[i].phase = "ending"
       \/ saves[i].phase = "refetching" /\ fetch[saves[i].file] = Idle
    /\ saves' = [saves EXCEPT ![i].phase = "done"]
    /\ IF saves[i].mine
       THEN /\ view' = Unmarked(view)
            /\ crossed' = (crossed \/ view.text # view.base)
       ELSE UNCHANGED <<view, crossed>>
    /\ UNCHANGED <<disk, cached, stale, fetch, selected, mounted, foreign,
                   errors, views, own, outrun>>

\* The agent writes a file: no query of its text is invalidated.
AgentWrites(f, t) ==
    /\ foreign < MaxForeign /\ t # disk[f]
    /\ disk' = [disk EXCEPT ![f] = t]
    /\ own' = [own EXCEPT ![f] = @ \cup {t}]
    /\ foreign' = foreign + 1
    /\ UNCHANGED <<cached, stale, fetch, selected, mounted, view, saves,
                   errors, views, crossed, outrun>>

\* The view of one file: its text, and the button
View == Save \/ \E t \in Texts : Type(t)

Next ==
    \/ LeaveView \/ ReturnToView \/ View
    \/ \E f \in Files :
          Open(f) \/ ReadFile(f) \/ FetchReturns(f) \/ FetchFails(f)
    \/ \E f \in Files, t \in Texts : AgentWrites(f, t)
    \/ \E i \in DOMAIN saves :
          WriteFile(i) \/ SaveFails(i) \/ SaveReturns(i) \/ SaveEnds(i)

Spec == Init /\ [][Next]_vars

-----------------------------------------------------------------------------

\* Types of all variables.
TypeOK ==
    /\ disk \in [Files -> Texts] /\ cached \in [Files -> Texts \cup {Unknown}]
    /\ stale \in [Files -> BOOLEAN]
    /\ fetch \in [Files -> Texts \cup {Idle, Asked}]
    /\ selected \in Files \cup {NoFile} /\ mounted \in BOOLEAN
    /\ view \in [path : Files \cup {NoFile}, base : Texts, text : Texts,
                 dirty : BOOLEAN]
    /\ Cardinality(DOMAIN saves) <= MaxSaves
    /\ \A i \in DOMAIN saves :
          saves[i] \in [file : Files, text : Texts, mine : BOOLEAN,
                        phase : {"sent", "written", "refetching", "ending", "done"}]
    /\ foreign \in 0 .. MaxForeign /\ errors \in 0 .. MaxErrors
    /\ views \in 0 .. MaxViews /\ crossed \in BOOLEAN /\ outrun \in BOOLEAN
    /\ own \in [Files -> SUBSET Texts]

\* A file is only ever given a text that was its own or was typed into it
\* (View.tsx, the effect that replaces the text when the file changes): the
\* text of another file, still shown while its own is loading, is not saved.
OwnText == \A f \in Files : disk[f] \in own[f]

Quiet == /\ \A f \in Files : fetch[f] = Idle
         /\ \A i \in DOMAIN saves : saves[i].phase = "done"

\* When nothing is under way and nothing failed, an editor without the mark of
\* unsaved changes shows the file as it is stored (useSandboxQueries.ts, the
\* invalidation after a save), unless the agent wrote the file meanwhile or a
\* save's end took the mark from a text that was typed after it, or the answer
\* to an earlier fetch of a file not in use came after the invalidation.
CleanShowsStored ==
    Quiet /\ errors = 0 /\ foreign = 0 /\ ~crossed /\ ~outrun
          /\ mounted /\ selected # NoFile /\ ~view.dirty
        => view.text = disk[selected]

\* The mark of unsaved changes is shown just when the text differs from the
\* one last loaded, except after a save's end took it from a later text.
MarkIsTrue == ~crossed => view.dirty = (view.text # view.base)

-----------------------------------------------------------------------------
(* The file tree: the listing of the sandbox made into a tree, folders     *)
(* opened and closed, and the search that filters the tree and opens what  *)
(* leads to its matches.  A path is the sequence of its parts, and an item *)
(* lies below the folder whose path is all but the last part of its own.   *)
(* The order of siblings is left out; which items match a search is the    *)
(* choice of fuzzysort (external).                                         *)

CONSTANTS
    Disk,        \* the items there can be: records of kind and path
    MaxLists,    \* bound: listings fetched
    MaxToggles,  \* bound: clicks on folders
    MaxSearches  \* bound: changes of the search text

VARIABLES
    listing,   \* filesMetadata: the items listed
    expanded,  \* expandedFolders of Editor: the folders that are closed
    matches,   \* searchResults.matchedPaths; None without a search text
    lists, toggles, searches

treeVars == <<listing, expanded, matches, lists, toggles, searches>>

None == {<<>>}

\* The paths of the items of one kind.
Of(kind, items) == {item.path : item \in {i \in items : i.kind = kind}}

\* All folders above a path.
Above(path) == {SubSeq(path, 1, n) : n \in 1 .. Len(path) - 1}

\* Mutant: the folders are only those that are listed.
Folders_Listed(items) == Of("directory", items)
\* createDirectoryPath: the folders listed, and those on the way to anything.
Folders(items) ==
    Of("directory", items) \cup UNION {Above(item.path) : item \in items}

\* buildFileStructureFromSandboxFiles: an item is put below the folder above
\* it, and left out if there is none.
Tree(items) ==
    {item \in [kind : {"folder"}, path : Folders(items)]
                 \cup [kind : {"file"}, path : Of("file", items)] :
        Len(item.path) = 1 \/ Front(item.path) \in Folders(items)}

tree == Tree(listing)

\* shouldIncludeFolder: a folder stays when it or anything below it matches.
shouldInclude(item) ==
    \/ item.path \in matches
    \/ item.kind = "folder"
       /\ \E path \in matches : IsStrictPrefix(item.path, path)
\* filterItems
filterItems == {item \in tree : shouldInclude(item)}
displayFiles == IF matches = None THEN tree ELSE filterItems

\* Editor's currentExpandedFolders: a folder is open until it is clicked on.
currentExpanded ==
    {item.path : item \in
        {i \in tree : i.kind = "folder" /\ i.path \notin expanded}}

\* Mutant: the folder a match lies in is opened, but none above it.
foldersToExpand_Parent ==
    {Front(path) : path \in matches}
\* getFoldersToExpand
foldersToExpand == UNION {Above(path) : path \in matches}

mergedExpanded ==
    IF matches = None THEN currentExpanded
    ELSE currentExpanded \cup foldersToExpand

\* Items are drawn below folders that are drawn and open.
Drawn ==
    {item \in displayFiles :
        \A above \in Above(item.path) :
            /\ above \in mergedExpanded
            /\ \E folder \in displayFiles : folder.path = above}

TreeInit ==
    /\ listing = {}
    /\ expanded = {}
    /\ matches = None
    /\ lists = 0
    /\ toggles = 0
    /\ searches = 0

\* The listing is fetched; folders whose names are excluded are not listed.
\* A search goes on over the new items: those that stay match as before.
Listed ==
    /\ lists < MaxLists
    /\ \E items \in SUBSET Disk :
          LET old == {item.path : item \in tree}
              new == {item.path : item \in Tree(items)}
          IN  /\ listing' = items
              /\ matches' \in IF matches = None THEN {None}
                              ELSE {m \in SUBSET new : m \cap old = matches \cap new}
    /\ lists' = lists + 1
    /\ UNCHANGED <<expanded, toggles, searches>>

\* Item.handleClick on a folder, toggleFolder of Editor
ToggleFolder ==
    /\ toggles < MaxToggles
    /\ \E item \in Drawn :
          /\ item.kind = "folder"
          /\ expanded' = SymDiff({item.path}, expanded)
    /\ toggles' = toggles + 1
    /\ UNCHANGED <<listing, matches, lists, searches>>

\* handleSearchChange and handleSearchClear
Search ==
    /\ searches < MaxSearches
    /\ matches' \in {None} \cup SUBSET {item.path : item \in tree}
    /\ searches' = searches + 1
    /\ UNCHANGED <<listing, expanded, lists, toggles>>

TreeNext == Listed \/ ToggleFolder \/ Search


\* Types of all variables.
TreeTypeOK ==
    /\ listing \subseteq Disk
    /\ \A path \in expanded : path \in Seq(STRING) /\ path # <<>>
    /\ matches = None \/ matches \subseteq {item.path : item \in tree}
    /\ lists \in 0 .. MaxLists /\ toggles \in 0 .. MaxToggles
    /\ searches \in 0 .. MaxSearches

\* Every file that is listed has a place in the tree, and is drawn as long as
\* no folder is closed and nothing is searched (file.ts, createDirectoryPath):
\* also one whose folders are not listed.
FilesPlaced ==
    /\ Of("file", listing) = Of("file", tree)
    /\ expanded = {} /\ matches = None => Drawn = tree

\* Every match of a search is drawn, however deep it lies and whichever
\* folders are closed (useFileTreeSearch.ts, getFoldersToExpand), and nothing
\* is drawn that neither is a match nor leads to one.
MatchesShown ==
    matches # None =>
        /\ matches \subseteq {item.path : item \in Drawn}
        /\ \A item \in Drawn :
              \E path \in matches : IsPrefix(item.path, path)
=============================================================================
