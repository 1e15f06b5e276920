---------------------------- MODULE MessageParts ----------------------------
(***************************************************************************)
(* Two parts of a message that keep a state of their own.  First the diff  *)
(* of a call that edits or writes a file, and the lines of it that are     *)
(* chosen with the mouse and commented; then a diagram.                    *)
(*   frontend components/chat/tools/FileOperationTool.tsx;                 *)
(*   components/chat/tools/common/DiffViewer.tsx, ReviewInput.tsx,         *)
(*   ExpandableSection.tsx; components/ui/Mermaid.tsx, MarkDown.tsx;       *)
(*   store/uiStore.ts                                                      *)
(*                                                                         *)
(* diffLines (external) returns the blocks of lines that two texts share   *)
(* or not; the rows of the hunk are numbered by the code.  A gesture of    *)
(* the mouse, from its button going down until it goes up, is one step.    *)
(***************************************************************************)
EXTENDS Naturals, Sequences, FiniteSets, FiniteSetsExt, SequencesExt

CONSTANTS
  Values,      \* values of blocks: sequences of letters and breaks, not empty
  MaxBlocks,   \* bound: blocks of a diff
  MaxReviews   \* bound: comments made

VARIABLES
  changes,     \* what diffLines returned
  rows,        \* hunks: the rows of its hunk
  expanded,    \* of the section the diff is in
  dragging,    \* isDraggingFromPlusIcon
  selected,    \* selectedLines, with the rows that were selected (history), or None
  comment,     \* whether there is a text in the comment box
  reviews,     \* comments made: set of [start, end, type, cut]
  strayed      \* (history) a drag that began at a plus ended outside of the diff

vars == <<changes, rows, expanded, dragging, selected, comment, reviews, strayed>>

None == [type |-> "none"]
Break == "n"

\* value.split('\n')
Split(value) ==
  FoldLeft(LAMBDA lines, c : IF c = Break THEN Append(lines, <<>>)
                             ELSE [lines EXCEPT ![Len(lines)] = Append(@, c)],
           <<<<>>>>, value)

\* Mutant: the break at the end of a block counts for a line of its own.
LinesOf_AllParts(value) == Split(value)

LinesOf(value) == IF Last(value) = Break THEN Front(Split(value)) ELSE Split(value)

\* A row has the numbers its type has: delete the old one, insert the new one.
Numbered(hunk, block, line) ==
  [rows |-> Append(hunk.rows, [type |-> block.type, content |-> line,
                               old |-> hunk.old, new |-> hunk.new]),
   old |-> hunk.old + (IF block.type = "insert" THEN 0 ELSE 1),
   new |-> hunk.new + (IF block.type = "delete" THEN 0 ELSE 1)]

convertToHunks(blocks) ==
  FoldLeft(LAMBDA hunk, b : FoldLeft(LAMBDA h, line : Numbered(h, b, line),
                                     hunk, LinesOf(b.value)),
           [rows |-> <<>>, old |-> 1, new |-> 1], blocks).rows

getLineNumber(row) == IF row.type = "delete" THEN row.old ELSE row.new

-----------------------------------------------------------------------------
(* The two texts of a diff. *)

Of(blocks, other) == SelectSeq(blocks, LAMBDA b : b.type # other)
TextOf(blocks, other) ==
  FoldLeft(LAMBDA text, b : text \o b.value, <<>>, Of(blocks, other))

\* The lines of a text with their breaks
Tokens(value) == {<<line, TRUE>> : line \in Range(Front(Split(value)))}
                   \cup (IF Last(value) = Break THEN {} ELSE {<<Last(Split(value)), FALSE>>})

\* What diffLines may return: only a text's end has no break, two blocks next
\* to each other differ in type, removed comes before added, and the two have
\* no line in common.
IsDiff(blocks) ==
  /\ \A other \in {"insert", "delete"} :
       \A i \in 1 .. Len(Of(blocks, other)) - 1 : Last(Of(blocks, other)[i].value) = Break
  /\ \A i \in 1 .. Len(blocks) - 1 :
       LET b == blocks[i]  next == blocks[i + 1]
       IN /\ b.type # next.type
          /\ ~(b.type = "insert" /\ next.type = "delete")
          /\ b.type = "delete" /\ next.type = "insert" => Tokens(b.value) \cap Tokens(next.value) = {}

Diffs == {blocks \in UNION {[1 .. n -> [type : {"delete", "insert", "normal"}, value : Values]] :
                              n \in 1 .. MaxBlocks} : IsDiff(blocks)}

\* The section of a tool is folded at first; a diff is shown of an edit or a write.
Init ==
  /\ changes \in Diffs /\ rows = convertToHunks(changes)
  /\ expanded = FALSE /\ dragging = FALSE /\ selected = None /\ comment = FALSE
  /\ reviews = {} /\ strayed = FALSE

-----------------------------------------------------------------------------

\* Folding the section unmounts the diff and the comment box, with their
\* states; the selected lines are the tool's and stay.
Toggle ==
  /\ expanded' = ~expanded
  /\ dragging' = FALSE /\ comment' = FALSE /\ strayed' = FALSE
  /\ UNCHANGED <<changes, rows, selected, reviews>>

TypesIn(cut) == {rows[i].type : i \in cut}
NumbersIn(cut) == {getLineNumber(rows[i]) : i \in cut}

\* Mutant: rows of two types are taken together.
Selects_Mixed(cut) == cut # {}

\* The rows a selection cuts are all of one type.
Selects(cut) == cut # {} /\ Cardinality(TypesIn(cut)) = 1

SelectedLines(cut) ==
  [start |-> Min(NumbersIn(cut)), end |-> Max(NumbersIn(cut)),
   type |-> CHOOSE t \in TypesIn(cut) : TRUE, cut |-> cut]

\* Mutant: the flag stays when nothing was selected.
Released_IfUsed(used) == ~used

\* The finally of handleTextSelection, on whatever path it is left
Released(used) == FALSE

\* Whether it counts for a drag from the plus of a row
FromPlus(onPlus) == dragging \/ onPlus

\* The mouse goes down on the plus of a row or elsewhere, within the diff or
\* outside; it is drawn over rows, or over none or blanks (cut = {}), and goes
\* up within the diff: onMouseUp calls handleTextSelection.
Select(onPlus, inside, cut) ==
  /\ expanded /\ (onPlus => inside)
  /\ LET used == FromPlus(onPlus) /\ inside /\ Selects(cut)
     IN /\ dragging' = (Released(used) /\ FromPlus(onPlus))
        /\ selected' = IF used THEN SelectedLines(cut) @@ [plus |-> onPlus \/ strayed] ELSE selected
  /\ strayed' = FALSE
  /\ UNCHANGED <<changes, rows, expanded, comment, reviews>>

\* The mouse goes up outside of the diff: nothing hears of it.
SelectOutside(onPlus) ==
  /\ expanded
  /\ dragging' = FromPlus(onPlus) /\ strayed' = (strayed \/ onPlus)
  /\ UNCHANGED <<changes, rows, expanded, selected, comment, reviews>>

\* The comment box is there for selected lines of an open section.
HasBox == expanded /\ selected # None

Write(text) ==
  /\ HasBox /\ comment # text
  /\ comment' = text
  /\ UNCHANGED <<changes, rows, expanded, dragging, selected, reviews, strayed>>

\* handleSubmit and handleReviewSubmit; the box goes with the selection.
Submit ==
  /\ HasBox /\ comment
  /\ Cardinality(reviews) < MaxReviews
  /\ reviews' = reviews \cup {selected}
  /\ selected' = None /\ comment' = FALSE
  /\ UNCHANGED <<changes, rows, expanded, dragging, strayed>>

\* handleReviewCancel
Cancel ==
  /\ HasBox
  /\ selected' = None /\ comment' = FALSE
  /\ UNCHANGED <<changes, rows, expanded, dragging, reviews, strayed>>

\* What the user selects in a diff, from which gutter and whether all of it is code
DiffViewer ==
  \/ \E onPlus, inside \in BOOLEAN :
       \/ Select(onPlus, inside, {})
       \/ \E i \in DOMAIN rows : \E j \in i .. Len(rows) : Select(onPlus, inside, i .. j)
  \/ \E onPlus \in BOOLEAN : SelectOutside(onPlus)

Next ==
  \/ Toggle \/ Submit \/ Cancel \/ DiffViewer
  \/ \E text \in BOOLEAN : Write(text)

Spec == Init /\ [][Next]_vars

-----------------------------------------------------------------------------
(* Properties *)

TypeOK ==
  /\ expanded \in BOOLEAN /\ dragging \in BOOLEAN /\ comment \in BOOLEAN
  /\ comment => HasBox

Numbers(type, number(_)) ==
  {<<number(rows[i]), rows[i].content>> : i \in {k \in DOMAIN rows : rows[k].type # type}}

\* The rows without the inserted ones are the old text and those without the
\* deleted ones the new text: each line under its own number, however the texts
\* were cut into blocks and whether or not they end in a line break.
NumberedAs(text, other, number(_)) ==
  text # <<>> => LET lines == LinesOf(text)
                 IN Numbers(other, number) = {<<n, lines[n]>> : n \in DOMAIN lines}
HunkIsTheTexts ==
  /\ NumberedAs(TextOf(changes, "insert"), "insert", LAMBDA row : row.old)
  /\ NumberedAs(TextOf(changes, "delete"), "delete", LAMBDA row : row.new)

\* The lines that a comment names, by their type and their first and last
\* number, are exactly the rows that were selected for it.
Named(lines) == {i \in DOMAIN rows : /\ rows[i].type = lines.type
                                     /\ getLineNumber(rows[i]) \in lines.start .. lines.end}
CommentNamesItsLines ==
  \A lines \in reviews \cup (IF selected = None THEN {} ELSE {selected}) :
    Named(lines) = lines.cut

\* Text that is only marked with the mouse is not taken for a comment: that
\* begins at a plus, unless an earlier drag from a plus ended outside the diff.
BeginsAtPlus == selected # None => selected.plus

-----------------------------------------------------------------------------
(* A diagram: it is drawn by a library that answers later, while its text  *)
(* still grows and the theme changes.  The text is the number of its       *)
(* pieces that have come, 0 being a blank one; the text of a code block    *)
(* only grows.                                                             *)

CONSTANTS
  MaxText,     \* bound: pieces of the text
  MaxToggles   \* bound: changes of the theme, and presses of the button

VARIABLES
  content, theme, showPreview,
  state,       \* status, and of a drawing what it shows
  renderId,    \* renderIdRef
  renders,     \* calls of mermaid.render under way: their text, theme and id
  toggles      \* number of presses

diagramVars == <<content, theme, showPreview, state, renderId, renders, toggles>>

Themes == {"dark", "light"}
State(status) == [status |-> status, content |-> 0, theme |-> "dark"]

DiagramInit ==
  /\ content \in 0 .. 1 /\ theme = "dark" /\ showPreview = FALSE
  /\ state = State("idle") /\ renderId = 0 /\ renders = {}
  /\ toggles = 0

\* Mutant: the render gets the number from before it was raised.
NextId_Before == renderId

\* ++renderIdRef.current
NextId == renderId + 1

\* The effect of text, theme and button; a render under way goes on.
Drawn ==
  IF ~showPreview' \/ content' = 0
  THEN state' = State("idle") /\ UNCHANGED <<renderId, renders>>
  ELSE /\ renderId' = renderId + 1
       /\ state' = State("loading")
       /\ renders' = renders \cup {[content |-> content', theme |-> theme', id |-> NextId]}

\* A piece of the text comes; MarkDown.tsx gives the whole block.
Grow ==
  /\ content < MaxText
  /\ content' = content + 1
  /\ UNCHANGED <<theme, showPreview, toggles>>
  /\ Drawn

toggleTheme ==
  /\ toggles < MaxToggles
  /\ toggles' = toggles + 1
  /\ theme' = IF theme = "dark" THEN "light" ELSE "dark"
  /\ UNCHANGED <<content, showPreview>>
  /\ Drawn

\* The button is disabled while a diagram is being drawn.
TogglePreview ==
  /\ state.status # "loading" /\ toggles < MaxToggles
  /\ toggles' = toggles + 1
  /\ showPreview' = ~showPreview
  /\ UNCHANGED <<content, theme>>
  /\ Drawn

\* Mutant: every answer is taken.
Current_Any(r) == TRUE

Current(r) == r.id = renderId

\* A render succeeds or fails; several may be under way and end in any order.
Rendered(r, status) ==
  /\ renders' = renders \ {r}
  /\ state' = IF Current(r) THEN [status |-> status, content |-> r.content, theme |-> r.theme]
              ELSE state
  /\ UNCHANGED <<content, theme, showPreview, renderId, toggles>>

DiagramNext ==
  \/ Grow \/ toggleTheme \/ TogglePreview
  \/ \E r \in renders, status \in {"success", "error"} : Rendered(r, status)


DiagramTypeOK ==
  /\ content \in 0 .. MaxText /\ theme \in Themes /\ showPreview \in BOOLEAN
  /\ state \in [status : {"idle", "loading", "success", "error"}, content : 0 .. MaxText,
                theme : Themes]
  /\ toggles \in 0 .. MaxToggles /\ renderId <= MaxText + MaxToggles
  /\ \A r \in renders : r.id <= renderId

\* A diagram or an error that is shown is of the whole text and in the theme of
\* the page, in whatever order the renders end.
DiagramIsCurrent ==
  showPreview /\ state.status \in {"success", "error"} =>
    state.content = content /\ state.theme = theme

\* While the button is disabled, a render is under way that will enable it.
ButtonComesBack ==
  state.status = "loading" => \E r \in renders : r.id = renderId
=============================================================================
