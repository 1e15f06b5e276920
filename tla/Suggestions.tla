---------------------------- MODULE Suggestions ----------------------------
(***************************************************************************)
(* The suggestions of the message box: files and agents after an @, slash  *)
(* commands at the beginning, and the keys that choose among them.         *)
(*   frontend utils/mentionParser.ts; hooks/useMentionSuggestions.ts,      *)
(*   useSlashCommandSuggestions.ts, useSuggestionBase.ts;                  *)
(*   message-input/Input.tsx, Textarea.tsx, InputSuggestionsPanel.tsx,     *)
(*   MentionSuggestionsPanel.tsx, SlashCommandsPanel.tsx                   *)
(*                                                                         *)
(* A text is a sequence of symbols: a letter, a blank, a line break, an @, *)
(* a slash, or the path of what was mentioned.  The caret is reported to   *)
(* the suggestions after a delay, so they may read the text with a         *)
(* position it no longer has.                                              *)
(***************************************************************************)
EXTENDS Integers, Sequences, FiniteSets, SequencesExt

CONSTANTS
  Names,     \* names of files, agents and commands: sequences of symbols
  MaxLen,    \* bound: symbols of a text that is typed into, or a mention chosen in
  MaxMoves   \* bound: moves of the caret between two texts

VARIABLES
  message,
  caret,       \* selectionStart of the textarea
  position,    \* cursorPosition of the box
  last,        \* lastCursorPositionRef
  timer,       \* position the debounce timer will report, or None
  placing,     \* position the timeout of handleMentionSelect will set, or None
  highlighted, \* highlightedIndex: of the mentions, of the commands
  moves,       \* moves of the caret since the text was empty
  strayed      \* (history) the caret moved and no report is due

vars == <<message, caret, position, last, timer, placing, highlighted, moves, strayed>>

None == -1
Letter == "x"
Blank == "_"
Break == "n"
At == "@"
Slash == "/"
Path == "p"
Symbols == {Letter, Blank, Break, At, Slash}

\* message.slice(from, to), with positions from 0
Slice(s, from, to) == SubSeq(s, from + 1, IF to < Len(s) THEN to ELSE Len(s))
Has(s, symbol) == symbol \in Range(s)

-----------------------------------------------------------------------------
(* The mention at a position of a text: from is the position of its @. *)

Inactive == [isActive |-> FALSE, query |-> <<>>, from |-> None, to |-> None]

LastAt(s) == LET ats == {i \in DOMAIN s : s[i] = At}
             IN IF ats = {} THEN None ELSE (CHOOSE i \in ats : \A j \in ats : j <= i) - 1

\* Mutant: a mention goes on after a blank.
parseMentionQuery_Blanks(s, pos) ==
  LET at == LastAt(Slice(s, 0, pos))
  IN IF at = None \/ (at > 0 /\ s[at] \notin {Blank, Break}) THEN Inactive
     ELSE [isActive |-> TRUE, query |-> Slice(s, at + 1, pos), from |-> at, to |-> pos]

parseMentionQuery(s, pos) ==
  LET at == LastAt(Slice(s, 0, pos))
      query == Slice(s, at + 1, pos)
  IN IF at = None \/ (at > 0 /\ s[at] \notin {Blank, Break}) THEN Inactive
     ELSE IF Has(query, Blank) \/ Has(query, Break) THEN Inactive
     ELSE [isActive |-> TRUE, query |-> query, from |-> at, to |-> pos]

\* fuzzySearch (external) is taken for a search by prefix, or for the path itself.
Matching(query) == {n \in Names : query = <<Path>> \/ IsPrefix(query, n)}

Mention == parseMentionQuery(message, position)
Mentions == IF Mention.isActive THEN Matching(Mention.query) ELSE {}

\* The slash command a text begins with
FirstLine(s) == LET breaks == {i \in DOMAIN s : s[i] = Break}
                IN IF breaks = {} THEN s ELSE Slice(s, 0, (CHOOSE i \in breaks : \A j \in breaks : i <= j) - 1)
Commands ==
  LET line == FirstLine(message)
  IN IF line # <<>> /\ line[1] = Slash /\ ~Has(line, Blank) THEN Matching(Tail(line)) ELSE {}

-----------------------------------------------------------------------------

Init ==
  /\ message = <<>> /\ caret = 0 /\ position = 0 /\ last = None
  /\ timer = None /\ placing = None
  /\ highlighted = [mention |-> 0, command |-> 0] /\ moves = 0 /\ strayed = FALSE

\* Mutant: the highlight is left where it was.
Clamped_Not(index, n) == index

\* The effect of useSuggestionBase: n suggestions are shown.
Clamped(index, n) == IF index < n THEN index ELSE 0

Rendered(h) ==
  highlighted' = [mention |-> Clamped(h.mention, Cardinality(Mentions')),
                  command |-> Clamped(h.command, Cardinality(Commands'))]

\* Mutant: a move within the delay is not reported.
Report_Throttled(p) ==
  /\ timer' = IF timer # None \/ p = last THEN timer ELSE p
  /\ strayed' = (p = last /\ timer \notin {None, p})

\* debouncedCursorChange: a caret back where it was last reported leaves the
\* timer of the move away from there running.
Report(p) ==
  /\ timer' = IF p = last THEN timer ELSE p
  /\ strayed' = (p = last /\ timer \notin {None, p})

\* handleChange
Type(symbol) ==
  /\ placing = None
  /\ Len(message) < MaxLen
  /\ message' = InsertAt(message, caret + 1, symbol)
  /\ caret' = caret + 1
  /\ Report(caret + 1)
  /\ UNCHANGED <<position, last, placing, moves>>
  /\ Rendered(highlighted)

\* Backspace
Erase ==
  /\ placing = None
  /\ caret > 0 /\ moves < MaxMoves
  /\ moves' = moves + 1
  /\ message' = RemoveAt(message, caret)
  /\ caret' = caret - 1
  /\ Report(caret - 1)
  /\ UNCHANGED <<position, last, placing>>
  /\ Rendered(highlighted)

\* handleCursorChange
Move(p) ==
  /\ placing = None
  /\ p # caret /\ moves < MaxMoves
  /\ moves' = moves + 1
  /\ caret' = p
  /\ Report(p)
  /\ UNCHANGED <<message, position, last, placing, highlighted>>

\* The debounce timer fires.
ReportPosition ==
  /\ timer # None
  /\ position' = timer /\ last' = timer /\ timer' = None
  /\ UNCHANGED <<message, caret, placing, moves, strayed>>
  /\ Rendered(highlighted)

NewCursor == Mention.from + 3

\* selectMention: the text of the mention is replaced; its caret is set later.
Mentioned == Slice(message, 0, Mention.from) \o <<At, Path, Blank>>
               \o Slice(message, Mention.to, Len(message))
SelectMention ==
  /\ placing = None /\ Len(message) <= MaxLen   \* bound
  /\ Mentions # {}
  /\ message' = Mentioned
  /\ caret' = Len(message')
  /\ placing' = NewCursor
  /\ UNCHANGED <<position, last, timer, moves, strayed>>
  /\ Rendered(highlighted)

\* Its timeout (of 0 ms, taken to come before the next key); the caret's move is reported as well.
PlaceCaret ==
  /\ placing # None
  /\ placing' = None
  /\ caret' = placing /\ position' = placing
  /\ Report(placing)
  /\ UNCHANGED <<message, last, moves>>
  /\ Rendered(highlighted)

\* handleSlashCommandSelect: the command becomes the whole text.
SelectCommand(name) ==
  /\ placing = None
  /\ name \in Commands
  /\ message' = <<Slash>> \o name \o <<Blank>>
  /\ caret' = Len(message')
  /\ Report(Len(message'))
  /\ UNCHANGED <<position, last, placing, moves>>
  /\ Rendered(highlighted)

\* ArrowDown and ArrowUp, given to the mentions first; Escape
Steps(index, n) == {(index + 1) % n, (index + n - 1) % n, 0}
Highlight ==
  /\ placing = None
  /\ \/ /\ Mentions # {}
        /\ \E i \in Steps(highlighted.mention, Cardinality(Mentions)) :
             highlighted' = [highlighted EXCEPT !.mention = i]
     \/ /\ Mentions = {} /\ Commands # {}
        /\ \E i \in Steps(highlighted.command, Cardinality(Commands)) :
             highlighted' = [highlighted EXCEPT !.command = i]
  /\ UNCHANGED <<message, caret, position, last, timer, placing, moves, strayed>>

\* Enter with nothing suggested sends the text.
Submit ==
  /\ placing = None
  /\ message # <<>> /\ Mentions = {} /\ Commands = {}
  /\ message' = <<>> /\ caret' = 0 /\ moves' = 0
  /\ strayed' = TRUE
  /\ UNCHANGED <<position, last, timer, placing>>
  /\ Rendered(highlighted)

Next ==
  \/ \E s \in Symbols : Type(s)
  \/ Erase
  \/ \E p \in 0 .. Len(message) : Move(p)
  \/ ReportPosition \/ SelectMention \/ PlaceCaret \/ Highlight \/ Submit
  \/ \E n \in Names : SelectCommand(n)

Spec == Init /\ [][Next]_vars

-----------------------------------------------------------------------------
(* Properties *)

TypeOK ==
  /\ caret \in 0 .. Len(message)
  /\ {position, last, timer, placing} \subseteq None .. MaxLen + 3
  /\ Range(message) \subseteq Symbols \cup {Path}

\* The index that Enter takes is one of the suggestions shown, whatever was
\* typed or reported since the highlight moved.
HighlightInRange ==
  /\ Mentions # {} => highlighted.mention < Cardinality(Mentions)
  /\ Commands # {} => highlighted.command < Cardinality(Commands)

\* Choosing a mention replaces one word: no blank and no line break of the text
\* is lost, even when the position is out of date.
Blanks(s) == Len(SelectSeq(s, LAMBDA c : c \in {Blank, Break}))
MentionReplacesAWord == Mentions # {} => Blanks(Mentioned) = Blanks(message) + 1

\* When no report is due, the suggestions know where the caret is; the
\* exceptions are a caret that went back to where it was last reported before
\* the report of its move, and one that moved because the text was sent.
CaretIsKnown ==
  (timer = None /\ placing = None /\ ~strayed) => position = caret
=============================================================================
