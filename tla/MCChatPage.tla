----------------------------- MODULE MCChatPage -----------------------------
(***************************************************************************)
(* The parts of the chat page for TLC: the streams of the page, the pages  *)
(* of its messages, the events of a turn, the log of a message and the     *)
(* segments it is drawn as, the list of chats, the dialog of a permission, *)
(* the message box, its files and the drawings on them, the images of a    *)
(* message, its diagrams and diffs, the suggestions, the first prompt of a *)
(* new chat, and on the server the chats with their sandboxes.             *)
(*                                                                         *)
(* They hand each other values through calls and props and share no        *)
(* variable, so a run explores them side by side, one part in a behaviour. *)
(***************************************************************************)
EXTENDS Naturals

CONSTANTS
    Parts,  \* the parts a run explores
    m1, m2, NoChat, Absent, Nobody, Null, Undefined  \* model values

VARIABLES part,
          turns, stops, cvPage, cvCache, store, cvPosts, checks, restoring,
          validating, bounds, crossed, overtaken,
          db, mpPages, mpFetch, inView, mpTimer, turn, restore, mpCounts, mpOdd,
          parsed, age, stored, shown, visible, view, queue, early, pos,
          replays, switches, missed,
          context, pendingText, sbEvents, moved, outdated,
          cli, parent, blocks, toActive, toEvents, step, toMode,
          content, theme, showPreview, dgState, renderId, renders, toggles,
          rvChanges, rows, expanded, dragging, selected, comment, rvReviews,
          rvStrayed,
          asked, waiting, said, heard, pending, chatId, akPage, isLoading,
          showRejectInput, alternativeInstruction, responses, akMode,
          approvedPlan, akStrayed, hidden, akMoves, errors,
          clServer, clPages, clFetch, calls, clock, clCounts, deleted, shifted,
          lost, clLate, unheard, clLast,
          chat, draft, coFiles, coReviews, coState, coActive, pendingStop,
          coPosts, improving, coMade, used, coLate,
          attached, urls, dialog, atDrawing, saves, drag, alive, atMade,
          cleared, swept,
          attachments, mounted, loadedIds, states, loops, ilCounts, imageUrls,
          stray,
          imageUrl, pictures, emptied, imageRef, canvas, canvasReady, pen,
          isDrawing, lastPos, pointer, meant, saved, dwOdd, dwChanges,
          message, caret, position, sgLast, sgTimer, placing, highlighted,
          sgMoves, sgStrayed,
          fpPage, route, creating, exists, fpServer, fpCache, ui, fpPosts,
          fpCounts, fpOdd,
          sandbox, row, create, remove, kills, send, messages, faults, leaked,
          sxLate

streams == <<turns, stops, cvPage, cvCache, store, cvPosts, checks, restoring,
             validating, bounds, crossed, overtaken>>
paging == <<db, mpPages, mpFetch, inView, mpTimer, turn, restore, mpCounts,
            mpOdd>>
log == <<parsed, age, stored, shown, visible, view, queue, early, pos, replays,
         switches, missed>>
drawing == <<context, pendingText, sbEvents, moved, outdated>>
tools == <<cli, parent, blocks, toActive, toEvents, step, toMode>>
diagram == <<content, theme, showPreview, dgState, renderId, renders, toggles>>
review == <<rvChanges, rows, expanded, dragging, selected, comment, rvReviews,
            rvStrayed>>
asking == <<asked, waiting, said, heard, pending, chatId, akPage, isLoading,
            showRejectInput, alternativeInstruction, responses, akMode,
            approvedPlan, akStrayed, hidden, akMoves, errors>>
list == <<clServer, clPages, clFetch, calls, clock, clCounts, deleted, shifted,
          lost, clLate, unheard, clLast>>
box == <<chat, draft, coFiles, coReviews, coState, coActive, pendingStop,
         coPosts, improving, coMade, used, coLate>>
files == <<attached, urls, dialog, atDrawing, saves, drag, alive, atMade,
           cleared, swept>>
images == <<attachments, mounted, loadedIds, states, loops, ilCounts,
            imageUrls, stray>>
sketch == <<imageUrl, pictures, emptied, imageRef, canvas, canvasReady, pen,
            isDrawing, lastPos, pointer, meant, saved, dwOdd, dwChanges>>
words == <<message, caret, position, sgLast, sgTimer, placing, highlighted,
           sgMoves, sgStrayed>>
first == <<fpPage, route, creating, exists, fpServer, fpCache, ui, fpPosts,
           fpCounts, fpOdd>>
sandboxes == <<sandbox, row, create, remove, kills, send, messages, faults,
               leaked, sxLate>>

\* Blocks of one line and of two, blank ones and with and without a break at the end.
DiffValues ==
    {<<"x">>, <<"n">>, <<"x", "n">>, <<"y", "n">>, <<"y", "n", "x">>}

CV == INSTANCE ChatView WITH
        Chats <- {m1, m2}, NumTurns <- 2, MaxEvents <- 1, MaxSources <- 3,
        MaxMoves <- 1, MaxErrors <- 1, page <- cvPage, cache <- cvCache, posts
        <- cvPosts
MP == INSTANCE MessagePages WITH
        PerPage <- 3, NumBefore <- 4, MaxTurns <- 2, MaxEvents <- 1,
        MaxRestores <- 1, MaxVisits <- 1, MaxErrors <- 1, pages <- mpPages,
        fetch <- mpFetch, timer <- mpTimer, counts <- mpCounts, odd <- mpOdd
EL == INSTANCE EventLog WITH
        Messages <- {m1, m2}, MaxEvents <- 3, MaxReplays <- 1, MaxSwitches <-
        2, CacheSize <- 3
SB == INSTANCE SegmentBuilder WITH
        Tools <- {1, 2, 3}, MaxEvents <- 4, events <- sbEvents
TO == INSTANCE ToolEvents WITH
        Tools <- {1, 2, 3}, ExitPlanMode <- 2, NoTool <- 0, MaxBlocks <- 2,
        MaxEvents <- 4, active <- toActive, events <- toEvents, mode <- toMode
PA == INSTANCE MessageParts WITH
        Values <- DiffValues, MaxBlocks <- 3, MaxReviews <- 1, MaxText <- 3,
        MaxToggles <- 3, changes <- rvChanges, reviews <- rvReviews, strayed <-
        rvStrayed, state <- dgState
AK == INSTANCE Asking WITH
        Chats <- {m1, m2}, NumRequests <- 2, Plans <- {1}, MaxMoves <- 1,
        MaxErrors <- 1, page <- akPage, mode <- akMode, strayed <- akStrayed,
        moves <- akMoves
CL == INSTANCE ChatList WITH
        NumChats <- 3, PerPage <- 2, MaxCreated <- 1, MaxOps <- 4, MaxErrors <-
        1, server <- clServer, pages <- clPages, fetch <- clFetch, counts <-
        clCounts, late <- clLate, last <- clLast
CO == INSTANCE Composer WITH
        Chats <- {m1, m2}, MaxDrafts <- 2, MaxFiles <- 1, MaxReviews <- 2,
        MaxPosts <- 2, files <- coFiles, reviews <- coReviews, state <-
        coState, active <- coActive, posts <- coPosts, made <- coMade, late <-
        coLate
AT == INSTANCE Attachments WITH
        MaxFiles <- 2, MaxChanges <- 4, Images <- {1, 2}, MaxRenders <- 3,
        MaxErrors <- 1, Points <- {1, 2}, Pens <- {1, 2}, Outside <- 0, MaxUrls
        <- 2, MaxLines <- 3, MaxTouches <- 2, drawing <- atDrawing, made <-
        atMade, counts <- ilCounts, odd <- dwOdd, changes <- dwChanges
SG == INSTANCE Suggestions WITH
        Names <- {<<"x">>, <<"x", "x">>, <<"x", "_">>}, MaxLen <- 3, MaxMoves
        <- 1, last <- sgLast, timer <- sgTimer, moves <- sgMoves, strayed <-
        sgStrayed
FP == INSTANCE FirstPrompt WITH
        NumChats <- 2, MaxOther <- 1, MaxReloads <- 1, MaxMoves <- 1, MaxErrors
        <- 1, page <- fpPage, server <- fpServer, cache <- fpCache, posts <-
        fpPosts, counts <- fpCounts, odd <- fpOdd
SX == INSTANCE Sandboxes WITH
        NumSandboxes <- 3, Setups <- {1, 2}, Creators <- {1, 2}, Removers <-
        {1, 2}, Senders <- {1}, MaxFaults <- 1, late <- sxLate

\* A part that is not explored is in one of its initial states; the one explored begins at
\* m1, since m1 and m2 are alike.
Init ==
    /\ part \in Parts
    /\ CV!Init
    /\ MP!Init
    /\ EL!Init
    /\ SB!Init
    /\ TO!Init
    /\ PA!DiagramInit
    /\ PA!Init
    /\ AK!Init
    /\ CL!Init
    /\ CO!Init
    /\ AT!Init
    /\ AT!ImagesInit
    /\ AT!DrawingInit
    /\ SG!Init
    /\ FP!Init
    /\ SX!Init
    /\ part # "diagram" => content = 0
    /\ part # "review" => rvChanges = <<[type |-> "insert", value |-> <<"x">>]>>
    /\ chat = m1 /\ chatId = m1
    /\ part # "sketch" => pen = 1
    /\ part # "tools" => cli = [t \in {1, 2, 3} |-> "new"]

Next ==
    \/ /\ part = "streams" /\ CV!Next
       /\ UNCHANGED <<part, paging, log, drawing, tools, diagram, review,
                    asking, list, box, files, images, sketch, words, first,
                    sandboxes>>
    \/ /\ part = "paging" /\ MP!Next
       /\ UNCHANGED <<part, streams, log, drawing, tools, diagram, review,
                    asking, list, box, files, images, sketch, words, first,
                    sandboxes>>
    \/ /\ part = "log" /\ EL!Next
       /\ UNCHANGED <<part, streams, paging, drawing, tools, diagram, review,
                    asking, list, box, files, images, sketch, words, first,
                    sandboxes>>
    \/ /\ part = "drawing" /\ SB!Next
       /\ UNCHANGED <<part, streams, paging, log, tools, diagram, review,
                    asking, list, box, files, images, sketch, words, first,
                    sandboxes>>
    \/ /\ part = "tools" /\ TO!Next
       /\ UNCHANGED <<part, streams, paging, log, drawing, diagram, review,
                    asking, list, box, files, images, sketch, words, first,
                    sandboxes>>
    \/ /\ part = "diagram" /\ PA!DiagramNext
       /\ UNCHANGED <<part, streams, paging, log, drawing, tools, review,
                    asking, list, box, files, images, sketch, words, first,
                    sandboxes>>
    \/ /\ part = "review" /\ PA!Next
       /\ UNCHANGED <<part, streams, paging, log, drawing, tools, diagram,
                    asking, list, box, files, images, sketch, words, first,
                    sandboxes>>
    \/ /\ part = "asking" /\ AK!Next
       /\ UNCHANGED <<part, streams, paging, log, drawing, tools, diagram,
                    review, list, box, files, images, sketch, words, first,
                    sandboxes>>
    \/ /\ part = "list" /\ CL!Next
       /\ UNCHANGED <<part, streams, paging, log, drawing, tools, diagram,
                    review, asking, box, files, images, sketch, words, first,
                    sandboxes>>
    \/ /\ part = "box" /\ CO!Next
       /\ UNCHANGED <<part, streams, paging, log, drawing, tools, diagram,
                    review, asking, list, files, images, sketch, words, first,
                    sandboxes>>
    \/ /\ part = "files" /\ AT!Next
       /\ UNCHANGED <<part, streams, paging, log, drawing, tools, diagram,
                    review, asking, list, box, images, sketch, words, first,
                    sandboxes>>
    \/ /\ part = "images" /\ AT!ImagesNext
       /\ UNCHANGED <<part, streams, paging, log, drawing, tools, diagram,
                    review, asking, list, box, files, sketch, words, first,
                    sandboxes>>
    \/ /\ part = "sketch" /\ AT!DrawingNext
       /\ UNCHANGED <<part, streams, paging, log, drawing, tools, diagram,
                    review, asking, list, box, files, images, words, first,
                    sandboxes>>
    \/ /\ part = "words" /\ SG!Next
       /\ UNCHANGED <<part, streams, paging, log, drawing, tools, diagram,
                    review, asking, list, box, files, images, sketch, first,
                    sandboxes>>
    \/ /\ part = "first" /\ FP!Next
       /\ UNCHANGED <<part, streams, paging, log, drawing, tools, diagram,
                    review, asking, list, box, files, images, sketch, words,
                    sandboxes>>
    \/ /\ part = "sandboxes" /\ SX!Next
       /\ UNCHANGED <<part, streams, paging, log, drawing, tools, diagram,
                    review, asking, list, box, files, images, sketch, words,
                    first>>

Spec == Init /\ [][Next]_<<part, streams, paging, log, drawing, tools, diagram, review,
                                asking, list, box,
                                files, images, sketch,
                                words, first, sandboxes>>

-----------------------------------------------------------------------------

\* The streams of the page: streamStore.ts, useStreamReconnect.ts and the other
\* hooks keep streams, index, message cache and page in step; and the pages of
\* messages in that cache (useMessageCache.ts, Chat.tsx) agree with the server.
StreamsAgree ==
    /\ part = "streams" =>
        /\ CV!TypeOK
        \* streamStore.ts: the index of streams, the streams and what the
        \* sidebar shows of them agree, however streams overlap.
        /\ CV!StoreAgrees
        \* A chat is read by one event source at a time, except after the
        \* closures of useStreamReconnect and sendMessage crossed.
        /\ CV!OneSource
        \* What the cache holds of a message is what its open source has
        \* delivered, through navigation, replays, stops and errors.
        /\ CV!ListFollowsSource
        \* The page says `streaming' only while a source of its chat is open.
        /\ CV!StreamingHasSource
    /\ part = "paging" =>
        /\ MP!TypeOK
        \* useMessageCache.ts, useChatQueries.ts: the messages held stand in
        \* their order and once, unless one was added before the last page was
        \* there.
        /\ MP!MessagesInOrder
        \* When nothing is under way the pages held are a beginning of what the
        \* server has, and all of it when no page is left.
        /\ MP!PagesAreServers
        \* What a restore deleted goes from the page, unless its reading was
        \* cancelled.
        /\ MP!DeletedIsNotHeld
        \* The answer under way is held with all that was heard of it, unless
        \* an earlier fetch is stored over it.
        /\ MP!AnswerIsHeld
        \* Chat.tsx: while the marker is in view, more is loaded or about to
        \* be.
        /\ MP!NeverStuck

\* A message: its events as they are made from the messages of the CLI
\* (processor.py, tool_handler.py), its log (appendEventToLog and parseEventLog
\* of utils/stream.ts, over the cache they share), the tree that
\* segmentBuilder.ts draws from it, in whatever order the events came, and in
\* it the diagrams (Mermaid.tsx) and the diffs with their comments
\* (DiffViewer.tsx).
MessageIsWhole ==
    /\ part = "log" =>
        /\ EL!TypeOK
        \* appendEventToLog: both copies of a message's log are the events
        \* delivered, as long as each append finds its content parsed.
        /\ EL!ExactWhenParsed
        \* The parse cache never runs further ahead of a content than by one
        \* event.
        /\ EL!OneEventAhead
        \* The logs shown and stored of a message hold all its events in their
        \* order, whatever was parsed, cached or switched meanwhile.
        /\ EL!NothingLost
    /\ part = "drawing" =>
        /\ SB!TypeOK
        \* segmentBuilder.ts: the index names, for exactly the root tools, the
        \* place of their segment, also after one was moved below another.
        /\ SB!IndexAgrees
        \* No tool is lost, whatever the order of the events.
        /\ SB!EveryToolIsPlaced
        \* A tool is drawn in one place only, also after it changed its parent.
        /\ SB!DrawnOnce
        \* The copy a parent shows of its child is the current one, at every
        \* depth.
        /\ SB!NestedIsCurrent
        \* Segments stand in the order in which their first events came.
        /\ SB!InOrder
    /\ part = "tools" =>
        /\ TO!TypeOK
        \* tool_handler.py: an event that ends a call says what the event that
        \* started it said, and calls it unknown only if this turn did not
        \* start it.
        /\ TO!EndNamesItsCall
        \* The calls drawn as running are those the registry holds, and none is
        \* started or ended twice.
        /\ TO!OpenIsActive
    /\ part = "diagram" =>
        /\ PA!DiagramTypeOK
        \* Mermaid.tsx: a diagram that is shown is of the whole text and in the
        \* theme of the page, in whatever order its renders end.
        /\ PA!DiagramIsCurrent
        \* While its button is disabled, a render is under way that will enable
        \* it.
        /\ PA!ButtonComesBack
    /\ part = "review" =>
        /\ PA!TypeOK
        \* DiffViewer.tsx: each line of both texts of a diff stands under its
        \* own number, however the texts are cut into blocks.
        /\ PA!HunkIsTheTexts
        \* The lines a review comment names are exactly those that were
        \* selected for it.
        /\ PA!CommentNamesItsLines
        \* A review comment begins at the plus of a row, unless an earlier drag
        \* from one ended outside of the diff.
        /\ PA!BeginsAtPlus

\* The message box with its files, drawings, pictures and suggestions
\* (useMessageActions.ts, useFileHandling.ts, DrawingModal.tsx,
\* AttachmentViewer.tsx, useSuggestionBase.ts) loses nothing the user wrote and
\* shows nothing that is gone.
BoxKeeps ==
    /\ part = "box" =>
        /\ CO!TypeOK
        \* A review comment stays in the list until a message has brought it to
        \* the server.
        /\ CO!ReviewsDelivered
        \* An attached file stays in the box until a message has brought it to
        \* the server.
        /\ CO!FilesDelivered
        \* The box is disabled only while a message is being sent or a stream
        \* is open.
        /\ CO!LoadingHasCause
    /\ part = "files" =>
        /\ AT!TypeOK
        \* useFileHandling.ts: every preview shown can be loaded, and no other
        \* object URL is kept.
        /\ AT!PreviewsAlive
        \* The image editor shows the file whose button was pressed.
        /\ AT!EditsWhatWasOpened
        \* Files that went with a message do not come back to the box.
        /\ AT!ClearedStaysGone
        \* useDragAndDrop.ts: the box looks ready for a drop exactly while
        \* files are over it.
        /\ AT!DragSettles
    /\ part = "sketch" =>
        /\ AT!DrawingTypeOK
        \* DrawingModal.tsx: what is saved is the image with just the lines
        \* that were drawn on it, unless its url changed below or a touch was
        \* cancelled.
        /\ AT!SavedIsDrawn
        \* A drawing that can be saved has an image below, also after a reset.
        /\ AT!NeverBare
    /\ part = "images" =>
        /\ AT!ImagesTypeOK
        \* AttachmentViewer.tsx: no image is left with the pulse of one that is
        \* loading.
        /\ AT!NoEndlessPulse
        \* Every image shown can be loaded, and the URLs of the others are
        \* revoked.
        /\ AT!NoUrlLost
    /\ part = "words" =>
        /\ SG!TypeOK
        \* useSuggestionBase.ts: the index that Enter takes is one of the
        \* suggestions shown.
        /\ SG!HighlightInRange
        \* Textarea.tsx: when no report is due, the suggestions know where the
        \* caret is.
        /\ SG!CaretIsKnown
        \* useMentionSuggestions.ts: choosing a mention replaces the word it
        \* was typed in, and nothing else.
        /\ SG!MentionReplacesAWord

\* Input.tsx, useMessageActions.ts: a text that was typed is taken out of the
\* box only by its user or by the answer to its own message.
DraftKept == [][CO!DraftLeaves]_box

\* The chats of the sidebar (useChatQueries.ts) are what was created, renamed,
\* pinned and deleted, a new one gets its first prompt (ChatPage.tsx,
\* useInitialPrompt.ts), and gets it once, each has its sandbox as long as it
\* is there (chat.py, sandbox.py), and the dialog of a permission
\* (ToolPermissionModal.tsx, usePermissionRequest.ts) answers the request it
\* shows.
ChatsAsAsked ==
    /\ part = "asking" =>
        /\ AK!TypeOK
        \* ToolPermissionModal.tsx: an instruction reaches the request it was
        \* typed for, unless another took its place while the input was open.
        /\ AK!InstructionIsForIt
        \* usePermissionRequest.ts: the request that the agent waits on is
        \* shown, unless the answer to an older one took it away.
        /\ AK!RequestIsShown
        \* Its buttons are disabled only while a response of this page is under
        \* way.
        /\ AK!ButtonsComeBack
        \* The page leaves the plan mode only once the server has taken the
        \* approval of a plan.
        /\ AK!PlanLeft
    /\ part = "list" =>
        /\ CL!TypeOK
        \* useChatQueries.ts: a chat stands in the pages of the sidebar once,
        \* through changes of the pages held.
        /\ CL!NoDuplicates
        \* What the list holds of a chat is what the server has, once its
        \* mutations have returned.
        /\ CL!HeldIsCurrent
        \* A chat whose deletion has returned does not come back.
        /\ CL!DeletedStaysGone
        \* Once all calls have returned, no chat is missing between two the
        \* list holds, after creations, renames and pins.
        /\ CL!NothingSkipped
    /\ part = "first" =>
        /\ FP!TypeOK
        \* LandingPage.tsx, ChatPage.tsx: the first prompt goes to the chat
        \* that was created for it, and only there.
        /\ FP!PromptInOwnChat
        \* It reaches its chat once, though its route is there again after a
        \* reload.
        /\ FP!PromptOnce
        \* A chat opened with its prompt sends it as soon as its messages are
        \* known.
        /\ FP!PromptIsSent
    /\ part = "sandboxes" =>
        /\ SX!TypeOK
        \* chat.py: a chat that is not deleted has its sandbox, whatever
        \* deletions overlap or fail.
        /\ SX!ChatHasSandbox
        \* No sandbox runs on without a chat, unless a failure left it behind.
        /\ SX!SandboxHasChat
        \* A deleted chat has no messages, but those of a prompt that was under
        \* way.
        /\ SX!DeletedIsEmpty
=============================================================================
