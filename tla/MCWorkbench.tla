---------------------------- MODULE MCWorkbench -----------------------------
(***************************************************************************)
(* The parts around the conversation for TLC: terminal, editor, file tree, *)
(* previews, IDE and environment variables of a chat's sandbox, the        *)
(* transport to the CLI and the checkpoints, the settings page with its    *)
(* lists and tasks, the user's row with its copy and limit, the session of *)
(* the browser and the forms that begin one.                               *)
(*                                                                         *)
(* They share no variable, so a run explores them side by side, one part   *)
(* in a behaviour.                                                         *)
(***************************************************************************)
EXTENDS PtyQueues, Session, Terminal

CONSTANTS
    Parts,  \* the parts a run explores
    m1, m2, f1, f2, NoFile  \* model values

VARIABLES part,
          edDisk, cached, stale, edFetch, selected, mounted, edView, edSaves,
          edForeign, edErrors, views, own, edCrossed, outrun,
          listing, expanded, matches, lists, ftToggles, searches,
          file, showPreview, isFullscreen, slides, loads, pdf, urls, changes,
          ppListening, ppData, reading, ppView, sandboxId, selectedPortId,
          isLoading, loaded, qrCode, isLoadingQr, drawings, ppOvertaken, ever,
          always, moves, ppOpened, presses, ppErrors,
          theme, idSettings, ideSandboxId, instance, ideIsLoading,
          isDownloading, prevTheme, hasLoaded, frame, puts, downloads, synced,
          ideMoves, idToggles, begun,
          bashrc, seData, seFetch, seRows, seTodo, seStep, removing, edits,
          seSaves, seErrors, wanted, seAsked, seCrossed,
          stServer, stQuery, loading, stLocal, requests, stDialog, pending,
          stForeign, stCounts, touched, missed, stOdd,
          rsRow, files, rsQuery, rsLocal, rsDialog, ops, rsCounts, rsOdd,
          rsUnheard,
          offset, tkTasks, list, tkFetch, tkDialog, form, tkCalls, toggling,
          deleting, tkCounts, tkAsked, tkOpened, tkUnheard, crowded,
          requires, password, verified, resetLink, page, values, afErrors,
          mutation, status, withToken, attempted, afCalls, afCounts, visit,
          done, lost,
          blanks, sent, cli, trQueue, ready, stdin, exitError, monitor,
          closing, reader, trBuffer, started, trGot, clipped, dropped,
          order, home, ckDisk, ckRows, named, ckSession, ckStep, ckTodo,
          restore, works, restores, ckFaults, ckLeft, mixed, backdated, torn,
          usRow, lock, copy, write, read, send, day, sentOn, usFaults,
          usOvertaken, usFailed, crowd

terminal == <<box, tab, listening, wire, server, tally, unkilled>>
keys == <<way, n, queue, buffer, at, open, got>>
tabs == <<terminals, activeTerminalId>>
editor == <<edDisk, cached, stale, edFetch, selected, mounted, edView, edSaves,
            edForeign, edErrors, views, own, edCrossed, outrun>>
fileTree == <<listing, expanded, matches, lists, ftToggles, searches>>
previews == <<file, showPreview, isFullscreen, slides, loads, pdf, urls,
              changes>>
ports == <<ppListening, ppData, reading, ppView, sandboxId, selectedPortId,
           isLoading, loaded, qrCode, isLoadingQr, drawings, ppOvertaken, ever,
           always, moves, ppOpened, presses, ppErrors>>
ide == <<theme, idSettings, ideSandboxId, instance, ideIsLoading,
         isDownloading, prevTheme, hasLoaded, frame, puts, downloads, synced,
         ideMoves, idToggles, begun>>
secrets == <<bashrc, seData, seFetch, seRows, seTodo, seStep, removing, edits,
             seSaves, seErrors, wanted, seAsked, seCrossed>>
settings == <<stServer, stQuery, loading, stLocal, requests, stDialog, pending,
              stForeign, stCounts, touched, missed, stOdd>>
resources == <<rsRow, files, rsQuery, rsLocal, rsDialog, ops, rsCounts, rsOdd,
               rsUnheard>>
tasks == <<offset, tkTasks, list, tkFetch, tkDialog, form, tkCalls, toggling,
           deleting, tkCounts, tkAsked, tkOpened, tkUnheard, crowded>>
session == <<flag, token, owner, expired, ended, route, data, failed, calls,
             refreshing, mutations, reload, counts, crossed, abandoned, left>>
forms == <<requires, password, verified, resetLink, page, values, afErrors,
           mutation, status, withToken, attempted, afCalls, afCounts, visit,
           done, lost>>
transport == <<blanks, sent, cli, trQueue, ready, stdin, exitError, monitor,
               closing, reader, trBuffer, started, trGot, clipped, dropped>>
checkpoints == <<order, home, ckDisk, ckRows, named, ckSession, ckStep, ckTodo,
                 restore, works, restores, ckFaults, ckLeft, mixed, backdated,
                 torn>>
userService == <<usRow, lock, copy, write, read, send, day, sentOn, usFaults,
                 usOvertaken, usFailed, crowd>>

\* Two folders, one in the other, and a file in each and outside both.
Disk ==
    {[kind |-> "file", path |-> <<"a">>], [kind |-> "directory", path |-> <<"s">>],
     [kind |-> "file", path |-> <<"s", "a">>],
     [kind |-> "directory", path |-> <<"s", "t">>],
     [kind |-> "file", path |-> <<"s", "t", "a">>]}

\* Two messages of which one has a blank, or one with two.
CliOutputs == {<<0, 1>>, <<2>>}

ED == INSTANCE Editor WITH
        Files <- {f1, f2}, MaxText <- 1, MaxSaves <- 1, MaxForeign <- 1,
        MaxErrors <- 1, MaxViews <- 1, Disk <- Disk, MaxLists <- 2, MaxToggles
        <- 2, MaxSearches <- 1, disk <- edDisk, fetch <- edFetch, view <-
        edView, saves <- edSaves, foreign <- edForeign, errors <- edErrors,
        crossed <- edCrossed, toggles <- ftToggles
PV == INSTANCE Previews WITH
        Slides <- {"a.pptx", "b.pptx"}, Pdfs <- {"a.pdf", "b.pdf"}, Others <-
        {"a.py"}, MaxContent <- 2, MaxChanges <- 5
PP == INSTANCE PortPreview WITH
        Sandboxes <- {m1, m2}, NoSandbox <- Nobody, Ports <- {1, 2}, MaxMoves
        <- 2, MaxOpened <- 1, MaxPresses <- 1, MaxErrors <- 1, MaxViews <- 3,
        MaxToggles <- 2, MaxDownloads <- 1, listening <- ppListening, data <-
        ppData, view <- ppView, overtaken <- ppOvertaken, opened <- ppOpened,
        errors <- ppErrors, settings <- idSettings, toggles <- idToggles
SE == INSTANCE Secrets WITH
        Keys <- {1, 2}, Values <- {1, 2}, MaxEdits <- 3, MaxSaves <- 1,
        MaxErrors <- 1, data <- seData, fetch <- seFetch, rows <- seRows, todo
        <- seTodo, step <- seStep, saves <- seSaves, errors <- seErrors, asked
        <- seAsked, crossed <- seCrossed
ST == INSTANCE Settings WITH
        Keys <- {1, 2}, Texts <- {1}, MaxRequests <- 2, MaxOpen <- 2, MaxErrors
        <- 1, MaxForeign <- 1, server <- stServer, query <- stQuery, local <-
        stLocal, dialog <- stDialog, foreign <- stForeign, counts <- stCounts,
        odd <- stOdd
RS == INSTANCE Resources WITH
        Names <- {1, 2}, MaxItems <- 2, MaxOps <- 3, MaxVisits <- 1, MaxOpen <-
        2, MaxErrors <- 1, row <- rsRow, query <- rsQuery, local <- rsLocal,
        dialog <- rsDialog, counts <- rsCounts, odd <- rsOdd, unheard <-
        rsUnheard
TK == INSTANCE Tasks WITH
        PickedHours <- {12}, PickedDays <- {6}, Offsets <- {0, 22}, MaxTasks <-
        2, Limit <- 1, MaxTouches <- 2, MaxRequests <- 2, MaxErrors <- 1,
        MaxClock <- 1, tasks <- tkTasks, fetch <- tkFetch, dialog <- tkDialog,
        calls <- tkCalls, counts <- tkCounts, asked <- tkAsked, opened <-
        tkOpened, unheard <- tkUnheard
AF == INSTANCE AuthForms WITH
        Texts <- {0, 1, 2, 3}, MaxTypes <- 3, MaxSubmits <- 2, MaxErrors <- 1,
        MaxVisits <- 2, errors <- afErrors, calls <- afCalls, counts <-
        afCounts
TR == INSTANCE Transport WITH
        Outputs <- CliOutputs, Cap <- 2, MaxBuffer <- 4, Closers <- {1, 2},
        MaxChunk <- 4, queue <- trQueue, buffer <- trBuffer, got <- trGot
CK == INSTANCE Checkpoints WITH
        NumMessages <- 2, Keep <- 1, Files <- {f1, f2}, MaxWorks <- 2,
        MaxRestores <- 1, MaxFaults <- 1, disk <- ckDisk, rows <- ckRows,
        session <- ckSession, step <- ckStep, todo <- ckTodo, faults <-
        ckFaults, left <- ckLeft
US == INSTANCE UserService WITH
        Writers <- {1, 2}, Readers <- {1}, Senders <- {1, 2}, Limit <- 1,
        NoWriter <- 0, NoCopy <- Nobody, MaxFaults <- 1, row <- usRow, faults
        <- usFaults, overtaken <- usOvertaken, failed <- usFailed

\* A part that is not explored is in one of its initial states; the one explored begins at
\* m1, since m1 and m2 are alike, and with a clock away from UTC.
InitAll ==
    /\ part \in Parts
    /\ TerminalInit
    /\ Init
    /\ TabsInit
    /\ ED!Init
    /\ ED!TreeInit
    /\ PV!Init
    /\ PP!Init
    /\ PP!IDEInit
    /\ SE!Init
    /\ ST!Init
    /\ RS!Init
    /\ TK!Init
    /\ SessionInit
    /\ AF!Init
    /\ TR!Init
    /\ CK!Init
    /\ US!Init
    /\ part # "keys" => way = "input"
    /\ sandboxId = m1 /\ ideSandboxId = m1 /\ offset = 22
    /\ part # "ports" => ppListening[m1] = {}
    /\ part # "ide" => idSettings = [b \in {m1, m2} |-> "dark"]
    /\ part # "secrets" => bashrc = <<>>
    /\ part # "forms" => requires /\ password = 0
    /\ part # "cli" => blanks = <<2>>
    /\ part # "checkpoints" => order[1] = 1

NextAll ==
    \/ /\ part = "terminal" /\ TerminalNext
       /\ UNCHANGED <<part, keys, tabs, editor, fileTree, previews, ports, ide,
                    secrets, settings, resources, tasks, session, forms,
                    transport, checkpoints, userService>>
    \/ /\ part = "keys" /\ Next
       /\ UNCHANGED <<part, terminal, tabs, editor, fileTree, previews, ports,
                    ide, secrets, settings, resources, tasks, session, forms,
                    transport, checkpoints, userService>>
    \/ /\ part = "tabs" /\ TabsNext
       /\ UNCHANGED <<part, terminal, keys, editor, fileTree, previews, ports,
                    ide, secrets, settings, resources, tasks, session, forms,
                    transport, checkpoints, userService>>
    \/ /\ part = "editor" /\ ED!Next
       /\ UNCHANGED <<part, terminal, keys, tabs, fileTree, previews, ports,
                    ide, secrets, settings, resources, tasks, session, forms,
                    transport, checkpoints, userService>>
    \/ /\ part = "tree" /\ ED!TreeNext
       /\ UNCHANGED <<part, terminal, keys, tabs, editor, previews, ports, ide,
                    secrets, settings, resources, tasks, session, forms,
                    transport, checkpoints, userService>>
    \/ /\ part = "previews" /\ PV!Next
       /\ UNCHANGED <<part, terminal, keys, tabs, editor, fileTree, ports, ide,
                    secrets, settings, resources, tasks, session, forms,
                    transport, checkpoints, userService>>
    \/ /\ part = "ports" /\ PP!Next
       /\ UNCHANGED <<part, terminal, keys, tabs, editor, fileTree, previews,
                    ide, secrets, settings, resources, tasks, session, forms,
                    transport, checkpoints, userService>>
    \/ /\ part = "ide" /\ PP!IDENext
       /\ UNCHANGED <<part, terminal, keys, tabs, editor, fileTree, previews,
                    ports, secrets, settings, resources, tasks, session, forms,
                    transport, checkpoints, userService>>
    \/ /\ part = "secrets" /\ SE!Next
       /\ UNCHANGED <<part, terminal, keys, tabs, editor, fileTree, previews,
                    ports, ide, settings, resources, tasks, session, forms,
                    transport, checkpoints, userService>>
    \/ /\ part = "settings" /\ ST!Next
       /\ UNCHANGED <<part, terminal, keys, tabs, editor, fileTree, previews,
                    ports, ide, secrets, resources, tasks, session, forms,
                    transport, checkpoints, userService>>
    \/ /\ part = "resources" /\ RS!Next
       /\ UNCHANGED <<part, terminal, keys, tabs, editor, fileTree, previews,
                    ports, ide, secrets, settings, tasks, session, forms,
                    transport, checkpoints, userService>>
    \/ /\ part = "tasks" /\ TK!Next
       /\ UNCHANGED <<part, terminal, keys, tabs, editor, fileTree, previews,
                    ports, ide, secrets, settings, resources, session, forms,
                    transport, checkpoints, userService>>
    \/ /\ part = "session" /\ SessionNext
       /\ UNCHANGED <<part, terminal, keys, tabs, editor, fileTree, previews,
                    ports, ide, secrets, settings, resources, tasks, forms,
                    transport, checkpoints, userService>>
    \/ /\ part = "forms" /\ AF!Next
       /\ UNCHANGED <<part, terminal, keys, tabs, editor, fileTree, previews,
                    ports, ide, secrets, settings, resources, tasks, session,
                    transport, checkpoints, userService>>
    \/ /\ part = "cli" /\ TR!Next
       /\ UNCHANGED <<part, terminal, keys, tabs, editor, fileTree, previews,
                    ports, ide, secrets, settings, resources, tasks, session,
                    forms, checkpoints, userService>>
    \/ /\ part = "checkpoints" /\ CK!Next
       /\ UNCHANGED <<part, terminal, keys, tabs, editor, fileTree, previews,
                    ports, ide, secrets, settings, resources, tasks, session,
                    forms, transport, userService>>
    \/ /\ part = "user" /\ US!Next
       /\ UNCHANGED <<part, terminal, keys, tabs, editor, fileTree, previews,
                    ports, ide, secrets, settings, resources, tasks, session,
                    forms, transport, checkpoints>>

SpecAll == InitAll /\ [][NextAll]_<<part, terminal, keys, tabs, editor, fileTree, previews,
                                ports, ide, secrets,
                                settings, resources,
                                tasks, session, forms,
                                transport, checkpoints,
                                userService>>

-----------------------------------------------------------------------------

\* The editor, the tree, the previews (FilePreview.tsx, Panel.tsx,
\* MobilePreview.tsx), the IDE (IDEView.tsx) and the environment variables of a
\* sandbox (View.tsx, useFileTreeSearch.ts, SecretsView.tsx) show and write
\* what is meant for it; what its CLI writes arrives (e2b_transport.py); its
\* checkpoints are what a message left (sandbox.py).
SandboxTrue ==
    /\ part = "editor" =>
        /\ ED!TypeOK
        \* View.tsx: a file is only given a text of its own, though another one
        \* may be shown while its own is loading.
        /\ ED!OwnText
        \* An editor without unsaved changes shows the stored text, once
        \* everything is answered.
        /\ ED!CleanShowsStored
        \* The mark of unsaved changes is shown just when the text differs from
        \* the loaded one.
        /\ ED!MarkIsTrue
    /\ part = "tree" =>
        /\ ED!TreeTypeOK
        \* file.ts: every file listed has a place in the tree, whether or not
        \* its folders are listed.
        /\ ED!FilesPlaced
        \* useFileTreeSearch.ts: every match of a search is drawn, however
        \* deep, and nothing else.
        /\ ED!MatchesShown
    /\ part = "previews" =>
        /\ PV!TypeOK
        \* PowerPointPreview.tsx: slides that are shown are those of the file
        \* that is open, though reading another one's may end later, and
        \* loading ends.
        /\ PV!SlidesAreOfFile
        \* PDFPreview.tsx: a document is shown through a URL that can be
        \* loaded, and no other is kept.
        /\ PV!DocumentIsAlive
    /\ part = "ports" =>
        /\ PP!TypeOK
        \* Panel.tsx: a spinner over the web preview ends: its frame is still
        \* to load.
        /\ PP!SpinnerEnds
        \* MobilePreview.tsx: the code to scan leads to the port that is shown,
        \* unless two drawings of it ended in the other order.
        /\ PP!CodeIsOfPort
        \* usePreviewLinksQuery: a refresh that was answered shows what listens
        \* since it was pressed.
        /\ PP!RefreshIsFresh
    /\ part = "ide" =>
        /\ PP!IDETypeOK
        \* IDEView.tsx: a spinner over the IDE ends: its frame is still to
        \* load.
        /\ PP!IDESpinnerEnds
        \* Once the calls have returned, the IDE is in the theme of the page,
        \* if it was told of it.
        /\ PP!IDEIsInTheme
        \* The button of the download is disabled only while one is under way.
        /\ PP!DownloadEnds
    /\ part = "secrets" =>
        /\ SE!TypeOK
        \* SecretsView.tsx: once all is answered the sandbox has just the
        \* variables that were meant, renamed ones included.
        /\ SE!KeysAsWanted
        \* Every row of a save reaches the sandbox, though the first answer
        \* makes the form show the stored rows again.
        /\ SE!SavedAll
        \* With everything answered, a form without changes shows what is
        \* stored.
        /\ SE!ShownIsStored
    /\ part = "cli" =>
        /\ TR!TypeOK
        \* e2b_transport.py: the messages of the CLI come in their order and
        \* once, wherever its output was cut.
        /\ TR!MessagesAsWritten
        \* A CLI that failed or was lost is never taken for one that finished.
        /\ TR!EndIsTrue
        \* A reader that waits for output is woken, unless close found the
        \* queue full.
        /\ TR!WaitHasEnd
    /\ part = "checkpoints" =>
        /\ CK!TypeOK
        \* sandbox.py: a checkpoint that a message names holds the files as its
        \* turn left them.
        /\ CK!CheckpointIsWhole
        \* Pruning takes the oldest checkpoints, unless their dates were equal
        \* or set back.
        /\ CK!OldestGoFirst
        \* chat.py: after a restore the chat goes on in the session of its last
        \* turn.
        /\ CK!SessionIsShown

\* The settings page (SettingsPage.tsx, useCrudForm.ts,
\* useFileResourceManagement.ts, TaskDialog.tsx) agrees with the rows and the
\* files that it shows and changes; the row of a user (user.py) keeps every
\* change, and its limit holds; the account forms (SignupPage.tsx,
\* ResetPasswordPage.tsx, EmailVerificationPage.tsx) say what is so.
SettingsAgree ==
    /\ part = "settings" =>
        /\ ST!TypeOK
        \* useCrudForm.ts: no two items of a stored list have one name.
        /\ ST!KeysUnique
        \* When nothing is under way the settings page shows what is stored.
        /\ ST!SettlesToServer
        \* buildChangedPayload: saving one setting leaves the others as they
        \* are stored.
        /\ ST!OnlyTouched
        \* An edit and a delete hit the item they were asked for, though they
        \* know it by its index.
        /\ ST!EditsWhatWasMeant
    /\ part = "resources" =>
        /\ RS!TypeOK
        \* useFileResourceManagement.ts, base_resource.py: no two agents,
        \* skills or commands of a user have one name.
        /\ RS!NameOnce
        \* An entry of the settings has its file, with its content.
        /\ RS!EveryEntryHasItsFile
        \* A file that is stored is in the settings.
        /\ RS!EveryFileHasAnEntry
        \* With nothing under way the page shows what is stored.
        /\ RS!Settles
    /\ part = "tasks" =>
        /\ TK!TypeOK
        \* timezone.ts, TimePicker.tsx: a task runs at the hour the form showed
        \* when it was saved.
        /\ TK!HourAsShown
        \* A task that is opened and saved untouched stays as it is.
        /\ TK!UntouchedIsKept
        \* The picker shows what was picked in it, and the half of the day
        \* stays.
        /\ TK!PickedIsShown
        \* useScheduling.ts: when nothing is under way the list is what is
        \* stored.
        /\ TK!ListSettles
        \* scheduler.py: no more tasks are on than allowed, unless two requests
        \* looked at the limit at a time.
        /\ TK!LimitHolds
    /\ part = "user" =>
        /\ US!TypeOK
        \* user.py: the row has every change that was committed, however many
        \* requests change it at a time.
        /\ US!NoChangeLost
        \* The copy of the settings in Redis is the row, unless a reader stored
        \* what was changed while it read.
        /\ US!CopyIsRow
        \* A day has no more messages than allowed, but for sends that were
        \* under way at a time.
        /\ US!LimitKept
    /\ part = "forms" =>
        /\ AF!TypeOK
        \* SignupPage.tsx, ResetPasswordPage.tsx: an error under the password
        \* is of what the field holds.
        /\ AF!ErrorsAreCurrent
        \* EmailVerificationPage.tsx: the token of a link is sent once in a
        \* visit.
        /\ AF!VerifiesOnce
        \* ResetPasswordPage.tsx: the page says it succeeded exactly if one of
        \* its submissions changed the password.
        /\ AF!ResetIsTold
=============================================================================
