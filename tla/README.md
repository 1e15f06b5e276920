# Claudex: TLA+ models and proofs

Claudex is a chat front end to the Claude CLI. A FastAPI backend keeps chats in
Postgres and hands every prompt to a Celery worker; the worker runs the CLI in
an E2B sandbox and publishes its events to a Redis stream; the browser follows
that stream over SSE. This directory models the parts of the system whose
correctness depends on the order in which these processes act, or in which
callbacks come back to the browser; it checks the models with TLC and proves
some of their properties with TLAPS.

## 1. The system

| component | state it keeps | operations | what makes it hard |
|---|---|---|---|
| Chat turn: send, stop and status endpoints, Celery task (`tasks/chat_processor.py`, `endpoints/chat.py`, `services/chat.py`) | message rows, three Redis keys per chat, the Celery result, the task's context | send, cancel, status, run, finalize, clean up | two asyncio tasks in one worker, several turns over the same keys, failing writes, redelivery after a crash |
| SSE endpoint (`endpoints/chat.py` 69-224) | the reader's last id | replay, live read, cancellation watch | reconnects, a stream that is deleted and refilled |
| Permission requests (`permission_manager.py`, `endpoints/permissions.py`, `e2b/permission_server.py`, `usePermissionRequest.ts`) | one Redis key per request, a pub/sub channel, one request per chat in the page | create, wait, respond, time out | pub/sub does not keep messages; four processes |
| Refresh tokens (`refresh_token.py`, `lib/api.ts`) | token rows, the token in each tab | create, rotate, revoke, sweep | lost answers, two tabs, reuse detection |
| Scheduled tasks (`services/scheduler.py`, `tasks/scheduler.py`) | tasks, executions, the queue | create, toggle, check, execute | crash between commit and enqueue, redelivery, calendar arithmetic |
| Claude CLI transport (`e2b_transport.py`, `claude_agent.py`) | a process, a bounded queue, a parser's buffer | connect, write, read, monitor, close | output cut anywhere, overlapping calls of `close()`, a full queue |
| Stream processor and tool registry (`streaming/processor.py`, `tool_handler.py`) | the calls under way | start, finish | nested calls, results that name only an id |
| Chat lifecycle and limits (`services/chat.py`, `message.py`, `user.py`) | chats, messages, the user's row and its copy in Redis | create, delete, restore, read, update | check-then-act, stale cache fill, row locks |
| Sandboxes and checkpoints (`services/sandbox.py`) | sandboxes, deferred deletions, checkpoints on disk | create, delete, copy, prune, restore | statements of several requests, failing commands |
| Terminal (`endpoints/websocket.py`, `useXterm.ts`, `TerminalTab.tsx`) | two bounded queues, a PTY, a socket, tabs | type, resize, show, leave | queues at their limit, teardown of what is still starting |
| Stream store, message pages and event log (`streamStore.ts`, `useChatStreaming.ts` and the hooks around it, `utils/stream.ts`) | open event sources and their index, the cached pages of messages, a cache of parsed logs | send, reconnect, replay, stop, load more, restore | callbacks of components that were unmounted, shared arrays, pages by offset |
| Segment builder, diffs and diagrams of a message (`segmentBuilder.ts`, `DiffViewer.tsx`, `Mermaid.tsx`) | a tree of tools held by value, rows and selected lines, renders under way | start, update, finish; select, comment; render | children before parents, numbering, renders that overtake each other |
| Message box (`Input.tsx`, `useMessageActions.ts`, `useFileHandling.ts`, `DrawingModal.tsx`, `AttachmentViewer.tsx`, `useSuggestionBase.ts`) | text, files and their object URLs, a canvas, suggestions | type, send, attach, draw, mention | answers that come when another chat is shown, indices into lists that changed |
| Chat list and first prompt (`useChatQueries.ts`, `ChatPage.tsx`, `LandingPage.tsx`) | cached pages of chats, the prompt handed on by the router | create, rename, pin, delete, open | writes into pages while fetches are under way, effects run on every render |
| Editor, tree, previews, IDE, environment variables (`editor-view/View.tsx`, `file-tree`, `file-preview`, `web-preview`, `mobile-preview`, `IDEView.tsx`, `SecretsView.tsx`) | the text typed, the query caches, frames | open, type, save, search, preview, reload | a save's callbacks when another file is shown, chains of requests |
| Settings, agents, skills, commands, task dialog (`SettingsPage.tsx`, `useCrudForm.ts`, `useFileResourceManagement.ts`, `TaskDialog.tsx`, `user.py`, `base_resource.py`) | a copy of the row, lists edited by index, files | edit, save, upload, switch, delete | edits ahead of the server, a file and a row written one after the other |
| Browser session and account forms (`App.tsx`, `authStore.ts`, `useAuthQueries.ts`, account pages) | tokens, a flag, cached queries, forms | log in, log out, refresh, sign up, verify, reset | queries of one user that return in the session of the next |
| Persistence, admin panel, e-mail, uploads, voice, views that only draw | - | - | not modelled, see section 7 |

How they interact: the send endpoint writes a message and enqueues a task; the
task uses the transport through the stream processor and publishes to the
chat's stream, which the SSE endpoint relays to the stream store, whose event
log the segment builder turns into a tree. A tool call of the CLI goes through
the permission round trip, which publishes to the same stream. The scheduler
creates a chat and a message and calls the same task code. Everything the
browser sends carries an access token that the refresh tokens renew.
Checkpoints are taken by the task when it completes. The views beside the chat
talk to the sandbox through endpoints of their own, and all of them keep copies
of server state in one query cache.

## 2. Plan

Done, in this order: the core (`ChatTask` with `MessageLifecycle`,
`StreamReader`, `Permission`, `RefreshToken`, `Recurrence`, `Scheduler`), the
browser's side of a chat (composed in `MCChatPage`), the views around it and
the services behind them (composed in `MCWorkbench`), and the proofs of section 5.

Left: the archives that skills are unpacked from and that a sandbox is
downloaded as, the context usage of a chat, and the duplicate window of the
scheduler with overlapping checks. What has no theorem is listed in section 6.

## 3. The server's modules and their runs

### ChatTask, MessageLifecycle

`ChatTask` is one chat with `NumMessages` turns. A message and its Celery task
share a number. The variables are the rows (`status`, `content`, `deleted`,
`checkpoint`), the keys `chat:{id}:task`, `chat:{id}:revoked` and
`chat:{id}:stream` (`taskKey`, `revoked`, `stream`), the broker (`queue`,
`result`), the three kinds of request in progress (`send`, `cancel`, `probe`)
and per task the program point `pc`, the state of `_monitor_revocation`
(`monitor`) and the context (`events`, `wasCancelled`, `verdict`). An action is
what one coroutine does between two awaits; each write to Postgres or Redis is
an action of its own, because other processes act between them. An event's
payload is its position `n` in the run.

`MessageLifecycle` is what the chat page relies on: a message appears
in progress, is closed at most once for a reason, and has text only once closed.

| run | bounds | shows |
|---|---|---|
| `chat_task` | two turns, one event, no failing call | two turns with a cancel and a status request interleaved at every await: streams stay well formed (`TurnStream`), verdicts are sound and stored (`VerdictSound`, `ClosedWhenDone`), the only turn can be stopped (`SoloTurnReachable`), `LifecycleSpec` is implemented |
| `chat_task_faults` | one turn, two events, one fault, one crash | `TextKept`, `TextOnlyWhenClosed` and `TurnStream` when a call fails or the task is run twice; with fairness, a cancellation ends the turn without help from the AI stream (`RevocationStopsLoop`, `NoticedCancelEnds`) |
| `chat_task_graceful` | one turn | expected violation, see below |

Bounds: two turns are enough for every pairwise race on the chat's keys, one
event suffices to tell an empty turn from one with text, two to see an order;
each fault and crash budget is one, and a fault may strike any call.

Fairness (`LiveSpec`): weak fairness of the worker's own steps and of its
monitor, because an event loop runs every ready coroutine. The AI stream, the
users and the failing calls have none.

What is assumed: key TTLs (3600 s) outlast a run; the Celery result backend and
`task.update_state` do not fail; the broker delivers one copy of a task at a
time (redelivery only after a crash).

Finding: `GracefulCancellation`. A cancellation that lands while the task
awaits XADD is caught by nobody. `_publish_stream_entry` and `_drain_ai_stream`
catch `Exception`, which `CancelledError` is not, and the handler that the
comment at `chat_processor.py:340-341` promises only guards `__anext__`. The
message stays `IN_PROGRESS`.

In the model without a property, because nothing in the code promises
otherwise: the cleanup of one turn deletes the keys of the next, and a late
cancel request stops the next turn (`SoloTurnReachable` is stated for the first
turn only for that reason); the cost of a cancelled turn is stored as 0;
`complete` is published before the checkpoint is made.

### StreamReader

The stream of one chat, the endpoint `GET /stream` and one page. Entry ids are
consecutive numbers, because Redis takes them from its clock and they keep
growing when the worker deletes the stream: the stream is the interval
`first..last`, `turnOf` and `terminal` say what an id carries. `conn` is the
program point of `_create_event_stream` (`replay`, `backlog`, `check`, `poll`,
`read`, `batch`), `pos..upTo` the entries fetched and not yet yielded, `monitor`
the cancellation monitor. `message`, `received` and `storedId` are the page: the
message it shows, its event log and the `lastEventId` in local storage. The turns
of the chat follow one another, since the page does not send while its chat is
active; `ChatTask` has the overlapping ones.

| run | bounds | shows |
|---|---|---|
| `stream_reader` | two turns, four entries, batches of two, one fault | the event log has no duplicate, no disorder (`Ordered`) and no gap within its turn (`PrefixShown`); with fairness of the API process only, `TerminalEndsReader` and `StopEndsReader`: a stop the monitor was told of ends the reader unless the monitor fails before it has read the message, and one it has read ends it always |
| `stream_reader_replay` | one turn | expected violation |

Batches of two against four entries give full, partial and consecutive batches;
two turns give one deletion of the stream. The one failure may be the read of
the stream, the subscription of the monitor or its `get_message`: the `try` of
`_monitor_stream_cancellation` covers both (`MonitorFails`), and only a log line
tells of a stop that was published and not read (`chat.py:87`). Fairness is of the
reader and of the monitor's reading, never of its failing.

Finding. `ReplayFetchesMissed`: the lower bound of XRANGE is the string
`(id)`, which Redis rejects, so a request with a Last-Event-ID replays nothing,
against `chat.py:97`. The live reader then fetches the same entries (which is why
`PrefixShown` holds), unless the chat was cancelled meanwhile: then the client
gets `complete` without them. A replay that opens while its turn is still queued
reads the old stream and shows the previous turn's events as the new message
(`streamService.ts:280-282`); this is in the model without a property.

### Permission

One chat, its tool calls `Requests`, the pages `Devices` that show it. `verdict`
is what the approval tool in the sandbox returns to the CLI, `create` and `wait`
are the program points of the two API handlers it calls, `keys`, `events` and
`heard` the request keys, the request events on the chat's stream and the
message a subscription received. A page has one place per chat (`shown`) and one
respond call at a time (`reply`): refused (`ReplyRefused`), the page keeps the
request. Time is not modelled: a TTL, the server's 300 s and the client's 310 s
may end at any step in which they are running. The dialog itself, with the text
of an instruction, is the module `Asking` (section 4).

| run | bounds | shows |
|---|---|---|
| `permission` | two calls, one page, one fault, one reload | `OnlyApprovedRuns`: what needs permission runs only if the user approved this very call; `EndedRequestIsGone`: no way out of a wait leaves a key, not even one it wrote back after it expired |
| `permission_live` | one call, two pages | `EveryCallEnds`, with fairness of the API's handlers; the wait's timeout is one of their steps |

Two calls are enough to have an answer, a cleared request or an event of one
interfere with the other; one fault may strike any Redis or HTTP call.

In the model without a property: an answer published before the wait has
subscribed is lost and reported as a success (`PublishAnswer`). The page means to
dismiss a request that expired (`usePermissionRequest.ts:8-10`, `:43`) and the
service means to say so, but `handleServiceError` (`BaseService.ts:98-123`) drops
the status, so an expired dialog stays until the chat is left. In plan mode the
model follows the code, which asks for `EnterPlanMode` and `ExitPlanMode`, and not
the tool's description (`permission_server.py:27`), which says that it approves
everything.

### RefreshToken

One user. A token is the number of its row (`rows`, `revoked`, `issued`);
`session` is a history variable, the login a token descends from. `stored` is
the token in a browser's local storage, `cached` the copy that a tab took when it
loaded. `flight` holds the calls of `/jwt/refresh` and `/jwt/logout`: `step` goes
from `sent` through the three branches of `validate_and_rotate` to the answer,
and `tab` is the tab that still waits for it, or nobody. A `SELECT ... FOR UPDATE`
is a step that is enabled when no other call holds the row (`Locked`) and reads
the row as it is then; a call holds its row from there to its commit. The
UPDATE of `_revoke_all_tokens` is two steps, the statement's snapshot and the
write after the locks it waits for.

| run | bounds | shows |
|---|---|---|
| `refresh_token` | two browsers of one tab, two calls, three tokens, one lost call, one logout | `OneLivePerSession`: a login never has two live tokens; `SessionEndIsFinal`: without a live token it never gets one again; `NoFalseAlarm`: where nothing was lost and nobody logged out, the owner's own pages never set off the reuse detection |
| `refresh_token_reuse` | two tabs of one browser, no loss, no logout | expected violation |

Two calls give every race of two transactions for a row, because a page that loses a
call tries again while the first is still under way; three tokens are a login, a rotation and a second login or rotation.

Finding. `ReuseRevokesAll`: when the row of a live token is locked by a rotation,
the UPDATE of `_revoke_all_tokens` waits, finds that row revoked, and does not see
the row that the rotation inserted: that session goes on, against
`refresh_token.py:58`.

A lost answer, a second tab or a logout that overtakes a refresh does set off the
alarm or log the tab in again. Nothing in the repository promises otherwise, so
these are in the model without a property, and `NoFalseAlarm` excludes them.

### Recurrence, Scheduler

`Recurrence` is `calculate_next_datetime` over instants `[day, sec]` and any
calendar (`MonthStart`, `MonthOf`), with `IsFirstAfter`, which says what it should
return. `Scheduler` uses it for the tasks of one user: `row` are the rows of
`scheduled_tasks`, `edit` a request between its read and its commit, `check` the
periodic check between its read, its commit and the tasks it sends, `queued`
the deliveries that wait in the broker and `run` the ones a worker has taken up,
with the `TaskExecution` each has written (`exec`). `Flushed` is what the ORM
writes at a commit: the columns that differ from what its session read, over the
row as it is by then. `slot` and `alone` are history: the last occurrence that
was dispatched, and the tasks whose runs met neither another run nor a dispatch.

| run | bounds | shows |
|---|---|---|
| `scheduler` | one task, two days of two seconds, months of one and two days, one check at a time, two executions, one request that changes the task, one fault or crash | `NextIsFirst`; `CountsAgree`: the counters of a task agree with its executions; `OccurrenceOnce`: no occurrence is dispatched twice; with fairness of the checks, `DueIsDispatched` |

`MCScheduler` has a one-off task, a weekly one whose time of day has passed and a
monthly one for a day that the first two months do not have. Two days give it two
occurrences, two executions a race of two runs; the duplicate window is the
instant itself (`Window = 0`), since a day has two. Checks do not overlap here
(`NumChecks = 1`): beat sends one every five minutes and a check takes far less.
Where a backlog of checks is worked off by several threads, two of them may
dispatch one occurrence, and only the two minutes' window of
`check_duplicate_execution` is left.

In the model without a property, because nothing in the repository promises
otherwise: an occurrence is lost between the commit and `delay()` (`CheckFails`);
an execution stays `RUNNING`, and a one-off task `PENDING`, when the sandbox or
the chat cannot be set up (`SetUp`); a run that outlasts the next occurrence, or a
change of schedule, sets `next_execution` back to it.

## 4. The browser's modules, and what stands beside the chat

Each module below is a part of one of two composing modules. `MCChatPage` holds
the parts of a chat, `MCWorkbench` the others. The parts call each other with
values and share no variable, so a behaviour explores one part: `part` names it,
`Init` fixes the other parts, and every group of properties is a conjunction of
`part = "x" => ...` whose conjuncts are the module's type invariant and its
properties, each with its comment. `KeepsNewest` is an abstract specification
that `PtyQueues` implements (`Implements`).
Five modules hold smaller parts with an `...Init` and a `...Next` of their own
(the tabs in `Terminal`, the file tree in `Editor`, the IDE in `PortPreview`,
drawings and the images of a message in `Attachments`, diagrams in
`MessageParts`); the tables below give them a row. Within a `...Next`, the actions
that a page or dialog offers are grouped in an operator with the name of that React
component (`SignupPage`, `Sidebar`, `UploadModal`, `TaskDialog`), and under its
conditions for showing them.

What `Terminal` and `Session` promise is collected in these modules, as
`TerminalSound` and `SessionIsOneUsers`, because section 5 proves it there.

Every module has what the code has: the calls under way between being sent,
being done at the server and being answered, in any order, with answers that
fail: before the server has done its work, or after, when the page does not hear
of it (`CallFails` and the other actions with `Fails`); the callbacks that return into whatever the page shows by then; a page that
is left and visited again. Where the code does not handle a case, a history
variable says that it happened, and the property that excludes it names it; those
cases are listed in the last column. Nothing is sent twice by `serviceCall`
itself: it repeats only an answer of 429 or 5xx without a body, and `useMutation`
is not told to retry. A query's one retry (`queryClient.ts`) is part of its fetch.

Run `chat_page` (`MCChatPage`):

| module | code and state | properties | cases the code does not handle |
|---|---|---|---|
| `ChatView` | `streamStore.ts`, `streamService.ts` and the streaming hooks: the page (`page`), the store (`store`), the cache of messages (`cache`), a POST per chat (`posts`), status calls (`checks`, `validating`), turns at the server | `StoreAgrees`, `OneSource`, `ListFollowsSource`, `StreamingHasSource` | `crossed`: a call of one chat changes the page of another; `overtaken`: a reconnect whose page moved on opens a second source |
| `MessagePages` | `useMessageCache.ts`, `useInfiniteMessagesQuery`, `Chat.tsx`, `message.py`: `pages` in the cache, the fetch under way with the pages it began from, the timer that loads more, the turn and the restore | `MessagesInOrder`, `PagesAreServers`, `DeletedIsNotHeld`, `AnswerIsHeld`, `NeverStuck` | `odd`: a turn sent before the last page is loaded stands in the wrong place; a fetch begun earlier rolls an answer back; loading more cancels the reading after a restore; a failed POST leaves the user's row |
| `EventLog` | `utils/stream.ts`, `onChunk`: the two copies of a message's log, the page's and the cache's, over the shared cache of parsed contents | `ExactWhenParsed`, `OneEventAhead`, `NothingLost` | `missed`: a content that was not parsed |
| `ToolEvents` | `processor.py`, `tool_handler.py`: blocks of messages, the registry `active`, the events published | `EndNamesItsCall`, `OpenIsActive` | `ExitPlanMode` sets the mode after any event that names it, a failed one included (`claude_agent.py:207`) |
| `SegmentBuilder` | `segmentBuilder.ts`: the four structures of `context`, with tools held by value | `IndexAgrees`, `EveryToolIsPlaced`, `DrawnOnce`, `NestedIsCurrent`, `InOrder` | `moved`, `outdated`: a queued copy that fell behind or whose parent changed |
| `MessageParts` | `Mermaid.tsx`: renders under way with their text, theme and id | `DiagramIsCurrent`, `ButtonComesBack` | - |
| | `FileOperationTool.tsx`, `DiffViewer.tsx`, `ReviewInput.tsx`: rows of a hunk, selection, comments | `HunkIsTheTexts`, `CommentNamesItsLines`, `BeginsAtPlus` | `strayed`: a drag that ends outside of the diff. The numbers are those of the edited text, not of the file; a text being typed moves along with the selection |
| `ChatList` | `useChatQueries.ts`, `services/chat.py`: pages by offset, mutations and fetches under way | `NoDuplicates`, `HeldIsCurrent`, `DeletedStaysGone`, `NothingSkipped` | `lost`: a fetch that began earlier replaces what was written; `late`: answers about one chat in the other order; `shifted`: pages move between two fetches; `unheard`: a chat whose answer was lost stays as it was until the next fetch of all pages, and one that was deleted cannot be deleted again (404) |
| `FirstPrompt` | `LandingPage.tsx`, `ChatPage.tsx`, `useInitialPrompt.ts`: router state, refs, messages | `PromptInOwnChat`, `PromptOnce`, `PromptIsSent` | `odd` |
| `Composer` | `Input.tsx`, `useMessageActions.ts`: text, files, comments, posts | `DraftKept`, `ReviewsDelivered`, `FilesDelivered`, `LoadingHasCause` | `late`, `left`: an answer clears the box of another chat or a later text |
| `Attachments` | `useFileHandling.ts`, `useDragAndDrop.ts`, `FileUploadDialog.tsx`: files, object URLs, the index of the edited one | `PreviewsAlive`, `EditsWhatWasOpened`, `ClearedStaysGone`, `DragSettles` | `swept` |
|  | `AttachmentViewer.tsx`: loops that overlap, states and URLs of images | `NoEndlessPulse`, `NoUrlLost` | `stray` |
| | `DrawingModal.tsx`: the canvas as an image and lines, the pointer, the pen | `SavedIsDrawn`, `NeverBare` | `odd`: the url changes below the dialog, whose older picture can still be saved; a cancelled touch goes on drawing |
| `Suggestions` | `mentionParser.ts`, `useSuggestionBase.ts`, `Textarea.tsx`: text as symbols, the caret and its delayed report | `HighlightInRange`, `CaretIsKnown`, `MentionReplacesAWord` | `strayed` |
| `Asking` | `ToolPermissionModal.tsx`, `usePermissionRequest.ts`, `permissionStore.ts`: a request per chat, the dialog's text, responses under way | `InstructionIsForIt`, `RequestIsShown`, `ButtonsComeBack`, `PlanLeft` | `strayed`: a request takes another's place while its instruction is typed, and gets that text; `hidden`: an older answer takes a newer request away |
| `Sandboxes` | `services/chat.py`, `sandbox.py`: requests statement by statement, deferred deletions in memory | `ChatHasSandbox`, `SandboxHasChat`, `DeletedIsEmpty` | `leaked`: a failed set-up, a restart or a chat created beside `delete_all_chats` leaves a sandbox; `late`: a prompt under way writes into a deleted chat |

Run `workbench` (`MCWorkbench`):

| module | code and state | properties | cases the code does not handle |
|---|---|---|---|
| `Terminal` | `useXterm.ts`, `TerminalTab.tsx`, `websocket.py`: the tab, both directions of a socket (`wire`), handler, worker and PTY (`server`) | `InitFirst`, `SizeSettles`, `ReadyHasShell`, `NoShellLeft`, `LeftIsTold` | `unkilled`: killing failed or was cancelled, or the answer to the making of the shell was lost, which `_retry_operation` may follow with a second one |
|  | `Container.tsx`: the strip of tabs | `OneTabPerNumber`, `OneIsShown` | - |
| `PtyQueues`, `KeepsNewest` | `enqueue_input`, `input_worker`, `_enqueue_pty_output`, `forward_pty_output`: `queue`, what the worker took (`buffer`), what arrived (`got`) | `NewestKept`, `Implements` | - |
| `Editor` | `editor-view/View.tsx`, `useSandboxQueries.ts`: disk, query cache, fetch, the text typed, saves under way | `OwnText`, `CleanShowsStored`, `MarkIsTrue` | `crossed`: a save's end clears the mark of a later text; `outrun`: a text read before a write is taken for the new one |
| | `utils/file.ts`, `useFileTreeSearch.ts`: the tree, open folders, the search | `FilesPlaced`, `MatchesShown` | - |
| `Previews` | `FilePreview.tsx`, `PowerPointPreview.tsx`, `PDFPreview.tsx`: the file given, `loads` under way, object URLs | `SlidesAreOfFile`, `DocumentIsAlive` | full screen mounts the preview anew and goes back to the first slide |
| `PortPreview` | `web-preview`, `MobilePreview.tsx`, `usePreviewLinksQuery`: open ports and their query, the frame, drawings of the code | `PreviewSpinnerEnds`, `CodeIsOfPort`, `RefreshIsFresh` | `overtaken`: two drawings end in the other order; a failed reading is an empty list and takes the preview away |
| | `IDEView.tsx`, `update_ide_theme`: the frame, settings of each sandbox, calls under way | `IDESpinnerEnds`, `IDEIsInTheme`, `DownloadEnds` | the theme is sent only when it changes while the IDE is loaded (`synced`), and a failure is not tried again |
| `Secrets` | `SecretsView.tsx`, `add_secret`, `update_secret`, `delete_secret`: rows, requests of a save, lines of `.bashrc` | `KeysAsWanted`, `SavedAll`, `ShownIsStored` | `crossed`: a save removes a key it wrote, meets a value left empty, which the server refuses, or goes on with a removal or a refetch |
| `Transport` | `e2b_transport.py`: process, queue, monitor, parser, closers | `MessagesAsWritten`, `EndIsTrue`, `WaitHasEnd` | `clipped`: `strip()` loses blanks where a chunk is cut, against the comment beside it; `dropped`: close finds the queue full |
| `Checkpoints` | `sandbox.py`, `restore_to_checkpoint`: directories with files and dates, rows, session, a turn's and a restore's steps | `CheckpointIsWhole`, `OldestGoFirst`, `SessionIsShown` | `mixed`: copied while files change; `backdated`: dates come from the directory that `rsync -a` copied; `torn`: a restore fails half way |
| `Settings` | `SettingsPage.tsx`, `useCrudForm.ts`, `utils/settings.ts`: row, query, local copy, requests, dialog | `KeysUnique`, `SettlesToServer`, `OnlyTouched`, `EditsWhatWasMeant` | `odd`: requests overlapped, or one failed after its work was done or with others under way; `missed`: an edit or a deletion hit another item, for the list changed below its dialog |
| `Resources` | `useFileResourceManagement.ts`, `base_resource.py`: row and files, operations under way | `NameOnce`, `EveryEntryHasItsFile`, `EveryFileHasAnEntry`, `Settles` | `odd`: operations overlap, the file is written and the row is not, or the query holds an older list; `unheard`: the names of an operation whose answer was lost, until the page shows the stored list again: the next switch saves a list without what the server wrote, and an upload of a name deleted there makes a second entry |
| `Tasks` | `TaskDialog.tsx`, `TimePicker.tsx`, `timezone.ts`, `useTaskManagement.ts`: form, clock, list, requests | `HourAsShown`, `UntouchedIsKept`, `PickedIsShown`, `ListSettles`, `LimitHolds` | `crowded`: two requests look at the limit at a time; `unheard`: a change or the list itself failed to be answered, until the list is next read; the weekday is not converted to UTC, although `TaskDialog.tsx:198` says the time is local |
| `UserService` | `user.py`: row and its lock, the copy in Redis, the count of the day | `NoChangeLost`, `CopyIsRow`, `LimitKept` | `overtaken`, `failed`, `crowd` |
| `Session` | `App.tsx`, `authStore.ts`, `useAuthQueries.ts`, `lib/api.ts`: tokens, flag, cached queries, calls | `OwnData`, `FlagHasTokens`, `TokensHaveFlag`, `LogoutSticks` | `crossed`: a refresh outlives its session; `abandoned`: a logout failed |
| `AuthForms` | sign-up, verification, forgotten password and reset pages, `auth.py` | `ErrorsAreCurrent`, `VerifiesOnce`, `ResetIsTold` | `lost`: an answer is lost after the work was done |

Seen while modelling, in the models without a property, because no document
promises otherwise: the chat row of a scheduled execution outlives its sandbox,
whose deferred deletion may never run (`ChatHasSandbox` is about the chats of
`create_chat`); `XlsxPreview.tsx` keeps the number of the sheet when another
workbook is opened (not in a model).

The bounds are in the two `.cfg` files and in the `INSTANCE` statements of the
composing modules. They are chosen per part: two of what may be confused (chats,
files, sandboxes, images, requests), one or two operations of each kind that may
overlap, one failure, and as many events as a case needs (three pages for a gap
between two, a third tool below a second for a nested move, three names for a
word that is matched, matched no more, and has a blank in it). Chats are alike, and
so are sandboxes: a part begins at the one called `m1`. The mutants show
that each property is violated within these bounds when the code is changed in a
plausible way. The parts have no fairness: their properties are invariants, and
`settled' states, where nothing is under way, take the place of `eventually'.

## 5. Proofs

`ChatTaskProofs` holds for every number of turns and every budget, from
`ChatAssumption` alone unless a bound is named:

- `TypeCorrect`: `Spec => []TypeOK`, by induction, one step per action. The
  clause that ties `probeTask` to the program point of the status request is
  what keeps `result[probeTask]` defined.
- `CompletedTurnIsWhole`: `Spec => []VerdictSound`. `VerdictSound` is not
  inductive: `TurnInv` adds that the monitor is off after the loop, that the
  verdict agrees with `wasCancelled` and `events` at each program point, and that
  a task that was never delivered has written nothing. Only runs without a crash
  are claimed, since a second run of a task starts from an empty context.
- `EndedTurnIsClosed`: `Spec => []ClosedWhenDone`, from `ClosedInv`, which says
  at each program point which of the final writes are already made.
- `ImplementsLifecycle`: `Spec => LifecycleSpec` if `MaxCrashes = 0`. Every
  action maps to a step of `MessageLifecycle` or to a stutter; `TurnInv` supplies
  the guard of each such step.
- `TextIsKept` (`Spec => TextKept`) and `TextMeansClosed` (`Spec =>
  []TextOnlyWhenClosed`), for runs with crashes and second deliveries. `TextInv`
  needs `QueueInv`: a turn is queued or at work only after its message was
  created, and past the loop it has a verdict, so text is only ever written
  together with one.
- `TurnsKeepOrder`: `Spec => []TurnStream`. `StreamInv` says at each program
  point which entries of the turn can be in the stream: none before this run
  emptied it, none but older events in the loop, and no closing entry before
  the step that publishes it. It holds while no call has failed or the task was
  delivered once, and this condition is stable backwards: a state that meets it
  is reached only from states that do.
- `SoloTurnCanBeStopped`: `Spec => []SoloTurnReachable`. `SoloInv` is about the
  status request, which reads in several steps and deletes the key of the chat at
  the end: with one turn it decides so only after reading a revocation, which
  stands until that turn's own clean-up, because `TurnInv` keeps the message from
  being closed and the result from leaving "active" while the turn streams.

`StreamReaderProofs`, for any number of turns and entries, any batch size and
any failures (`ReaderAssumption`):

- `TypeCorrect`, `ShownInOrder` (`Spec => []Ordered`) and `ShownWithoutGap`
  (`Spec => []PrefixShown`). Neither property is inductive. `LogInv` says that
  ids carry turns in order and that what a deletion removed belongs to earlier
  turns than what remains or follows; `ReadInv` that the next id to yield is the
  one after the last, or is separated from it by entries of earlier turns only;
  `ShownInv` that the page has all of its message's turn up to `storedId` unless
  `storedId` is already in a later turn. The last alternative is needed: a page
  that stays connected while the next turn starts loses the end of its own turn
  and goes on with the entries of the next.

`PermissionProofs`, for any number of calls, pages, faults and reloads
(`PermissionAssumption`):

- `TypeCorrect` and `ApprovalNeeded` (`Spec => []OnlyApprovedRuns`). The
  strengthening `ApprovalInv` follows an approval from the user's click to the
  CLI: in a respond call and in a subscription it belongs to the request it was
  given for.
- `EndedIsGone` (`Spec => []EndedRequestIsGone`). `GoneInv` adds that only a
  created request is waited for, so that no store can come after the wait's
  deletion; a call that fails spends the budget, which never comes back.

`RefreshTokenProofs`, for any number of browsers, tabs, calls and tokens
(`TokenAssumption`):

- `TypeCorrect`, `OneLiveToken` (`Spec => []OneLivePerSession`) and
  `EndedStaysEnded` (`Spec => SessionEndIsFinal`, an action property). The
  strengthening `LockInv` is the argument for the row lock: a row has one holder,
  a row that its holder has read as valid is live until the holder commits, and
  every token descends from a login that is not younger than itself.
- `NoTheftSeen` (`Spec => []NoFalseAlarm`). `AlarmInv` is the argument for the
  page's `refreshingPromise`: with one tab for each browser, no logout and no lost
  answer, each call under way is the only refresh of its tab, the tab still
  holds the token it sent, a new token on its way back is nobody's yet, and a tab
  holds a revoked token only while the answer that replaces it is on its way.

`SchedulerProofs`, over any calendar (`CalendarAssumption`) and for any number of
tasks, checks, runs, requests and faults (`SchedulerAssumption`):

- `NextDatetimeIsFirst`: `calculate_next_datetime` returns an instant that matches
  the recurrence, is after the given one, and has no matching instant in between.
  The weekly case rests on `DaysAhead` (arithmetic modulo seven), the monthly one
  on `DayOfMonth` (a day is in one month only) and `ScheduledDay` (clamping stays
  in the month). The month after the given one must be in the calendar.
- `TypeCorrect` and `NextIsAlwaysFirst` (`Spec => []NextIsFirst`). `TimeInv` keeps
  the clock, and with it what checks and runs took from it, within the days of the
  model, so that `NextDatetimeIsFirst` applies at each use of the function.
- `CountersAgree` (`Spec => []CountsAgree`). `CountInv` adds that a task in `alone`
  has at most one run in progress, and that the row this run holds has the counters
  of the database, while others may have written any other column: `FlushedRow`
  says what a session's commit leaves of a row, and `EditedRow` and `AdvancedRow`
  that requests and checks change no counter. It also says at which points a run
  can have an execution, so that each commit adds a single element to one of the
  two sets that are counted.
- `DispatchedOnce` (`Spec /\ []OneCheckAtATime => OccurrenceOnce`). `SlotInv` places
  the occurrence a task was last dispatched for: it is past, before the next
  one, not after the start of a run in progress, and before what a check that has
  read the row is about to dispatch. The hypothesis is beat's interval: a check
  commits what it read long before the next one, five minutes later. The code
  itself does not prevent an overlap, and two checks that read the same row
  would both send it.

`PtyQueuesProofs`, for any capacity above zero and any number of items:

- `TypeCorrect`, `NewestIsKept` (`Spec => []NewestKept`) and `Refinement`
  (`Spec => Implements`, the specification of `KeepsNewest` with `got` for what
  came). What arrived is older than what the worker is sending, which is older than
  what is queued, and each of the three is increasing: so the first item sent
  is newer than all that came, which is the guard of `KeepsNewest`.

`TerminalProofs`, for any sizes, connections, tabs and faults
(`TerminalAssumption`):

- `TerminalKeeps` (`TerminalsSpec => []TerminalSound`): a handler meets `auth`, then
  `init`, then the rest; a tab that is ready has a shell; a handler that is done
  leaves none; a connection the tab has left is told so; the shell comes to have
  the size of the box; and in the strip a number has one tab and one tab is shown.
  Four strengthenings. `TabInv`: the tab has the only connection that is not
  closed, and has sent `init` exactly when that is open. `ConnInv`: what is under
  way to a handler begins with what it waits for and goes on with messages of a
  session that has begun; only a handler with a shell answers; a PTY that was
  removed is being killed. `ReadyIsHeld`: a tab that is ready has a handler with a
  shell. `Settling`: the size the shell will have when all is read is the one the
  tab sent last, and at most one answer to `init` is on its way, which says the
  same. The strip has `TabsInv`.

`SessionProofs`, for any users, logins, calls and failures (`LoginsAreCounted`):

- `SessionTypes` and `OneUser` (`SessionSpec => []SessionIsOneUsers`): what is
  cached belongs to the user who is signed in, a session that was logged out of does
  not come back, and flag and tokens agree when the browser is at rest. `OwnCalls`
  adds that a call that is still heard of was sent by the session there is or by
  none; `NoTokens` that without tokens nothing under way brings a user back;
  `RefreshHasCall` and `FlagComes` that a refresh, or a flag that is missing, has a
  call whose answer goes on with it.

## 6. Only model-checked

Liveness is outside what TLAPS proves here: `RevocationStopsLoop`,
`NoticedCancelEnds`, `TerminalEndsReader`, `StopEndsReader`, `EveryCallEnds` and
`DueIsDispatched` are checked on the instances of section 3.

Of section 4, `TerminalSound`, `SessionIsOneUsers`, `NewestKept` and `Implements`
are proved. `StreamsAgree`, `MessageIsWhole`, `BoxKeeps` and `ChatsAsAsked` are
checked on the instance of `MCChatPage`, `SandboxTrue` and `SettingsAgree` on that
of `MCWorkbench`. Several of their parts compute by recursion over data (folds over
event logs, trees and pages), where what is computed for every input would need
an induction that the installed provers cannot do; the others need, like the
terminal, an invariant of their own for each part.

## 7. Not modelled

Connection set-up, configuration and table declarations: the rows appear as state
of the modules that use them, TTLs and limits as their constants. The admin panel,
e-mail, middleware, uploads and voice keep no state that several actors change.
Views that only draw (markdown, tables, icons, menus) render state that the parts
above own. The command line and the options of the CLI are built without state.
Hashing, tokens of a mail and their checking are fastapi-users' own code behind
thin handlers. Of the scheduler, the deletion of the sandbox and the chat rows of
an execution are left out; of skills, the archives; of MCP servers, the form for
their environment variables (`McpDialog.tsx`).
