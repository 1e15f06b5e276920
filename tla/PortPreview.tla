---------------------------- MODULE PortPreview ----------------------------
(***************************************************************************)
(* What is shown of a sandbox in a frame: what listens in it, in the web   *)
(* preview and, as on a phone with a code to scan, in the mobile preview;  *)
(* and its IDE.                                                            *)
(*   frontend components/editor/web-preview/Preview.tsx and Panel.tsx,     *)
(*   editor/mobile-preview/MobilePreview.tsx, components/views/IDEView.tsx,*)
(*   hooks/queries/useSandboxQueries.ts, services/sandboxService.ts,       *)
(*   store/uiStore.ts; backend services/sandbox.py                         *)
(*                                                                         *)
(* ChatPage.tsx mounts one view at a time and gives it the sandbox of the  *)
(* chat.  The previews read the query of open ports, which the library     *)
(* caches per sandbox.  A port is its place in the list, 0 the one of Expo.*)
(***************************************************************************)
EXTENDS Naturals, FiniteSets, FiniteSetsExt

CONSTANTS
  Sandboxes, NoSandbox,
  Ports,        \* ports that may be opened, numbers above 0
  MaxMoves,     \* bound: changes of the view or of the sandbox
  MaxOpened,    \* bound: ports opened or closed
  MaxPresses,   \* bound: refreshes and choices of a port
  MaxErrors     \* bound: readings that fail

VARIABLES
  listening,    \* what listens in each sandbox
  data,         \* what the query holds of each sandbox, or {NoSandbox} if nothing yet
  reading,      \* its call, and the ports that were found
  view, sandboxId,
  selectedPortId, \* the user's choice, or 0
  isLoading, loaded,      \* of Panel: the spinner, and whether its frame has loaded
  qrCode,       \* the port the code on the page is of, or none
  isLoadingQr,
  drawings,     \* calls of QRCode.toDataURL under way
  overtaken,    \* such a call ended before an earlier one (history)
  ever, always, \* what listened at some time or all the time since the last press,
                \* or {NoSandbox} if that was not answered (history)
  moves, opened, presses, errors

query == <<data, reading>>
panel == <<isLoading, loaded>>
code == <<qrCode, isLoadingQr, drawings, overtaken>>
past == <<ever, always>>
bounds == <<moves, opened, presses, errors>>
vars == <<listening, query, view, sandboxId, selectedPortId, panel, code, past, bounds>>

Nothing == {NoSandbox}
Reading(step) == [step |-> step, found |-> {}]
Views == {"web", "mobile", "other"}
Held(d, box) == IF box = NoSandbox \/ d[box] = Nothing THEN {} ELSE d[box]

\* selectedPort: the one chosen if it is there, else the first.
Selected(d, box, id) ==
  LET held == Held(d, box)
  IN  IF held = {} THEN 0 ELSE IF id \in held THEN id ELSE Min(held)

\* previewUrl of Panel, which is there only in the web preview with a port.
Url(v, d, box, id) ==
  IF v = "web" /\ Held(d, box) # {} THEN <<box, Selected(d, box, id)>> ELSE <<>>

Init ==
  /\ \E open \in {{}, Ports} : listening = [b \in Sandboxes |-> open]
  /\ data = [b \in Sandboxes |-> Nothing] /\ reading = [b \in Sandboxes |-> Reading("none")]
  /\ view = "other" /\ sandboxId \in Sandboxes /\ selectedPortId = 0
  /\ isLoading = FALSE /\ loaded = FALSE
  /\ qrCode = <<>> /\ isLoadingQr = FALSE /\ drawings = {} /\ overtaken = FALSE
  /\ ever = [b \in Sandboxes |-> Nothing] /\ always = [b \in Sandboxes |-> Nothing]
  /\ moves = 0 /\ opened = 0 /\ presses = 0 /\ errors = 0

-----------------------------------------------------------------------------
(* What follows a change of view, sandbox, ports or choice. *)

\* Panel: a new url gets a new frame and, in the effect, the spinner.
PanelFollows ==
  LET new == Url(view', data', sandboxId', selectedPortId')
  IN  IF new # Url(view, data, sandboxId, selectedPortId)
      THEN isLoading' = (new # <<>>) /\ loaded' = FALSE
      ELSE UNCHANGED panel

\* Mutant: the effect depends on the sandbox alone.
CodeStale_SandboxOnly(fresh) == fresh \/ sandboxId' # sandboxId

CodeStale(fresh) ==
  \/ fresh \/ sandboxId' # sandboxId
  \/ Selected(data', sandboxId', selectedPortId') # Selected(data, sandboxId, selectedPortId)

\* MobilePreview: the code is drawn again; an earlier drawing goes on.
CodeFollows(fresh) ==
  IF view' # "mobile"
  THEN /\ drawings' = {} /\ qrCode' = <<>> /\ isLoadingQr' = FALSE
       /\ overtaken' = FALSE
  ELSE IF sandboxId' # NoSandbox /\ CodeStale(fresh)
  THEN LET port == Selected(data', sandboxId', selectedPortId')
       IN  /\ drawings' = drawings \cup {[of |-> <<sandboxId', port>>,
                                          n |-> 1 + Max({0} \cup {d.n : d \in drawings})]}
           /\ isLoadingQr' = TRUE
           /\ qrCode' = IF fresh THEN <<>> ELSE qrCode
           /\ UNCHANGED overtaken
  ELSE UNCHANGED code

-----------------------------------------------------------------------------
(* The query *)

\* Mutant: a refetch joins the call under way.
Refetched_Joins(box) ==
  IF reading[box].step = "none" THEN [reading EXCEPT ![box] = Reading("asked")] ELSE reading

\* refetch, of a query that holds something, cancels a call under way.
Refetched(box) == [reading EXCEPT ![box] = Reading("asked")]

\* getPreviewLinks on the server: `ss', without the ports of the sandbox itself.
FindPorts(box) ==
  /\ reading[box].step = "asked"
  /\ \/ /\ reading' = [reading EXCEPT ![box] = [step |-> "found", found |-> listening[box]]]
        /\ UNCHANGED errors
     \/ /\ errors < MaxErrors /\ errors' = errors + 1
        /\ reading' = [reading EXCEPT ![box] = Reading("failed")]
  /\ UNCHANGED <<listening, data, view, sandboxId, selectedPortId, panel, code, past, moves,
                 opened, presses>>

\* sandboxService.getPreviewLinks: a failure is an empty list.
LinksRead(box) ==
  /\ reading[box].step \in {"found", "failed"}
  /\ reading' = [reading EXCEPT ![box] = Reading("none")]
  /\ data' = [data EXCEPT ![box] = reading[box].found]
  /\ IF reading[box].step = "failed"
     THEN ever' = [ever EXCEPT ![box] = Nothing] /\ always' = [always EXCEPT ![box] = Nothing]
     ELSE UNCHANGED past
  /\ UNCHANGED <<listening, view, sandboxId, selectedPortId, bounds>>
  /\ PanelFollows /\ CodeFollows(FALSE)

-----------------------------------------------------------------------------
(* The page *)

\* A view that needs the ports and has none, or old ones, asks for them.
Asks(v, box, stale) ==
  IF /\ v # "other" /\ box # NoSandbox
     /\ reading[box].step = "none" /\ (data[box] = Nothing \/ stale)
  THEN reading' = [reading EXCEPT ![box] = Reading("asked")]
  ELSE UNCHANGED reading

\* Each mounting begins anew.
Show(v, stale) ==
  /\ v # view /\ moves < MaxMoves
  /\ moves' = moves + 1
  /\ view' = v /\ selectedPortId' = 0
  /\ Asks(v, sandboxId, stale)
  /\ UNCHANGED <<listening, data, sandboxId, past, opened, presses, errors>>
  /\ PanelFollows /\ CodeFollows(TRUE)

\* Another chat: the view stays, with its choice.
OpenChat(box, stale) ==
  /\ box # sandboxId /\ moves < MaxMoves
  /\ moves' = moves + 1
  /\ sandboxId' = box
  /\ Asks(view, box, stale)
  /\ UNCHANGED <<listening, data, view, selectedPortId, past, opened, presses, errors>>
  /\ PanelFollows /\ CodeFollows(FALSE)

onPortChange(port) ==
  /\ view # "other" /\ port \in Held(data, sandboxId)
  /\ presses < MaxPresses /\ presses' = presses + 1
  /\ selectedPortId' = port
  /\ UNCHANGED <<listening, query, view, sandboxId, past, moves, opened, errors>>
  /\ PanelFollows /\ CodeFollows(FALSE)

\* The frame loads or fails to.
handlePreviewLoad ==
  /\ Url(view, data, sandboxId, selectedPortId) # <<>> /\ ~loaded
  /\ loaded' = TRUE /\ isLoading' = FALSE
  /\ UNCHANGED <<listening, query, view, sandboxId, selectedPortId, code, past, bounds>>

\* Mutant: the key of the frame is its url.
Reloaded_SameKey == isLoading' = TRUE /\ UNCHANGED loaded

\* reloadToken is part of the frame's key.
Reloaded == isLoading' = TRUE /\ loaded' = FALSE

\* handleReload, handleRefresh and the button `Refresh' of an empty preview
Refresh ==
  /\ view # "other" /\ sandboxId # NoSandbox /\ data[sandboxId] # Nothing
  /\ view = "mobile" => Held(data, sandboxId) # {}
  /\ presses < MaxPresses /\ presses' = presses + 1
  /\ reading' = Refetched(sandboxId)
  /\ ever' = [ever EXCEPT ![sandboxId] = listening[sandboxId]]
  /\ always' = [always EXCEPT ![sandboxId] = listening[sandboxId]]
  /\ IF Url(view, data, sandboxId, selectedPortId) # <<>> THEN Reloaded ELSE UNCHANGED panel
  /\ UNCHANGED <<listening, data, view, sandboxId, selectedPortId, code, moves, opened, errors>>

\* toDataURL resolves; what was shown before stays until then.
CodeDrawn(d) ==
  /\ drawings' = drawings \ {d}
  /\ qrCode' = d.of /\ isLoadingQr' = FALSE
  /\ overtaken' = (overtaken \/ \E e \in drawings : e.n < d.n)
  /\ UNCHANGED <<listening, query, view, sandboxId, selectedPortId, panel, past, bounds>>

\* A process in the sandbox begins or ends to listen.
Listen(box, port) ==
  /\ opened < MaxOpened /\ opened' = opened + 1
  /\ listening' = [listening EXCEPT ![box] = IF port \in @ THEN @ \ {port} ELSE @ \cup {port}]
  /\ ever' = [ever EXCEPT ![box] = IF @ = Nothing THEN @ ELSE @ \cup listening'[box]]
  /\ always' = [always EXCEPT ![box] = IF @ = Nothing THEN @ ELSE @ \cap listening'[box]]
  /\ UNCHANGED <<query, view, sandboxId, selectedPortId, panel, code, moves, presses, errors>>

\* The panel with the page: the ports to choose from, and the frame
Panel == handlePreviewLoad \/ \E port \in Ports : onPortChange(port)

\* The mobile preview: its button, and the QR code of the page
MobilePreview == Refresh \/ \E d \in drawings : CodeDrawn(d)

Next ==
  \/ \E box \in Sandboxes : \/ FindPorts(box) \/ LinksRead(box)
                            \/ \E port \in Ports : Listen(box, port)
  \/ \E stale \in BOOLEAN : \/ \E v \in Views : Show(v, stale)
                            \/ \E box \in Sandboxes \cup {NoSandbox} : OpenChat(box, stale)
  \/ Panel \/ MobilePreview

Spec == Init /\ [][Next]_vars

-----------------------------------------------------------------------------
(* Properties *)

TypeOK ==
  /\ listening \in [Sandboxes -> SUBSET Ports]
  /\ \A b \in Sandboxes : data[b] = Nothing \/ data[b] \subseteq Ports
  /\ view \in Views /\ sandboxId \in Sandboxes \cup {NoSandbox}
  /\ selectedPortId \in Ports \cup {0}
  /\ {isLoading, loaded, isLoadingQr, overtaken} \subseteq BOOLEAN

\* A spinner over the web preview ends: its frame is still to load.
SpinnerEnds == isLoading => Url(view, data, sandboxId, selectedPortId) # <<>> /\ ~loaded

\* The code that is shown leads to the port that is shown, once it is drawn, unless
\* two drawings ended in the other order.
CodeIsOfPort ==
  view = "mobile" /\ sandboxId # NoSandbox /\ drawings = {} /\ ~overtaken =>
    ~isLoadingQr /\ qrCode = <<sandboxId, Selected(data, sandboxId, selectedPortId)>>

\* A refresh that was answered shows what listens since it was pressed, though a call
\* begun before it may answer after the press.
RefreshIsFresh ==
  \A b \in Sandboxes : reading[b].step = "none" /\ ever[b] # Nothing =>
    data[b] \subseteq ever[b] /\ always[b] \subseteq data[b]

-----------------------------------------------------------------------------
(* The IDE of a sandbox, shown in a frame, a state machine of its own: its *)
(* spinner, its theme and the download of all files.  ChatPage.tsx mounts  *)
(* the view while it is the current one and gives it the sandbox of the    *)
(* chat, which may change under it.  The IDE reads its theme from its      *)
(* settings file as it loads.                                              *)

CONSTANTS
  MaxViews,     \* bound: changes of the view or of the sandbox
  MaxToggles,   \* bound: changes of the theme
  MaxDownloads  \* bound: downloads begun

VARIABLES
  theme,         \* of the page
  settings,      \* the theme in the settings file of each sandbox
  ideSandboxId,  \* of the chat on the page
  instance,      \* of the view, or 0 while another view is shown
  ideIsLoading, isDownloading, prevTheme, hasLoaded,
  frame,         \* the iframe: "none", "loading", or the theme it was loaded with
  puts,          \* calls of updateIDETheme under way
  downloads,     \* views whose downloads are under way
  synced,        \* sandboxes whose IDE was told the page's theme (history)
  ideMoves, toggles, begun

ideVars == <<theme, settings, ideSandboxId, instance, ideIsLoading, isDownloading, prevTheme,
             hasLoaded, frame, puts, downloads, synced, ideMoves, toggles, begun>>

Themes == {"dark", "light"}
Other(t) == IF t = "dark" THEN "light" ELSE "dark"
Frame(box) == IF box = NoSandbox THEN "none" ELSE "loading"

IDEInit ==
  /\ theme = "dark" /\ settings \in [Sandboxes -> Themes]
  /\ ideSandboxId \in Sandboxes /\ instance = 0
  /\ ideIsLoading = TRUE /\ isDownloading = FALSE /\ prevTheme = "dark" /\ hasLoaded = FALSE
  /\ frame = "none" /\ puts = {} /\ downloads = {} /\ synced = {}
  /\ ideMoves = 0 /\ toggles = 0 /\ begun = 0

(* The effect of theme and sandbox. *)

Unsent(box, t) ==
  IF t = theme THEN synced ELSE IF hasLoaded THEN synced \cap {box} ELSE {}

\* Mutant: the reference keeps the theme of the beginning.
SendTheme_RefKept(box, t) ==
  IF box # NoSandbox /\ hasLoaded /\ prevTheme # t
  THEN /\ puts' = puts \cup {[box |-> box, theme |-> t, by |-> instance, n |-> toggles',
                              handled |-> FALSE]}
       /\ synced' = IF t = theme THEN synced \cup {box} ELSE {box}
       /\ UNCHANGED prevTheme
  ELSE /\ synced' = Unsent(box, t)
       /\ UNCHANGED <<puts, prevTheme>>

\* Nothing is sent before the IDE has loaded, nor later for a change that came
\* before.
SendTheme(box, t) ==
  IF box # NoSandbox /\ hasLoaded /\ prevTheme # t
  THEN /\ prevTheme' = t
       /\ puts' = puts \cup {[box |-> box, theme |-> t, by |-> instance, n |-> toggles',
                              handled |-> FALSE]}
       /\ synced' = IF t = theme THEN synced \cup {box} ELSE {box}
  ELSE /\ synced' = Unsent(box, t)
       /\ UNCHANGED <<puts, prevTheme>>

toggleTheme ==
  /\ toggles < MaxToggles
  /\ toggles' = toggles + 1
  /\ theme' = Other(theme)
  /\ IF instance # 0
     THEN SendTheme(ideSandboxId, theme')
     ELSE synced' = {} /\ UNCHANGED <<puts, prevTheme>>
  /\ UNCHANGED <<settings, ideSandboxId, instance, ideIsLoading, isDownloading, hasLoaded,
                 frame, downloads, ideMoves, begun>>

(* The page *)

\* Each mounting begins anew; what an earlier one asked for goes on.
ShowIDE ==
  /\ instance = 0 /\ ideMoves < MaxViews
  /\ ideMoves' = ideMoves + 1
  /\ instance' = ideMoves'
  /\ ideIsLoading' = TRUE /\ isDownloading' = FALSE
  /\ prevTheme' = theme /\ hasLoaded' = FALSE
  /\ frame' = Frame(ideSandboxId)
  /\ UNCHANGED <<theme, settings, ideSandboxId, puts, downloads, synced, toggles, begun>>

HideIDE ==
  /\ instance # 0
  /\ instance' = 0 /\ frame' = "none"
  /\ UNCHANGED <<theme, settings, ideSandboxId, ideIsLoading, isDownloading, prevTheme, hasLoaded,
                 puts, downloads, synced, ideMoves, toggles, begun>>

\* Another chat: the url and so the frame are new, the rest of the view is not.
ChangeSandbox(box) ==
  /\ box # ideSandboxId /\ ideMoves < MaxViews
  /\ ideMoves' = ideMoves + 1 /\ toggles' = toggles
  /\ ideSandboxId' = box
  /\ IF instance # 0
     THEN SendTheme(box, theme) /\ frame' = Frame(box)
     ELSE UNCHANGED <<prevTheme, puts, synced, frame>>
  /\ UNCHANGED <<theme, settings, instance, ideIsLoading, isDownloading, hasLoaded, downloads,
                 begun>>

handleLoad ==
  /\ frame = "loading"
  /\ frame' = settings[ideSandboxId]
  /\ ideIsLoading' = FALSE /\ hasLoaded' = TRUE
  /\ UNCHANGED <<theme, settings, ideSandboxId, instance, isDownloading, prevTheme, puts,
                 downloads, synced, ideMoves, toggles, begun>>

\* Mutant: the key of the frame is its url.
IDEReloaded_SameKey == ideIsLoading' = TRUE /\ UNCHANGED frame

\* reloadToken is part of the frame's key.
IDEReloaded == ideIsLoading' = TRUE /\ frame' = Frame(ideSandboxId)

handleReload ==
  /\ frame # "none"
  /\ IDEReloaded
  /\ UNCHANGED <<theme, settings, ideSandboxId, instance, isDownloading, prevTheme, hasLoaded,
                 puts, downloads, synced, ideMoves, toggles, begun>>

(* updateIDETheme *)

\* The server writes the settings file.  Calls may overtake each other.
WriteTheme(p) ==
  /\ ~p.handled
  /\ settings' = [settings EXCEPT ![p.box] = p.theme]
  /\ puts' = (puts \ {p}) \cup {[p EXCEPT !.handled = TRUE]}
  /\ synced' = IF \E q \in puts : q.box = p.box /\ q.n < p.n /\ ~q.handled
               THEN synced \ {p.box} ELSE synced
  /\ UNCHANGED <<theme, ideSandboxId, instance, ideIsLoading, isDownloading, prevTheme, hasLoaded,
                 frame, downloads, ideMoves, toggles, begun>>

\* Mutant: the answer does not reload the frame.
Answered_NoReload(p) == UNCHANGED <<ideIsLoading, frame>>

\* handleReload of the view that asked
Answered(p) ==
  IF p.by = instance THEN IDEReloaded ELSE UNCHANGED <<ideIsLoading, frame>>

ThemeWritten(p) ==
  /\ p.handled
  /\ puts' = puts \ {p}
  /\ Answered(p)
  /\ synced' = IF p.by = instance THEN synced ELSE synced \ {p.box}
  /\ UNCHANGED <<theme, settings, ideSandboxId, instance, isDownloading, prevTheme, hasLoaded,
                 downloads, ideMoves, toggles, begun>>

\* Best effort: nothing is tried again.
ThemeFailed(p) ==
  /\ puts' = puts \ {p}
  /\ synced' = synced \ {p.box}
  /\ UNCHANGED <<theme, settings, ideSandboxId, instance, ideIsLoading, isDownloading, prevTheme,
                 hasLoaded, frame, downloads, ideMoves, toggles, begun>>

(* handleDownload; its button is disabled while it is under way. *)

handleDownload ==
  /\ instance # 0 /\ ideSandboxId # NoSandbox /\ ~isDownloading
  /\ begun < MaxDownloads
  /\ begun' = begun + 1
  /\ isDownloading' = TRUE
  /\ downloads' = downloads \cup {instance}
  /\ UNCHANGED <<theme, settings, ideSandboxId, instance, ideIsLoading, prevTheme, hasLoaded,
                 frame, puts, synced, ideMoves, toggles>>

\* Mutant: only a download that succeeds enables the button.
Enabled_OnSuccess(d, ok) == IF d = instance /\ ok THEN FALSE ELSE isDownloading

\* finally
Enabled(d, ok) == IF d = instance THEN FALSE ELSE isDownloading

Downloaded(d, ok) ==
  /\ downloads' = downloads \ {d}
  /\ isDownloading' = Enabled(d, ok)
  /\ UNCHANGED <<theme, settings, ideSandboxId, instance, ideIsLoading, prevTheme, hasLoaded,
                 frame, puts, synced, ideMoves, toggles, begun>>

\* What the view offers: its buttons, and the frame
IDEView == handleLoad \/ handleReload \/ handleDownload

IDENext ==
  \/ toggleTheme \/ ShowIDE \/ HideIDE \/ IDEView
  \/ \E box \in Sandboxes \cup {NoSandbox} : ChangeSandbox(box)
  \/ \E p \in puts : WriteTheme(p) \/ ThemeWritten(p) \/ ThemeFailed(p)
  \/ \E d \in downloads, ok \in BOOLEAN : Downloaded(d, ok)


IDETypeOK ==
  /\ theme \in Themes /\ settings \in [Sandboxes -> Themes] /\ prevTheme \in Themes
  /\ ideSandboxId \in Sandboxes \cup {NoSandbox} /\ instance \in 0 .. MaxViews
  /\ {ideIsLoading, isDownloading, hasLoaded} \subseteq BOOLEAN
  /\ frame \in Themes \cup {"none", "loading"}
  /\ downloads \subseteq 1 .. MaxViews /\ synced \subseteq Sandboxes
  /\ puts \subseteq [box : Sandboxes, theme : Themes, by : 1 .. MaxViews, n : 0 .. MaxToggles,
                     handled : BOOLEAN]

\* A spinner over the IDE ends: its frame is still to load.
IDESpinnerEnds == ideIsLoading => frame \in {"none", "loading"}

\* Once the calls have returned, the IDE is shown in the theme of the page, if it
\* was told of it: one that loaded before the change, and whose calls neither
\* failed nor overtook each other nor outlived their view.
IDEIsInTheme ==
  ideSandboxId \in synced /\ (\A p \in puts : p.box # ideSandboxId) =>
    settings[ideSandboxId] = theme /\ frame \in {"none", "loading", theme}

\* The button of the download is disabled only while one is under way.
DownloadEnds == instance # 0 /\ isDownloading => instance \in downloads
=============================================================================
