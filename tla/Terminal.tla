------------------------------ MODULE Terminal ------------------------------
(***************************************************************************)
(* One tab of the terminal, its WebSocket and the PTY behind it: what is   *)
(* sent in which order, how the size of the terminal follows its box, and  *)
(* how sessions end; and the strip of the tabs.                            *)
(*   frontend hooks/useXterm.ts, components/editor/terminal/TerminalTab.tsx,*)
(*   Container.tsx                                                         *)
(*   backend  api/endpoints/websocket.py, services/sandbox.py              *)
(* What is typed and shown is the matter of module PtyQueues.              *)
(***************************************************************************)
EXTENDS Naturals, Sequences, FiniteSets, SequencesExt

CONSTANTS
  Sizes,      \* sizes the box of the terminal may have
  NumConns,   \* bound: connections
  MaxShows,   \* bound: times the tab is shown, hidden or closed
  MaxResizes, \* bound: times the box changes
  MaxFaults   \* bound: things that fail

ASSUME TerminalAssumption == Sizes # {} /\ NumConns \in Nat

VARIABLES
  box,        \* size of the element the terminal is drawn in
  tab,        \* state of the tab
  listening,  \* connections whose events the tab handles
  wire,       \* connection -> [ws, up, down]
  server,     \* connection -> its handler, worker and PTY
  tally,      \* how often each bounded thing happened
  unkilled    \* (history) connections whose PTY could not be killed, its killing was cancelled,
              \*   or it was made and the answer lost

terminalVars == <<box, tab, listening, wire, server, tally, unkilled>>

Conns == 1 .. NumConns
NoConn == 0
NoSize == 0

\* xterm's own size before it is fitted, which is also what the code falls back to
DefaultSize == CHOOSE s \in Sizes : TRUE

NewTab == [visible |-> FALSE, isReady |-> FALSE, ws |-> NoConn, hasSentInit |-> FALSE,
           lastSent |-> NoSize, session |-> "idle", size |-> DefaultSize, frame |-> FALSE,
           answered |-> FALSE, crossed |-> FALSE]   \* the last two: (history)

TerminalInit ==
  /\ box = DefaultSize /\ tab = NewTab /\ listening = {}
  /\ wire = [c \in Conns |-> [ws |-> "none", up |-> <<>>, down |-> <<>>]]
  /\ server = [c \in Conns |-> [at |-> "auth", pty |-> "none", size |-> NoSize, worker |-> "none",
                                input |-> FALSE]]
  /\ tally = [shows |-> 0, resizes |-> 0, errors |-> 0] /\ unkilled = {}

Msg(type, size) == [type |-> type, size |-> size]

-----------------------------------------------------------------------------
(* The client *)

Upward(w, c, msgs) == [w EXCEPT ![c].up = @ \o msgs]

\* Mutant: a size is sent as soon as the socket is open.
handleFit_Eager(t, w, s) ==
  IF t.ws # NoConn /\ w[t.ws].ws = "open" /\ t.lastSent # s
  THEN <<[t EXCEPT !.size = s, !.lastSent = s], Upward(w, t.ws, <<Msg("resize", s)>>)>>
  ELSE <<[t EXCEPT !.size = s], w>>

\* Mutant: a size is sent only when the session is ready.
handleFit_WhenReady(t, w, s) ==
  IF t.hasSentInit /\ t.session = "ready" /\ w[t.ws].ws = "open" /\ t.lastSent # s
  THEN <<[t EXCEPT !.size = s, !.lastSent = s, !.crossed = @ \/ ~t.answered],
         Upward(w, t.ws, <<Msg("resize", s)>>)>>
  ELSE <<[t EXCEPT !.size = s], w>>

\* fitTerminal and handleFit: the terminal has the size s of its box, and says so
\* if that is news.
handleFit(t, w, s) ==
  IF t.hasSentInit /\ t.ws # NoConn /\ w[t.ws].ws = "open" /\ t.lastSent # s
  THEN <<[t EXCEPT !.size = s, !.lastSent = s,
                   !.crossed = @ \/ ~t.answered],
         Upward(w, t.ws, <<Msg("resize", s)>>)>>
  ELSE <<[t EXCEPT !.size = s], w>>

Unused == {c \in Conns : wire[c].ws = "none"}

\* The effect that opens a connection; without a token there is none.
Connected(t, w) ==
  LET c == CHOOSE x \in Unused : \A y \in Unused : x <= y
  IN <<[t EXCEPT !.ws = c, !.hasSentInit = FALSE, !.lastSent = NoSize, !.session = "connecting",
                 !.answered = FALSE, !.crossed = FALSE],
       [w EXCEPT ![c].ws = "connecting"]>>

\* Mutant: nothing is said to the server.
Cleanup_Silent(t, w) ==
  <<[t EXCEPT !.ws = NoConn, !.hasSentInit = FALSE, !.lastSent = NoSize, !.session = "idle"], w>>

\* The cleanup of that effect: close is sent if the socket is open, and the socket closed.
Cleanup(t, w) ==
  LET end == IF w[t.ws].ws = "open" THEN <<Msg("close", NoSize), Msg("disconnect", NoSize)>>
             ELSE <<Msg("disconnect", NoSize)>>
  IN <<[t EXCEPT !.ws = NoConn, !.hasSentInit = FALSE, !.lastSent = NoSize, !.session = "idle"],
       IF t.ws = NoConn THEN w ELSE [Upward(w, t.ws, end) EXCEPT ![t.ws].ws = "closing"]>>

\* Mutant: the tab goes on handling the events of a connection it left.
Left_Listening(t) == listening

\* Connections listened to when the connection of t is left
Left(t) == listening \ {t.ws}

\* The tab is shown: the terminal is made if there is none, and fitted.
Show ==
  /\ ~tab.visible /\ tally.shows < MaxShows /\ Unused # {}
  /\ tally' = [tally EXCEPT !.shows = @ + 1]
  /\ LET t == [tab EXCEPT !.visible = TRUE, !.isReady = TRUE, !.frame = TRUE]
         r == Connected(t, wire)
     IN IF tab.isReady THEN tab' = t /\ UNCHANGED <<wire, listening>>
        ELSE \/ tab' = r[1] /\ wire' = r[2] /\ listening' = listening \cup {r[1].ws}
             \/ tab' = t /\ UNCHANGED <<wire, listening>>    \* no sandbox or no token
  /\ UNCHANGED <<box, server, unkilled>>

Hide ==
  /\ tab.visible /\ tally.shows < MaxShows
  /\ tally' = [tally EXCEPT !.shows = @ + 1]
  /\ tab' = [tab EXCEPT !.visible = FALSE, !.frame = FALSE]
  /\ UNCHANGED <<box, listening, wire, server, unkilled>>

\* The tab is closed, or its page left.
Unmount ==
  LET r == Cleanup(tab, wire)
  IN
  /\ tab.isReady /\ tally.shows < MaxShows
  /\ tally' = [tally EXCEPT !.shows = @ + 1]
  /\ tab' = [NewTab EXCEPT !.session = r[1].session] /\ wire' = r[2] /\ listening' = Left(tab)
  /\ UNCHANGED <<box, server, unkilled>>

\* Another sandbox: the effect is cleaned up and runs again.
SwitchSandbox ==
  LET q == Cleanup(tab, wire)
      r == Connected(q[1], q[2])
  IN
  /\ tab.isReady /\ Unused # {} /\ tally.shows < MaxShows
  /\ tally' = [tally EXCEPT !.shows = @ + 1]
  /\ tab' = r[1] /\ wire' = r[2] /\ listening' = Left(tab) \cup {r[1].ws}
  /\ UNCHANGED <<box, server, unkilled>>

\* The box changes; a hidden terminal takes no notice.
ResizeBox(s) ==
  /\ s # box /\ tally.resizes < MaxResizes
  /\ tally' = [tally EXCEPT !.resizes = @ + 1]
  /\ box' = s /\ tab' = [tab EXCEPT !.frame = @ \/ (tab.visible /\ tab.isReady)]
  /\ UNCHANGED <<listening, wire, server, unkilled>>

\* The animation frame
Fit ==
  /\ tab.frame
  /\ LET r == handleFit([tab EXCEPT !.frame = FALSE], wire, box)
     IN tab' = r[1] /\ wire' = r[2]
  /\ UNCHANGED <<box, listening, server, tally, unkilled>>

Type ==
  /\ tab.visible /\ tab.ws # NoConn /\ wire[tab.ws].ws = "open"
  /\ ~\E i \in DOMAIN wire[tab.ws].up : wire[tab.ws].up[i].type = "input"   \* bound: one under way
  /\ ~server[tab.ws].input
  /\ wire' = Upward(wire, tab.ws, <<Msg("input", NoSize)>>)
  /\ UNCHANGED <<box, tab, listening, server, tally, unkilled>>

\* handleOpen; the terminal is fitted if its renderer is there.
Open(c) ==
  /\ wire[c].ws = "connecting"
  /\ LET w == [wire EXCEPT ![c].ws = "open"]
         hidden == ~tab.visible
     IN IF c \in listening
        THEN \E fits \in BOOLEAN :
               LET r == IF fits /\ ~hidden
                        THEN handleFit(tab, Upward(w, c, <<Msg("auth", NoSize)>>), box)
                        ELSE <<tab, Upward(w, c, <<Msg("auth", NoSize)>>)>>
                   s == r[1].size
               IN /\ tab' = [r[1] EXCEPT !.hasSentInit = TRUE, !.lastSent = s]
                  /\ wire' = Upward(r[2], c, <<Msg("init", s)>>)
        ELSE tab' = tab /\ wire' = w
  /\ UNCHANGED <<box, listening, server, tally, unkilled>>

\* handleClose, after handleError if it was one
Closed(t, failed) ==
  [t EXCEPT !.ws = NoConn, !.hasSentInit = FALSE, !.lastSent = NoSize,
            !.session = IF failed \/ @ = "error" THEN "error" ELSE "idle"]

\* The connection cannot be made, or is lost.
Lose(c) ==
  /\ wire[c].ws \in {"connecting", "open"} /\ tally.errors < MaxFaults
  /\ tally' = [tally EXCEPT !.errors = @ + 1]
  /\ wire' = [Upward(wire, c, <<Msg("disconnect", NoSize)>>) EXCEPT ![c].ws = "closed", ![c].down = <<>>]
  /\ \E failed \in BOOLEAN : tab' = IF c \in listening THEN Closed(tab, failed) ELSE tab
  /\ UNCHANGED <<box, listening, server, unkilled>>

\* handleMessage, and the end of the connection
Receive(c) ==
  LET m == Head(wire[c].down)
      w == [wire EXCEPT ![c].down = Tail(@)]
  IN
  /\ wire[c].down # <<>> /\ wire[c].ws = "open"
  /\ IF c \notin listening THEN tab' = tab /\ wire' = w
     ELSE CASE m.type = "init" ->
                 /\ tab' = [tab EXCEPT !.lastSent = m.size, !.session = "ready", !.answered = TRUE]
                 /\ wire' = w
            [] m.type = "stdout" ->
                 /\ tab' = [tab EXCEPT !.session = IF @ = "connecting" THEN "ready" ELSE @]
                 /\ wire' = w
            [] m.type = "closed" ->
                 tab' = Closed(tab, FALSE) /\ wire' = [w EXCEPT ![c].ws = "closed"]
  /\ UNCHANGED <<box, listening, server, tally, unkilled>>

\* The close event of a connection the client closed
CloseEvent(c) ==
  /\ wire[c].ws = "closing"
  /\ wire' = [wire EXCEPT ![c].ws = "closed", ![c].down = <<>>]
  /\ tab' = IF c \in listening THEN Closed(tab, FALSE) ELSE tab
  /\ UNCHANGED <<box, listening, server, tally, unkilled>>

-----------------------------------------------------------------------------
(* The server: the handler of a connection reads one message after the other *)

Reads(c, at, type) ==
  /\ server[c].at = at /\ wire[c].up # <<>> /\ Head(wire[c].up).type = type
  /\ wire' = [wire EXCEPT ![c].up = Tail(@)]

\* wait_for_auth
Auth(c) ==
  /\ Reads(c, "auth", "auth")
  /\ \/ server' = [server EXCEPT ![c].at = "loop"] /\ UNCHANGED tally
     \/ /\ tally.errors < MaxFaults
        /\ tally' = [tally EXCEPT !.errors = @ + 1]
        /\ server' = [server EXCEPT ![c].at = "finally"]
  /\ UNCHANGED <<box, tab, listening, unkilled>>

\* Nothing arrived in time, or the client went.
NoAuth(c) ==
  /\ server[c].at = "auth" /\ wire[c].ws # "none"
  /\ \/ Reads(c, "auth", "disconnect") /\ UNCHANGED tally
     \/ /\ tally.errors < MaxFaults /\ wire[c].ws # "connecting"
        /\ tally' = [tally EXCEPT !.errors = @ + 1]
        /\ UNCHANGED wire
  /\ server' = [server EXCEPT ![c].at = "finally"]
  /\ UNCHANGED <<box, tab, listening, unkilled>>

\* TerminalSession.start, create_pty_session: the answer may be lost and the shell be made
\* without being registered, whether or not another try succeeds.
Start(c) ==
  LET s == Head(wire[c].up).size
      try_fails == /\ tally.errors < MaxFaults
                   /\ tally' = [tally EXCEPT !.errors = @ + 1]
                   /\ unkilled' \in {unkilled, unkilled \cup {c}}
  IN
  /\ server[c].at = "loop" /\ wire[c].up # <<>> /\ Head(wire[c].up).type = "init"
  /\ \/ /\ server' = [server EXCEPT ![c].pty = "registered", ![c].size = s, ![c].worker = "idle"]
        /\ wire' = [wire EXCEPT ![c].up = Tail(@), ![c].down = Append(@, Msg("init", s))]
        /\ UNCHANGED <<tally, unkilled>> \/ try_fails
     \/ /\ try_fails
        /\ server' = [server EXCEPT ![c].at = "finally"]
        /\ wire' = [wire EXCEPT ![c].up = Tail(@)]
  /\ UNCHANGED <<box, tab, listening>>

\* resize_pty_session: a failure is logged.
Resize(c) ==
  /\ Reads(c, "loop", "resize")
  /\ \/ /\ server' = IF server[c].pty = "registered"
                     THEN [server EXCEPT ![c].size = Head(wire[c].up).size] ELSE server
        /\ UNCHANGED tally
     \/ /\ tally.errors < MaxFaults /\ server[c].pty = "registered"
        /\ tally' = [tally EXCEPT !.errors = @ + 1]
        /\ server' = server
  /\ UNCHANGED <<box, tab, listening, unkilled>>

\* enqueue_input
EnqueueInput(c) ==
  /\ Reads(c, "loop", "input")
  /\ server' = [server EXCEPT ![c].input = server[c].worker # "none"]
  /\ UNCHANGED <<box, tab, listening, tally, unkilled>>

\* close, or a read after the disconnect
Close(c) ==
  /\ Reads(c, "loop", "close") \/ Reads(c, "loop", "disconnect")
  /\ server' = [server EXCEPT ![c].at = "finally"]
  /\ UNCHANGED <<box, tab, listening, tally, unkilled>>

\* input_worker, send_pty_input
WorkerTakes(c) ==
  /\ server[c].worker = "idle" /\ server[c].input /\ server[c].at # "gone"
  /\ server' = [server EXCEPT ![c].input = FALSE,
                              ![c].worker = IF server[c].pty = "registered" THEN "sending" ELSE "idle"]
  /\ UNCHANGED <<box, tab, listening, wire, tally, unkilled>>

WorkerSent(c) ==
  /\ server[c].worker = "sending"
  /\ server' = [server EXCEPT ![c].worker = "idle"]
  /\ UNCHANGED <<box, tab, listening, wire, tally, unkilled>>

\* The input is refused: the session is removed and its PTY is killed.
WorkerFails(c) ==
  /\ server[c].worker = "sending" /\ tally.errors < MaxFaults
  /\ tally' = [tally EXCEPT !.errors = @ + 1]
  /\ server' = [server EXCEPT ![c].worker = "killing", ![c].pty = "removed"]
  /\ UNCHANGED <<box, tab, listening, wire, unkilled>>

WorkerKills(c) ==
  /\ server[c].worker = "killing"
  /\ server' = [server EXCEPT ![c].worker = "idle", ![c].pty = "dead"]
  /\ UNCHANGED <<box, tab, listening, wire, tally, unkilled>>

Output(c) ==
  /\ server[c].pty = "registered" /\ server[c].at = "loop"
  /\ ~\E i \in DOMAIN wire[c].down : wire[c].down[i].type = "stdout"   \* bound: one under way
  /\ tab.session = "connecting"                                        \* bound: while it matters
  /\ wire' = [wire EXCEPT ![c].down = Append(@, Msg("stdout", NoSize))]
  /\ UNCHANGED <<box, tab, listening, server, tally, unkilled>>

\* Mutant: the session is forgotten before its PTY is killed.
StopPty_Forgets(pty) == pty

\* cleanup_pty_session, which knows the registered sessions
StopPty(pty) == IF pty = "registered" THEN "dead" ELSE pty

\* TerminalSession.stop: the worker is cancelled wherever it is, the PTY killed.
StopSession(c) ==
  /\ server[c].at = "finally"
  /\ \/ /\ server' = [server EXCEPT ![c].at = "gone", ![c].worker = "none", ![c].input = FALSE,
                                    ![c].pty = StopPty(@)]
        /\ unkilled' = IF server[c].worker = "killing" THEN unkilled \cup {c} ELSE unkilled
        /\ UNCHANGED tally
     \/ /\ tally.errors < MaxFaults /\ server[c].pty = "registered"
        /\ tally' = [tally EXCEPT !.errors = @ + 1]
        /\ server' = [server EXCEPT ![c].at = "gone", ![c].worker = "none", ![c].input = FALSE,
                                    ![c].pty = "removed"]
        /\ unkilled' = unkilled \cup {c}
  /\ wire' = IF wire[c].ws = "open" THEN [wire EXCEPT ![c].down = Append(@, Msg("closed", NoSize))]
             ELSE wire
  /\ UNCHANGED <<box, tab, listening>>

TerminalNext ==
  \/ Show \/ Hide \/ Unmount \/ SwitchSandbox \/ Fit \/ Type
  \/ \E s \in Sizes : ResizeBox(s)
  \/ \E c \in Conns :
       \/ Open(c) \/ Lose(c) \/ Receive(c) \/ CloseEvent(c)
       \/ Auth(c) \/ NoAuth(c) \/ Start(c) \/ Resize(c) \/ EnqueueInput(c) \/ Close(c)
       \/ StopSession(c) \/ WorkerTakes(c) \/ WorkerSent(c) \/ WorkerFails(c) \/ WorkerKills(c)
       \/ Output(c)

TerminalSpec == TerminalInit /\ [][TerminalNext]_terminalVars

-----------------------------------------------------------------------------
(* Properties *)

TerminalTypeOK ==
  /\ box \in Sizes /\ tab.size \in Sizes
  /\ tab.ws \in Conns \cup {NoConn} /\ listening \subseteq Conns
  /\ tab.session \in {"idle", "connecting", "ready", "error"}
  /\ \A c \in Conns :
       /\ wire[c].ws \in {"none", "connecting", "open", "closing", "closed"}
       /\ server[c].at \in {"auth", "loop", "finally", "gone"}
       /\ server[c].pty \in {"none", "registered", "removed", "dead"}
       /\ server[c].worker \in {"none", "idle", "sending", "killing"}

\* The handler reads auth, then init, then the rest: what a terminal sends comes in
\* that order, so no size and no input reaches a handler that has no session yet.
InitFirst ==
  \A c \in Conns :
    LET up == wire[c].up
    IN /\ server[c].at = "auth" /\ Len(up) >= 1 => up[1].type \in {"auth", "disconnect"}
       /\ server[c].at = "auth" /\ Len(up) >= 2 => up[2].type = "init"
       /\ server[c].at = "loop" /\ server[c].pty = "none" /\ Len(up) >= 1 => up[1].type = "init"

\* When all is read and fitted, the shell has the size of the box it is drawn in.
\* Two cases escape: a resize that failed, and one that was sent before the answer
\* to init, whose size then passes for the last one sent ("crossed").
SizeSettles ==
  \A c \in Conns :
    (/\ tab.ws = c /\ tab.visible /\ ~tab.frame /\ ~tab.crossed /\ tally.errors = 0
     /\ wire[c].up = <<>> /\ wire[c].down = <<>> /\ server[c].pty = "registered") =>
      server[c].size = box /\ tab.session = "ready"

\* The overlay goes only for a shell of the connection the tab has: the messages of
\* one it left are not taken for it.
ReadyHasShell ==
  tab.session = "ready" => tab.ws # NoConn /\ server[tab.ws].pty # "none"

\* A handler that is done leaves no shell running in the sandbox, whatever the input
\* worker was doing when it was cancelled, unless killing failed or was cut short.
NoShellLeft ==
  \A c \in Conns : server[c].at = "gone" /\ c \notin unkilled => server[c].pty \in {"none", "dead"}

\* A tab that shows no connection leaves none open for long: its server is told.
LeftIsTold ==
  \A c \in Conns : wire[c].ws = "open" /\ tab.ws # c =>
    \E i \in DOMAIN wire[c].up : wire[c].up[i].type = "disconnect"

-----------------------------------------------------------------------------
(* The strip of tabs, a state machine of its own: they are numbered, the   *)
(* lowest free number is taken, and one of them is shown.                  *)

CONSTANT MaxTabs   \* bound: tabs open at once

VARIABLES
  terminals,         \* sequence of numbers
  activeTerminalId   \* the one shown

tabsVars == <<terminals, activeTerminalId>>

TabsInit == terminals = <<1>> /\ activeTerminalId = 1

\* Mutant: the next number is the number of tabs.
nextNumber_Count(ts) == Len(ts) + 1

nextNumber(ts) == CHOOSE k \in 1 .. Len(ts) + 1 :
                    k \notin Range(ts) /\ \A j \in 1 .. k - 1 : j \in Range(ts)

addTerminal ==
  /\ Len(terminals) < MaxTabs
  /\ LET k == nextNumber(terminals)
     IN terminals' = Append(terminals, k) /\ activeTerminalId' = k

\* Mutant: the one that takes its place is not looked for.
Neighbour_None(i) == terminals[i]

\* The tab before, or the one after
Neighbour(i) == IF i > 1 THEN terminals[i - 1] ELSE terminals[i + 1]

\* The button is there while there are two.
closeTerminal(i) ==
  /\ Len(terminals) > 1
  /\ terminals' = RemoveAt(terminals, i)
  /\ activeTerminalId' = IF activeTerminalId = terminals[i] THEN Neighbour(i)
                         ELSE activeTerminalId

Select(i) == activeTerminalId' = terminals[i] /\ UNCHANGED terminals

TabsNext ==
  \/ addTerminal
  \/ \E i \in DOMAIN terminals : closeTerminal(i) \/ Select(i)

\* A number names one tab, after any history of closing and opening: two with one
\* key would share a shell.
OneTabPerNumber == \A i, j \in DOMAIN terminals : terminals[i] = terminals[j] => i = j

\* There is always a tab to see.
OneIsShown == activeTerminalId \in Range(terminals)

-----------------------------------------------------------------------------

\* The two machines side by side: a step is one of the tab modelled above, or of the strip.
TerminalsSpec ==
  /\ TerminalInit /\ TabsInit
  /\ [][ \/ TerminalNext /\ UNCHANGED tabsVars
         \/ TabsNext /\ UNCHANGED terminalVars ]_<<terminalVars, tabsVars>>

\* The terminal (useXterm.ts, TerminalTab.tsx, websocket.py): the session of a tab, its
\* size and its end; and the strip of the tabs (Container.tsx).
TerminalSound ==
  /\ TerminalTypeOK /\ InitFirst /\ SizeSettles /\ ReadyHasShell /\ NoShellLeft /\ LeftIsTold
  /\ OneTabPerNumber /\ OneIsShown
=============================================================================
