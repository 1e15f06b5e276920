--------------------------- MODULE TerminalProofs ---------------------------
(***************************************************************************)
(* The terminal keeps its promises, for any number of connections, sizes,  *)
(* tabs and faults: a handler meets what is sent to it in order, a tab     *)
(* that is ready has a shell, a handler that is done leaves none, and the  *)
(* shell comes to have the size of its box.                                *)
(*   TabInv    the tab has at most one connection that is not closed, and  *)
(*             knows whether it is open                                    *)
(*   ConnInv   what is under way on a connection, against where its        *)
(*             handler is and whether there is a shell                     *)
(*   Settling  the size the shell has once all is read is the one the tab  *)
(*             sent last, and the answer to init says the same             *)
(* The strip of tabs has an invariant of its own.                          *)
(***************************************************************************)
EXTENDS Terminal, TLAPS, WellFoundedInduction, FiniteSetTheorems

\* What is sent to the server, and what it answers
Types == {"auth", "init", "resize", "input", "close", "disconnect"}
Message == [type : Types, size : Sizes \cup {NoSize}]
Answer == [type : {"init", "stdout", "closed"}, size : Sizes \cup {NoSize}]

Wire == [ws : {"none", "connecting", "open", "closing", "closed"},
         up : Seq(Message), down : Seq(Answer)]
Handler == [at : {"auth", "loop", "finally", "gone"},
            pty : {"none", "registered", "removed", "dead"}, size : Sizes \cup {NoSize},
            worker : {"none", "idle", "sending", "killing"}, input : BOOLEAN]
Tab == [visible : BOOLEAN, isReady : BOOLEAN, ws : Conns \cup {NoConn}, hasSentInit : BOOLEAN,
        lastSent : Sizes \cup {NoSize}, session : {"idle", "connecting", "ready", "error"},
        size : Sizes, frame : BOOLEAN, answered : BOOLEAN, crossed : BOOLEAN]
Tally == [shows : Nat, resizes : Nat, errors : Nat]

TypeInv ==
  /\ box \in Sizes /\ tab \in Tab /\ listening \subseteq Conns
  /\ wire \in [Conns -> Wire] /\ server \in [Conns -> Handler] /\ tally \in Tally

-----------------------------------------------------------------------------
(* The operators of the client *)

\* A connection has a number other than none; the terminal starts with a size.
LEMMA Numbers == NoConn \notin Conns /\ Conns \subseteq Nat /\ DefaultSize \in Sizes
BY TerminalAssumption DEF NoConn, Conns, DefaultSize

\* A set of numbers that has one has a least one.
LEMMA Least ==
  ASSUME NEW S \in SUBSET Nat, S # {}
  PROVE  \E x \in S : \A y \in S : x <= y
<1> DEFINE R == {ss \in Nat \X Nat : ss[1] < ss[2]}
<1>1. IsWellFoundedOn(R, Nat)
  BY NatLessThanWellFounded DEF OpToRel
<1>2. \A x, y \in Nat : y < x => <<y, x>> \in R
  OBVIOUS
<1> HIDE DEF R
<1>3. PICK x \in S : \A y \in S : <<y, x>> \notin R
  BY <1>1, WFMin
<1>4. \A y \in S : ~(y < x)
  BY <1>2, <1>3
<1>5. QED
  BY <1>3, <1>4

\* The connection that is opened
Fresh == CHOOSE x \in Unused : \A y \in Unused : x <= y

\* The connection that is opened was never used.
LEMMA FreshIsUnused == Unused # {} => Fresh \in Conns /\ wire[Fresh].ws = "none"
<1> SUFFICES ASSUME Unused # {} PROVE Fresh \in Unused
  BY DEF Unused
<1>1. Unused \subseteq Nat
  BY Numbers DEF Unused
<1>2. \E x \in Unused : \A y \in Unused : x <= y
  BY <1>1, Least
<1>3. QED
  BY <1>2 DEF Fresh

\* One message more under way to the server
LEMMA Appended ==
  ASSUME NEW s \in Seq(Message), NEW m \in Message
  PROVE  /\ s \o <<m>> \in Seq(Message) /\ Len(s \o <<m>>) = Len(s) + 1
         /\ \A i \in 1 .. Len(s) : (s \o <<m>>)[i] = s[i]
         /\ (s \o <<m>>)[Len(s) + 1] = m
OBVIOUS

\* What is sent on a connection changes no other.
LEMMA UpwardIs ==
  ASSUME NEW w \in [Conns -> Wire], NEW c \in Conns, NEW ms \in Seq(Message)
  PROVE  /\ Upward(w, c, ms) \in [Conns -> Wire]
         /\ Upward(w, c, ms)[c].ws = w[c].ws /\ Upward(w, c, ms)[c].down = w[c].down
         /\ Upward(w, c, ms)[c].up = w[c].up \o ms
         /\ \A d \in Conns \ {c} : Upward(w, c, ms)[d] = w[d]
<1>1. w[c].up \o ms \in Seq(Message)
  BY DEF Wire
<1>2. [w[c] EXCEPT !.up = @ \o ms] \in Wire
  BY <1>1 DEF Wire
<1>3. QED
  BY <1>2 DEF Upward, Wire

\* What a message is
LEMMA MsgIs ==
  ASSUME NEW t \in Types, NEW z \in Sizes \cup {NoSize}
  PROVE  Msg(t, z) \in Message /\ <<Msg(t, z)>> \in Seq(Message)
         /\ Msg(t, z).type = t /\ Msg(t, z).size = z
BY DEF Msg, Message

\* One answer more under way to the client
LEMMA AnswerIs ==
  ASSUME NEW s \in Seq(Answer), NEW t \in {"init", "stdout", "closed"},
         NEW z \in Sizes \cup {NoSize}
  PROVE  /\ Append(s, Msg(t, z)) \in Seq(Answer) /\ Len(Append(s, Msg(t, z))) = Len(s) + 1
         /\ \A i \in 1 .. Len(s) : Append(s, Msg(t, z))[i] = s[i]
         /\ Append(s, Msg(t, z))[Len(s) + 1].type = t
         /\ Append(s, Msg(t, z))[Len(s) + 1].size = z
<1>1. Msg(t, z) \in Answer /\ Msg(t, z).type = t /\ Msg(t, z).size = z
  BY DEF Msg, Answer
<1>2. QED
  BY <1>1

\* What fitting the terminal does: it sends the size, or nothing.
Sends(t, w, s) == t.hasSentInit /\ t.ws # NoConn /\ w[t.ws].ws = "open" /\ t.lastSent # s

\* Fitting that tells the server the size
LEMMA FitSends ==
  ASSUME NEW t \in Tab, NEW w \in [Conns -> Wire], NEW s \in Sizes, Sends(t, w, s)
  PROVE  LET a == handleFit(t, w, s)[1]
             b == handleFit(t, w, s)[2]
         IN /\ a \in Tab /\ b \in [Conns -> Wire] /\ a.size = s /\ a.lastSent = s
            /\ a.visible = t.visible /\ a.isReady = t.isReady /\ a.ws = t.ws
            /\ a.hasSentInit = t.hasSentInit /\ a.session = t.session /\ a.frame = t.frame
            /\ a.answered = t.answered /\ (a.crossed <=> t.crossed \/ ~t.answered)
            /\ b[t.ws].ws = w[t.ws].ws /\ b[t.ws].down = w[t.ws].down
            /\ b[t.ws].up = w[t.ws].up \o <<Msg("resize", s)>>
            /\ \A d \in Conns \ {t.ws} : b[d] = w[d]
<1> DEFINE u == Upward(w, t.ws, <<Msg("resize", s)>>)
           sent == [t EXCEPT !.size = s, !.lastSent = s, !.crossed = @ \/ ~t.answered]
<1>1. t.ws \in Conns
  BY DEF Sends, Tab
<1>2. <<Msg("resize", s)>> \in Seq(Message)
  BY MsgIs DEF Types
<1>3. /\ u \in [Conns -> Wire] /\ u[t.ws].ws = w[t.ws].ws /\ u[t.ws].down = w[t.ws].down
      /\ u[t.ws].up = w[t.ws].up \o <<Msg("resize", s)>>
      /\ \A d \in Conns \ {t.ws} : u[d] = w[d]
  BY <1>1, <1>2, UpwardIs
<1>4. handleFit(t, w, s) = <<sent, u>>
  BY DEF handleFit, Sends
<1>5. /\ sent \in Tab /\ sent.size = s
      /\ sent.visible = t.visible /\ sent.isReady = t.isReady /\ sent.ws = t.ws
      /\ sent.hasSentInit = t.hasSentInit /\ sent.session = t.session
      /\ sent.frame = t.frame /\ sent.answered = t.answered /\ sent.lastSent = s
      /\ (sent.crossed <=> t.crossed \/ ~t.answered)
  BY DEF Tab
<1> HIDE DEF sent, u
<1>6. handleFit(t, w, s)[1] = sent /\ handleFit(t, w, s)[2] = u
  BY <1>4
<1>7. QED
  BY <1>3, <1>5, <1>6

\* Fitting that tells it nothing
LEMMA FitKeeps ==
  ASSUME NEW t \in Tab, NEW w \in [Conns -> Wire], NEW s \in Sizes, ~Sends(t, w, s)
  PROVE  LET a == handleFit(t, w, s)[1]
         IN /\ a \in Tab /\ a.size = s /\ a.lastSent = t.lastSent
            /\ a.visible = t.visible /\ a.isReady = t.isReady /\ a.ws = t.ws
            /\ a.hasSentInit = t.hasSentInit /\ a.session = t.session /\ a.frame = t.frame
            /\ a.answered = t.answered /\ a.crossed = t.crossed
            /\ handleFit(t, w, s)[2] = w
<1> DEFINE kept == [t EXCEPT !.size = s]
<1>1. handleFit(t, w, s) = <<kept, w>>
  BY DEF handleFit, Sends
<1>2. /\ kept \in Tab /\ kept.size = s
      /\ kept.visible = t.visible /\ kept.isReady = t.isReady /\ kept.ws = t.ws
      /\ kept.hasSentInit = t.hasSentInit /\ kept.session = t.session
      /\ kept.frame = t.frame /\ kept.answered = t.answered /\ kept.lastSent = t.lastSent
      /\ kept.crossed = t.crossed
  BY DEF Tab
<1> HIDE DEF kept
<1>3. handleFit(t, w, s)[1] = kept /\ handleFit(t, w, s)[2] = w
  BY <1>1
<1>4. QED
  BY <1>2, <1>3

\* Fitting keeps the types.
LEMMA FitTypes ==
  ASSUME NEW t \in Tab, NEW w \in [Conns -> Wire], NEW s \in Sizes
  PROVE  handleFit(t, w, s)[1] \in Tab /\ handleFit(t, w, s)[2] \in [Conns -> Wire]
<1>1. CASE Sends(t, w, s)
  BY <1>1, FitSends
<1>2. CASE ~Sends(t, w, s)
  BY <1>2, FitKeeps
<1>3. QED
  BY <1>1, <1>2

\* What opening a connection leaves
LEMMA ConnectedIs ==
  ASSUME NEW t \in Tab, NEW w \in [Conns -> Wire], Unused # {}
  PROVE  LET a == Connected(t, w)[1]
             b == Connected(t, w)[2]
         IN /\ a \in Tab /\ a.ws = Fresh /\ ~a.hasSentInit /\ a.lastSent = NoSize
            /\ a.session = "connecting" /\ ~a.answered /\ ~a.crossed
            /\ a.visible = t.visible /\ a.isReady = t.isReady /\ a.frame = t.frame
            /\ a.size = t.size
            /\ b \in [Conns -> Wire] /\ b[Fresh].ws = "connecting"
            /\ b[Fresh].up = w[Fresh].up /\ b[Fresh].down = w[Fresh].down
            /\ \A d \in Conns \ {Fresh} : b[d] = w[d]
<1> DEFINE a == [t EXCEPT !.ws = Fresh, !.hasSentInit = FALSE, !.lastSent = NoSize,
                         !.session = "connecting", !.answered = FALSE, !.crossed = FALSE]
           b == [w EXCEPT ![Fresh].ws = "connecting"]
<1>1. Fresh \in Conns
  BY FreshIsUnused
<1>2. Connected(t, w) = <<a, b>>
  BY DEF Connected, Fresh
<1>3. /\ a \in Tab /\ a.ws = Fresh /\ ~a.hasSentInit /\ a.lastSent = NoSize
      /\ a.session = "connecting" /\ ~a.answered /\ ~a.crossed
      /\ a.visible = t.visible /\ a.isReady = t.isReady /\ a.frame = t.frame
      /\ a.size = t.size
  BY <1>1 DEF Tab
<1>4. /\ b \in [Conns -> Wire] /\ b[Fresh].ws = "connecting"
      /\ b[Fresh].up = w[Fresh].up /\ b[Fresh].down = w[Fresh].down
      /\ \A d \in Conns \ {Fresh} : b[d] = w[d]
  BY <1>1 DEF Wire
<1>5. Connected(t, w)[1] = a /\ Connected(t, w)[2] = b
  <2> HIDE DEF a, b
  <2>1. QED
    BY <1>2
<1>6. QED
  <2> HIDE DEF a, b
  <2>1. QED
    BY <1>3, <1>4, <1>5

\* What the server is told when the tab leaves an open connection, or another
Ending(ws) == IF ws = "open" THEN <<Msg("close", NoSize), Msg("disconnect", NoSize)>>
              ELSE <<Msg("disconnect", NoSize)>>

\* The last thing said is that the client is gone.
LEMMA EndingIs ==
  ASSUME NEW ws
  PROVE  /\ Ending(ws) \in Seq(Message) /\ Len(Ending(ws)) \in {1, 2}
         /\ \A i \in 1 .. Len(Ending(ws)) : Ending(ws)[i].type \in {"close", "disconnect"}
         /\ Ending(ws)[Len(Ending(ws))].type = "disconnect"
         /\ ws # "open" => Len(Ending(ws)) = 1
<1>1. Msg("close", NoSize) \in Message /\ Msg("disconnect", NoSize) \in Message
  BY MsgIs DEF Types
<1>2. Msg("close", NoSize).type = "close" /\ Msg("disconnect", NoSize).type = "disconnect"
  BY DEF Msg
<1>3. QED
  BY <1>1, <1>2 DEF Ending

\* What leaving a connection leaves
LEMMA CleanupIs ==
  ASSUME NEW t \in Tab, NEW w \in [Conns -> Wire]
  PROVE  /\ Cleanup(t, w)[1] \in Tab /\ Cleanup(t, w)[2] \in [Conns -> Wire]
         /\ Cleanup(t, w)[1].session = "idle"
         /\ Cleanup(t, w)[1].visible = t.visible /\ Cleanup(t, w)[1].isReady = t.isReady
         /\ Cleanup(t, w)[1].frame = t.frame /\ Cleanup(t, w)[1].size = t.size
         /\ t.ws = NoConn => Cleanup(t, w)[2] = w
         /\ t.ws # NoConn =>
              /\ Cleanup(t, w)[2][t.ws].ws = "closing"
              /\ Cleanup(t, w)[2][t.ws].down = w[t.ws].down
              /\ Cleanup(t, w)[2][t.ws].up = w[t.ws].up \o Ending(w[t.ws].ws)
              /\ \A d \in Conns \ {t.ws} : Cleanup(t, w)[2][d] = w[d]
<1> DEFINE a == [t EXCEPT !.ws = NoConn, !.hasSentInit = FALSE, !.lastSent = NoSize,
                          !.session = "idle"]
           u == Upward(w, t.ws, Ending(w[t.ws].ws))
           b == IF t.ws = NoConn THEN w ELSE [u EXCEPT ![t.ws].ws = "closing"]
<1>1. /\ a \in Tab /\ a.session = "idle" /\ a.visible = t.visible /\ a.isReady = t.isReady
      /\ a.frame = t.frame /\ a.size = t.size
  BY DEF Tab
<1>2. /\ b \in [Conns -> Wire]
      /\ t.ws = NoConn => b = w
      /\ t.ws # NoConn => /\ b[t.ws].ws = "closing" /\ b[t.ws].down = w[t.ws].down
                          /\ b[t.ws].up = w[t.ws].up \o Ending(w[t.ws].ws)
                          /\ \A d \in Conns \ {t.ws} : b[d] = w[d]
  <2>1. CASE t.ws = NoConn
    BY <2>1
  <2>2. CASE t.ws # NoConn
    <3>1. t.ws \in Conns
      BY <2>2 DEF Tab
    <3>2. Ending(w[t.ws].ws) \in Seq(Message)
      BY EndingIs
    <3>3. /\ u \in [Conns -> Wire] /\ u[t.ws].down = w[t.ws].down
          /\ u[t.ws].up = w[t.ws].up \o Ending(w[t.ws].ws)
          /\ \A d \in Conns \ {t.ws} : u[d] = w[d]
      BY <3>1, <3>2, UpwardIs
    <3> HIDE DEF u
    <3>4. QED
      BY <2>2, <3>1, <3>3 DEF Wire
  <2>3. QED
    BY <2>1, <2>2
<1>3. Cleanup(t, w) = <<a, b>>
  BY DEF Cleanup, Ending
<1>4. Cleanup(t, w)[1] = a /\ Cleanup(t, w)[2] = b
  <2> HIDE DEF a, b
  <2>1. QED
    BY <1>3
<1>5. QED
  <2> HIDE DEF a, b
  <2>1. QED
    BY <1>1, <1>2, <1>4

\* A closed connection is one, and has nothing under way to the client.
LEMMA ShutIs ==
  ASSUME NEW w \in Wire
  PROVE  [w EXCEPT !.ws = "closed", !.down = <<>>] \in Wire
<1>1. <<>> \in Seq(Answer)
  OBVIOUS
<1>2. QED
  BY <1>1 DEF Wire

-----------------------------------------------------------------------------
(* Types *)

\* At first all is of its type.
LEMMA TypeInit == TerminalInit => TypeInv
<1> SUFFICES ASSUME TerminalInit PROVE TypeInv
  OBVIOUS
<1>1. tab \in Tab /\ box \in Sizes
  BY Numbers DEF TerminalInit, NewTab, Tab
<1>2. [ws |-> "none", up |-> <<>>, down |-> <<>>] \in Wire
  BY DEF Wire
<1>3. [at |-> "auth", pty |-> "none", size |-> NoSize, worker |-> "none",
       input |-> FALSE] \in Handler
  BY DEF Handler
<1>4. tally \in Tally
  BY DEF TerminalInit, Tally
<1>5. QED
  BY <1>1, <1>2, <1>3, <1>4 DEF TerminalInit, TypeInv

\* The tab after its connection is closed has none.
LEMMA ClosedIs ==
  ASSUME NEW t \in Tab, NEW failed \in BOOLEAN
  PROVE  /\ Closed(t, failed) \in Tab
         /\ Closed(t, failed).ws = NoConn /\ ~Closed(t, failed).hasSentInit
         /\ Closed(t, failed).session \in {"idle", "error"}
         /\ Closed(t, failed).visible = t.visible /\ Closed(t, failed).isReady = t.isReady
         /\ Closed(t, failed).frame = t.frame /\ Closed(t, failed).size = t.size
BY DEF Closed, Tab

\* What the tab and the connections are after an action of the tab
LEMMA TabTypes ==
  ASSUME TypeInv, Show \/ Hide \/ Unmount \/ SwitchSandbox \/ Fit \/ Type
  PROVE  TypeInv'
<1> USE DEF TypeInv
<1>1. ASSUME Show PROVE TypeInv'
  <2> DEFINE t == [tab EXCEPT !.visible = TRUE, !.isReady = TRUE, !.frame = TRUE]
  <2>1. t \in Tab
    BY DEF Tab
  <2>2. Unused # {} /\ tally' = [tally EXCEPT !.shows = @ + 1] /\ UNCHANGED <<box, server>>
    BY <1>1 DEF Show
  <2>3. \/ tab' = t /\ UNCHANGED <<wire, listening>>
        \/ /\ tab' = Connected(t, wire)[1] /\ wire' = Connected(t, wire)[2]
           /\ listening' = listening \cup {Connected(t, wire)[1].ws}
    BY <1>1 DEF Show
  <2> HIDE DEF t
  <2>4. tab' \in Tab /\ wire' \in [Conns -> Wire] /\ listening' \subseteq Conns
    <3>1. /\ Connected(t, wire)[1] \in Tab /\ Connected(t, wire)[2] \in [Conns -> Wire]
          /\ Connected(t, wire)[1].ws \in Conns
      BY <2>1, <2>2, ConnectedIs, FreshIsUnused
    <3>2. QED
      BY <2>1, <2>3, <3>1
  <2>5. QED
    BY <2>2, <2>4 DEF Tally
<1>2. ASSUME Hide PROVE TypeInv'
  <2>1. tab' \in Tab
    BY <1>2 DEF Hide, Tab
  <2>2. QED
    BY <1>2, <2>1 DEF Hide, Tally
<1>3. ASSUME Unmount PROVE TypeInv'
  <2>1. NewTab \in Tab
    BY Numbers DEF NewTab, Tab
  <2>2. Cleanup(tab, wire)[1] \in Tab /\ Cleanup(tab, wire)[2] \in [Conns -> Wire]
    BY CleanupIs
  <2>3. tab' = [NewTab EXCEPT !.session = Cleanup(tab, wire)[1].session]
    BY <1>3 DEF Unmount
  <2>4. tab' \in Tab
    BY <2>1, <2>2, <2>3 DEF Tab
  <2>5. QED
    BY <1>3, <2>2, <2>4 DEF Unmount, Left, Tally
<1>4. ASSUME SwitchSandbox PROVE TypeInv'
  <2> DEFINE q == Cleanup(tab, wire)
             r == Connected(q[1], q[2])
  <2>1. q[1] \in Tab /\ q[2] \in [Conns -> Wire]
    BY CleanupIs
  <2>2. /\ tally' = [tally EXCEPT !.shows = @ + 1] /\ UNCHANGED <<box, server>> /\ Unused # {}
        /\ tab' = r[1] /\ wire' = r[2] /\ listening' = Left(tab) \cup {r[1].ws}
    BY <1>4 DEF SwitchSandbox
  <2> HIDE DEF q
  <2>3. r[1] \in Tab /\ r[2] \in [Conns -> Wire] /\ r[1].ws \in Conns
    BY <2>1, <2>2, ConnectedIs, FreshIsUnused
  <2> HIDE DEF r
  <2>4. QED
    BY <2>2, <2>3 DEF Left, Tally
<1>5. ASSUME Fit PROVE TypeInv'
  <2>1. [tab EXCEPT !.frame = FALSE] \in Tab
    BY DEF Tab
  <2>2. tab' \in Tab /\ wire' \in [Conns -> Wire]
    BY <1>5, <2>1, FitTypes DEF Fit
  <2>3. QED
    BY <1>5, <2>2 DEF Fit
<1>6. ASSUME Type PROVE TypeInv'
  <2>1. tab.ws \in Conns /\ <<Msg("input", NoSize)>> \in Seq(Message)
    BY <1>6, MsgIs DEF Type, Tab, Types
  <2>2. wire' \in [Conns -> Wire]
    BY <1>6, <2>1, UpwardIs DEF Type
  <2>3. QED
    BY <1>6, <2>2 DEF Type
<1>7. QED
  BY <1>1, <1>2, <1>3, <1>4, <1>5, <1>6

\* The types, after what an event of a connection does
LEMMA ConnectionTypes ==
  ASSUME TypeInv, NEW c \in Conns, Open(c) \/ Lose(c) \/ Receive(c) \/ CloseEvent(c)
  PROVE  TypeInv'
<1> USE DEF TypeInv
<1>1. ASSUME Open(c) PROVE TypeInv'
  <2> DEFINE w == [wire EXCEPT ![c].ws = "open"]
             v == Upward(w, c, <<Msg("auth", NoSize)>>)
  <2>1. w \in [Conns -> Wire]
    BY DEF Wire
  <2> HIDE DEF w
  <2>2. v \in [Conns -> Wire]
    BY <2>1, MsgIs, UpwardIs DEF Types
  <2> HIDE DEF v
  <2>3. CASE c \in listening
    <3>1. PICK r : /\ r = handleFit(tab, v, box) \/ r = <<tab, v>>
                   /\ tab' = [r[1] EXCEPT !.hasSentInit = TRUE, !.lastSent = r[1].size]
                   /\ wire' = Upward(r[2], c, <<Msg("init", r[1].size)>>)
      BY <1>1, <2>3 DEF Open, w, v
    <3>2. r[1] \in Tab /\ r[2] \in [Conns -> Wire]
      <4>1. handleFit(tab, v, box)[1] \in Tab /\ handleFit(tab, v, box)[2] \in [Conns -> Wire]
        BY <2>2, FitTypes
      <4>2. QED
        BY <2>2, <3>1, <4>1
    <3>3. r[1].size \in Sizes
      BY <3>2 DEF Tab
    <3>4. <<Msg("init", r[1].size)>> \in Seq(Message)
      BY <3>3, MsgIs DEF Types
    <3>5. wire' \in [Conns -> Wire]
      BY <3>1, <3>2, <3>4, UpwardIs
    <3>6. tab' \in Tab
      BY <3>1, <3>2, <3>3 DEF Tab
    <3>7. QED
      BY <1>1, <3>5, <3>6 DEF Open
  <2>4. CASE c \notin listening
    BY <1>1, <2>1, <2>4 DEF Open, w
  <2>5. QED
    BY <2>3, <2>4
<1>2. ASSUME Lose(c) PROVE TypeInv'
  <2> DEFINE u == Upward(wire, c, <<Msg("disconnect", NoSize)>>)
  <2>1. u \in [Conns -> Wire]
    BY MsgIs, UpwardIs DEF Types
  <2>2. wire' = [u EXCEPT ![c].ws = "closed", ![c].down = <<>>]
    BY <1>2 DEF Lose
  <2> HIDE DEF u
  <2>3. [u[c] EXCEPT !.ws = "closed", !.down = <<>>] \in Wire
    BY <2>1, ShutIs
  <2>4. wire' = [u EXCEPT ![c] = [u[c] EXCEPT !.ws = "closed", !.down = <<>>]]
    BY <2>1, <2>2
  <2>5. wire' \in [Conns -> Wire]
    BY <2>1, <2>3, <2>4
  <2>6. tab' \in Tab
    BY <1>2, ClosedIs DEF Lose
  <2>7. QED
    BY <1>2, <2>5, <2>6 DEF Lose, Tally
<1>3. ASSUME Receive(c) PROVE TypeInv'
  <2> DEFINE m == Head(wire[c].down)
             w == [wire EXCEPT ![c].down = Tail(@)]
  <2>1. wire[c].down \in Seq(Answer) /\ wire[c].down # <<>>
    BY <1>3 DEF Receive, Wire
  <2>2. /\ m \in Answer /\ Tail(wire[c].down) \in Seq(Answer)
        /\ m.type \in {"init", "stdout", "closed"}
    <3>1. m \in Answer /\ Tail(wire[c].down) \in Seq(Answer)
      BY <2>1
    <3>2. QED
      BY <3>1 DEF Answer
  <2>3. w \in [Conns -> Wire]
    BY <2>2 DEF Wire
  <2>4. [w EXCEPT ![c].ws = "closed"] \in [Conns -> Wire]
    <3> HIDE DEF w
    <3>1. QED
      BY <2>3 DEF Wire
  <2>5. wire' = w \/ wire' = [w EXCEPT ![c].ws = "closed"]
    BY <1>3, <2>2 DEF Receive
  <2>6. wire' \in [Conns -> Wire]
    BY <2>3, <2>4, <2>5
  <2>7. \/ tab' = tab
        \/ tab' = [tab EXCEPT !.lastSent = m.size, !.session = "ready", !.answered = TRUE]
        \/ tab' = [tab EXCEPT !.session = IF @ = "connecting" THEN "ready" ELSE @]
        \/ tab' = Closed(tab, FALSE)
    BY <1>3, <2>2 DEF Receive
  <2>8. tab' \in Tab
    <3>1. m.size \in Sizes \cup {NoSize}
      BY <2>2 DEF Answer
    <3> HIDE DEF m
    <3>2. Closed(tab, FALSE) \in Tab
      BY ClosedIs
    <3>3. [tab EXCEPT !.lastSent = m.size, !.session = "ready", !.answered = TRUE] \in Tab
      BY <3>1 DEF Tab
    <3>4. [tab EXCEPT !.session = IF @ = "connecting" THEN "ready" ELSE @] \in Tab
      BY DEF Tab
    <3>5. QED
      BY <2>7, <3>2, <3>3, <3>4
  <2>9. QED
    BY <1>3, <2>6, <2>8 DEF Receive
<1>4. ASSUME CloseEvent(c) PROVE TypeInv'
  <2>1. tab' \in Tab
    BY <1>4, ClosedIs DEF CloseEvent
  <2>2. [wire[c] EXCEPT !.ws = "closed", !.down = <<>>] \in Wire
    BY ShutIs
  <2>3. wire' = [wire EXCEPT ![c] = [wire[c] EXCEPT !.ws = "closed", !.down = <<>>]]
    BY <1>4 DEF CloseEvent
  <2>4. wire' \in [Conns -> Wire]
    BY <2>2, <2>3
  <2>5. QED
    BY <1>4, <2>1, <2>4 DEF CloseEvent
<1>5. QED
  BY <1>1, <1>2, <1>3, <1>4

Handles(c) ==
  \/ Auth(c) \/ NoAuth(c) \/ Start(c) \/ Resize(c) \/ EnqueueInput(c) \/ Close(c)
  \/ StopSession(c) \/ WorkerTakes(c) \/ WorkerSent(c) \/ WorkerFails(c) \/ WorkerKills(c)
  \/ Output(c)

\* A handler takes the first message from what is under way.
LEMMA ReadIs ==
  ASSUME TypeInv, NEW c \in Conns, NEW at, NEW type, Reads(c, at, type)
  PROVE  /\ wire' \in [Conns -> Wire] /\ server[c].at = at
         /\ wire[c].up \in Seq(Message) /\ Len(wire[c].up) >= 1 /\ wire[c].up[1].type = type
         /\ wire'[c].up = Tail(wire[c].up) /\ wire'[c].down = wire[c].down
         /\ wire'[c].ws = wire[c].ws
         /\ \A d \in Conns \ {c} : wire'[d] = wire[d]
<1>1. wire[c].up \in Seq(Message) /\ wire[c].up # <<>> /\ wire \in [Conns -> Wire]
  BY DEF Reads, TypeInv, Wire
<1>2. Tail(wire[c].up) \in Seq(Message) /\ Head(wire[c].up) = wire[c].up[1] /\ Len(wire[c].up) >= 1
  BY <1>1
<1>3. wire' = [wire EXCEPT ![c].up = Tail(@)] /\ server[c].at = at /\ wire[c].up[1].type = type
  BY <1>2 DEF Reads
<1>4. QED
  BY <1>1, <1>2, <1>3 DEF Wire

\* The handler of c touches its own connection and its own state.
LEMMA HandlerFrame ==
  ASSUME TypeInv, NEW c \in Conns, Handles(c)
  PROVE  /\ TypeInv' /\ UNCHANGED <<box, tab, listening>>
         /\ wire'[c].ws = wire[c].ws
         /\ \A d \in Conns \ {c} : wire'[d] = wire[d] /\ server'[d] = server[d]
         /\ tally.errors = 0 \/ tally'.errors # 0
<1> USE DEF TypeInv
<1> DEFINE Goal == /\ TypeInv' /\ UNCHANGED <<box, tab, listening>>
                   /\ wire'[c].ws = wire[c].ws
                   /\ \A d \in Conns \ {c} : wire'[d] = wire[d] /\ server'[d] = server[d]
                   /\ tally.errors = 0 \/ tally'.errors # 0
<1>1. ASSUME Auth(c) PROVE Goal
  <2>1. server' \in [Conns -> Handler] /\ \A d \in Conns \ {c} : server'[d] = server[d]
    BY <1>1 DEF Auth, Handler
  <2>2. tally' \in Tally /\ (tally.errors = 0 \/ tally'.errors # 0)
    BY <1>1 DEF Auth, Tally
  <2>3. UNCHANGED <<box, tab, listening>>
    BY <1>1 DEF Auth
  <2>4. Reads(c, "auth", "auth")
    BY <1>1 DEF Auth
  <2>5. QED
    BY <2>1, <2>2, <2>3, <2>4, ReadIs
<1>2. ASSUME NoAuth(c) PROVE Goal
  <2>1. server' \in [Conns -> Handler] /\ \A d \in Conns \ {c} : server'[d] = server[d]
    BY <1>2 DEF NoAuth, Handler
  <2>2. tally' \in Tally /\ (tally.errors = 0 \/ tally'.errors # 0)
    BY <1>2 DEF NoAuth, Tally
  <2>3. UNCHANGED <<box, tab, listening>>
    BY <1>2 DEF NoAuth
  <2>4. Reads(c, "auth", "disconnect") \/ UNCHANGED wire
    BY <1>2 DEF NoAuth
  <2>5. QED
    BY <2>1, <2>2, <2>3, <2>4, ReadIs
<1>3. ASSUME Start(c) PROVE Goal
  <2> DEFINE s == Head(wire[c].up).size
  <2>1. wire[c].up \in Seq(Message) /\ wire[c].up # <<>> /\ wire[c].down \in Seq(Answer)
    BY <1>3 DEF Start, Wire
  <2>2. s \in Sizes \cup {NoSize} /\ Tail(wire[c].up) \in Seq(Message)
    <3>1. Head(wire[c].up) \in Message
      BY <2>1
    <3>2. QED
      BY <2>1, <3>1 DEF Message
  <2>3. Append(wire[c].down, Msg("init", s)) \in Seq(Answer)
    BY <2>1, <2>2, AnswerIs
  <2>4. \/ wire' = [wire EXCEPT ![c].up = Tail(@), ![c].down = Append(@, Msg("init", s))]
        \/ wire' = [wire EXCEPT ![c].up = Tail(@)]
    BY <1>3 DEF Start
  <2>5. wire' \in [Conns -> Wire] /\ wire'[c].ws = wire[c].ws
        /\ \A d \in Conns \ {c} : wire'[d] = wire[d]
    BY <2>2, <2>3, <2>4 DEF Wire
  <2>6. \/ server' = [server EXCEPT ![c].pty = "registered", ![c].size = s, ![c].worker = "idle"]
        \/ server' = [server EXCEPT ![c].at = "finally"]
    BY <1>3 DEF Start
  <2>7. server' \in [Conns -> Handler] /\ \A d \in Conns \ {c} : server'[d] = server[d]
    BY <2>2, <2>6 DEF Handler
  <2>8. tally' \in Tally /\ (tally.errors = 0 \/ tally'.errors # 0)
    BY <1>3 DEF Start, Tally
  <2>9. UNCHANGED <<box, tab, listening>>
    BY <1>3 DEF Start
  <2>10. QED
    BY <2>5, <2>7, <2>8, <2>9
<1>4. ASSUME Resize(c) PROVE Goal
  <2>1. Reads(c, "loop", "resize") /\ UNCHANGED <<box, tab, listening>>
    BY <1>4 DEF Resize
  <2>2. Head(wire[c].up).size \in Sizes \cup {NoSize}
    <3>1. Head(wire[c].up) \in Message
      BY <2>1, ReadIs
    <3>2. QED
      BY <3>1 DEF Message
  <2>3. server' \in [Conns -> Handler] /\ \A d \in Conns \ {c} : server'[d] = server[d]
    BY <1>4, <2>2 DEF Resize, Handler
  <2>4. tally' \in Tally /\ (tally.errors = 0 \/ tally'.errors # 0)
    BY <1>4 DEF Resize, Tally
  <2>5. QED
    BY <2>1, <2>3, <2>4, ReadIs
<1>5. ASSUME EnqueueInput(c) PROVE Goal
  <2>1. Reads(c, "loop", "input") /\ UNCHANGED <<box, tab, listening, tally>>
    BY <1>5 DEF EnqueueInput
  <2>2. server' \in [Conns -> Handler] /\ \A d \in Conns \ {c} : server'[d] = server[d]
    <3>1. PICK b \in BOOLEAN : server' = [server EXCEPT ![c].input = b]
      BY <1>5 DEF EnqueueInput
    <3>2. [server[c] EXCEPT !.input = b] \in Handler
      BY DEF Handler
    <3>3. QED
      BY <3>1, <3>2
  <2>3. QED
    BY <2>1, <2>2, ReadIs
<1>6. ASSUME Close(c) PROVE Goal
  <2>1. /\ Reads(c, "loop", "close") \/ Reads(c, "loop", "disconnect")
        /\ UNCHANGED <<box, tab, listening, tally>>
    BY <1>6 DEF Close
  <2>2. server' \in [Conns -> Handler] /\ \A d \in Conns \ {c} : server'[d] = server[d]
    BY <1>6 DEF Close, Handler
  <2>3. QED
    BY <2>1, <2>2, ReadIs
<1>7. ASSUME StopSession(c) PROVE Goal
  <2>1. server' \in [Conns -> Handler] /\ \A d \in Conns \ {c} : server'[d] = server[d]
    BY <1>7 DEF StopSession, StopPty, Handler
  <2>2. tally' \in Tally /\ (tally.errors = 0 \/ tally'.errors # 0)
    BY <1>7 DEF StopSession, Tally
  <2>3. Append(wire[c].down, Msg("closed", NoSize)) \in Seq(Answer)
    BY AnswerIs DEF Wire
  <2>4. wire' = [wire EXCEPT ![c].down = Append(@, Msg("closed", NoSize))] \/ wire' = wire
    BY <1>7 DEF StopSession
  <2>5. wire' \in [Conns -> Wire] /\ wire'[c].ws = wire[c].ws
        /\ \A d \in Conns \ {c} : wire'[d] = wire[d]
    BY <2>3, <2>4 DEF Wire
  <2>6. UNCHANGED <<box, tab, listening>>
    BY <1>7 DEF StopSession
  <2>7. QED
    BY <2>1, <2>2, <2>5, <2>6
<1>8. ASSUME WorkerTakes(c) \/ WorkerSent(c) \/ WorkerFails(c) \/ WorkerKills(c) PROVE Goal
  <2>1. UNCHANGED <<box, tab, listening, wire>>
    BY <1>8 DEF WorkerTakes, WorkerSent, WorkerFails, WorkerKills
  <2>2. server' \in [Conns -> Handler] /\ \A d \in Conns \ {c} : server'[d] = server[d]
    <3>1. CASE WorkerTakes(c)
      <4>1. PICK w \in {"sending", "idle"} :
              server' = [server EXCEPT ![c].input = FALSE, ![c].worker = w]
        BY <3>1 DEF WorkerTakes
      <4>2. [server[c] EXCEPT !.input = FALSE, !.worker = w] \in Handler
        BY DEF Handler
      <4>3. QED
        BY <4>1, <4>2
    <3>2. CASE WorkerSent(c)
      <4>1. server' = [server EXCEPT ![c].worker = "idle"]
        BY <3>2 DEF WorkerSent
      <4>2. [server[c] EXCEPT !.worker = "idle"] \in Handler
        BY DEF Handler
      <4>3. QED
        BY <4>1, <4>2
    <3>3. CASE WorkerFails(c)
      <4>1. server' = [server EXCEPT ![c].worker = "killing", ![c].pty = "removed"]
        BY <3>3 DEF WorkerFails
      <4>2. [server[c] EXCEPT !.worker = "killing", !.pty = "removed"] \in Handler
        BY DEF Handler
      <4>3. QED
        BY <4>1, <4>2
    <3>4. CASE WorkerKills(c)
      <4>1. server' = [server EXCEPT ![c].worker = "idle", ![c].pty = "dead"]
        BY <3>4 DEF WorkerKills
      <4>2. [server[c] EXCEPT !.worker = "idle", !.pty = "dead"] \in Handler
        BY DEF Handler
      <4>3. QED
        BY <4>1, <4>2
    <3>5. QED
      BY <1>8, <3>1, <3>2, <3>3, <3>4
  <2>3. tally' \in Tally /\ (tally.errors = 0 \/ tally'.errors # 0)
    BY <1>8 DEF WorkerTakes, WorkerSent, WorkerFails, WorkerKills, Tally
  <2>4. QED
    BY <2>1, <2>2, <2>3
<1>9. ASSUME Output(c) PROVE Goal
  <2>1. /\ UNCHANGED <<box, tab, listening, server, tally>>
        /\ wire' = [wire EXCEPT ![c].down = Append(@, Msg("stdout", NoSize))]
    BY <1>9 DEF Output
  <2>2. Append(wire[c].down, Msg("stdout", NoSize)) \in Seq(Answer)
    BY AnswerIs DEF Wire
  <2>3. wire' \in [Conns -> Wire] /\ wire'[c].ws = wire[c].ws
        /\ \A d \in Conns \ {c} : wire'[d] = wire[d]
    BY <2>1, <2>2 DEF Wire
  <2>4. QED
    BY <2>1, <2>3
<1>10. QED
  BY <1>1, <1>2, <1>3, <1>4, <1>5, <1>6, <1>7, <1>8, <1>9 DEF Handles

\* Every step keeps the types.
LEMMA TypeStep == TypeInv /\ [TerminalNext]_terminalVars => TypeInv'
<1> SUFFICES ASSUME TypeInv, [TerminalNext]_terminalVars PROVE TypeInv'
  OBVIOUS
<1>1. ASSUME NEW s \in Sizes, ResizeBox(s) PROVE TypeInv'
  <2>1. tab' \in Tab
    BY <1>1 DEF ResizeBox, TypeInv, Tab
  <2>2. QED
    BY <1>1, <2>1 DEF ResizeBox, TypeInv, Tally
<1>2. CASE UNCHANGED terminalVars
  BY <1>2 DEF terminalVars, TypeInv
<1>3. QED
  BY <1>1, <1>2, TabTypes, ConnectionTypes, HandlerFrame DEF TerminalNext, Handles

-----------------------------------------------------------------------------
(* The tab and its connection *)

\* The tab has the one connection that lives; of what it listens to the rest is closed.
OwnConnection ==
  /\ tab.ws # NoConn => tab.ws \in listening /\ wire[tab.ws].ws \in {"connecting", "open"}
  /\ \A c \in listening : c # tab.ws => wire[c].ws = "closed"
  /\ \A c \in Conns : wire[c].ws \in {"connecting", "open"} => c = tab.ws

TabState ==
  /\ ~tab.isReady => tab.ws = NoConn /\ ~tab.visible
  /\ tab.hasSentInit <=> tab.ws # NoConn /\ wire[tab.ws].ws = "open"
  /\ tab.visible /\ ~tab.frame => tab.size = box
  /\ tab.session = "ready" => tab.ws # NoConn

TabInv == TypeInv /\ OwnConnection /\ TabState

\* A connection is opened: the tab after it, and the wire w it is opened on.
Opened(w) ==
  /\ Fresh \in Conns /\ wire[Fresh].ws = "none"
  /\ tab'.ws = Fresh /\ ~tab'.hasSentInit /\ tab'.lastSent = NoSize /\ ~tab'.answered
  /\ ~tab'.crossed /\ tab'.session = "connecting"
  /\ wire'[Fresh].ws = "connecting" /\ wire'[Fresh].up = w[Fresh].up
  /\ wire'[Fresh].down = w[Fresh].down
  /\ \A d \in Conns \ {Fresh} : wire'[d] = w[d]

\* What showing the tab does
LEMMA ShowIs ==
  ASSUME TypeInv, Show
  PROVE  /\ UNCHANGED <<box, server, unkilled>> /\ tally'.errors = tally.errors
         /\ tab'.visible /\ tab'.isReady /\ tab'.frame
         /\ \/ /\ ~tab.isReady /\ Opened(wire) /\ listening' = listening \cup {Fresh}
            \/ /\ UNCHANGED <<wire, listening>>
               /\ tab' = [tab EXCEPT !.visible = TRUE, !.isReady = TRUE, !.frame = TRUE]
<1> USE DEF TypeInv
<1> DEFINE t == [tab EXCEPT !.visible = TRUE, !.isReady = TRUE, !.frame = TRUE]
<1>1. t \in Tab /\ t.visible /\ t.isReady /\ t.frame
  BY DEF Tab
<1>2. /\ Unused # {} /\ UNCHANGED <<box, server, unkilled>> /\ tally'.errors = tally.errors
      /\ \/ tab' = t /\ UNCHANGED <<wire, listening>>
         \/ /\ tab' = Connected(t, wire)[1] /\ wire' = Connected(t, wire)[2] /\ ~tab.isReady
            /\ listening' = listening \cup {Connected(t, wire)[1].ws}
  BY DEF Show, Tally
<1> HIDE DEF t
<1>3. CASE tab' = t /\ UNCHANGED <<wire, listening>>
  BY <1>1, <1>2, <1>3 DEF t
<1>4. CASE /\ tab' = Connected(t, wire)[1] /\ wire' = Connected(t, wire)[2] /\ ~tab.isReady
           /\ listening' = listening \cup {Connected(t, wire)[1].ws}
  <2> DEFINE a == Connected(t, wire)[1]
             b == Connected(t, wire)[2]
  <2>1. Fresh \in Conns /\ wire[Fresh].ws = "none"
    BY <1>2, FreshIsUnused
  <2>2. /\ a \in Tab /\ a.ws = Fresh /\ ~a.hasSentInit /\ a.lastSent = NoSize
        /\ a.session = "connecting" /\ ~a.answered /\ ~a.crossed
        /\ a.visible /\ a.isReady /\ a.frame
        /\ b \in [Conns -> Wire] /\ b[Fresh].ws = "connecting"
        /\ b[Fresh].up = wire[Fresh].up /\ b[Fresh].down = wire[Fresh].down
        /\ \A d \in Conns \ {Fresh} : b[d] = wire[d]
    BY <1>1, <1>2, ConnectedIs
  <2> HIDE DEF a, b
  <2>3. tab' = a /\ wire' = b /\ listening' = listening \cup {Fresh} /\ ~tab.isReady
    BY <1>4, <2>2 DEF a, b
  <2>4. QED
    BY <1>2, <2>1, <2>2, <2>3 DEF Opened
<1>5. QED
  BY <1>2, <1>3, <1>4

\* What leaving the connection of the tab makes of the wire v
Leaves(v) ==
  /\ v \in [Conns -> Wire]
  /\ tab.ws = NoConn => v = wire
  /\ tab.ws # NoConn => /\ v[tab.ws].ws = "closing" /\ v[tab.ws].down = wire[tab.ws].down
                        /\ v[tab.ws].up = wire[tab.ws].up \o Ending(wire[tab.ws].ws)
                        /\ \A d \in Conns \ {tab.ws} : v[d] = wire[d]

\* The cleanup tells the server of the connection the tab had.
LEMMA CleanupLeaves == TypeInv => Leaves(Cleanup(tab, wire)[2])
<1> SUFFICES ASSUME TypeInv PROVE Leaves(Cleanup(tab, wire)[2])
  OBVIOUS
<1>1. tab \in Tab /\ wire \in [Conns -> Wire]
  BY DEF TypeInv
<1>2. QED
  BY <1>1, CleanupIs DEF Leaves

\* What closing the tab does
LEMMA UnmountIs ==
  ASSUME TypeInv, Unmount
  PROVE  /\ UNCHANGED <<box, server, unkilled>> /\ tally'.errors = tally.errors
         /\ Leaves(wire') /\ listening' = listening \ {tab.ws}
         /\ tab'.ws = NoConn /\ tab'.session = "idle" /\ ~tab'.isReady /\ ~tab'.visible
         /\ ~tab'.hasSentInit
<1>1. /\ UNCHANGED <<box, server, unkilled>> /\ tally'.errors = tally.errors
      /\ wire' = Cleanup(tab, wire)[2] /\ listening' = listening \ {tab.ws}
      /\ tab' = [NewTab EXCEPT !.session = Cleanup(tab, wire)[1].session]
  BY DEF Unmount, Left, TypeInv, Tally
<1>2. Cleanup(tab, wire)[1].session = "idle"
  BY CleanupIs DEF TypeInv
<1>3. QED
  BY <1>1, <1>2, CleanupLeaves DEF NewTab

\* What changing to another sandbox does
LEMMA SwitchIs ==
  ASSUME TypeInv, SwitchSandbox
  PROVE  /\ UNCHANGED <<box, server, unkilled>> /\ tally'.errors = tally.errors
         /\ tab.isReady /\ tab'.isReady
         /\ tab'.visible = tab.visible /\ tab'.frame = tab.frame /\ tab'.size = tab.size
         /\ \E w : Leaves(w) /\ Opened(w)
         /\ listening' = (listening \ {tab.ws}) \cup {Fresh}
<1> USE DEF TypeInv
<1> DEFINE q == Cleanup(tab, wire)
           r == Connected(q[1], q[2])
<1>1. /\ q[1] \in Tab /\ q[2] \in [Conns -> Wire] /\ Leaves(q[2])
      /\ q[1].visible = tab.visible /\ q[1].isReady = tab.isReady
      /\ q[1].frame = tab.frame /\ q[1].size = tab.size
  BY CleanupIs, CleanupLeaves
<1>2. /\ tally'.errors = tally.errors /\ UNCHANGED <<box, server, unkilled>> /\ Unused # {}
      /\ tab' = r[1] /\ wire' = r[2] /\ listening' = (listening \ {tab.ws}) \cup {r[1].ws}
      /\ tab.isReady
  BY DEF SwitchSandbox, Left, Tally
<1>3. Fresh \in Conns /\ wire[Fresh].ws = "none"
  BY <1>2, FreshIsUnused
<1> HIDE DEF q
<1>4. /\ r[1].ws = Fresh /\ ~r[1].hasSentInit /\ r[1].lastSent = NoSize
      /\ r[1].session = "connecting" /\ ~r[1].answered /\ ~r[1].crossed
      /\ r[1].visible = tab.visible /\ r[1].isReady = tab.isReady /\ r[1].frame = tab.frame
      /\ r[1].size = tab.size
      /\ r[2][Fresh].ws = "connecting"
      /\ r[2][Fresh].up = q[2][Fresh].up /\ r[2][Fresh].down = q[2][Fresh].down
      /\ \A d \in Conns \ {Fresh} : r[2][d] = q[2][d]
  BY <1>1, <1>2, ConnectedIs
<1> HIDE DEF r
<1>5. Opened(q[2])
  BY <1>2, <1>3, <1>4 DEF Opened
<1>6. QED
  BY <1>1, <1>2, <1>4, <1>5

\* What handleOpen does: auth is sent, then init with the size the terminal has.
LEMMA OpenIs ==
  ASSUME TabInv, NEW c \in Conns, Open(c)
  PROVE  /\ UNCHANGED <<box, listening, server, tally, unkilled>>
         /\ c = tab.ws /\ wire[c].ws = "connecting"
         /\ tab'.ws = c /\ tab'.hasSentInit /\ tab'.lastSent = tab'.size
         /\ tab'.size \in {tab.size, box} /\ tab'.size \in Sizes
         /\ tab'.visible = tab.visible /\ tab'.isReady = tab.isReady /\ tab'.frame = tab.frame
         /\ tab'.session = tab.session /\ tab'.answered = tab.answered
         /\ tab'.crossed = tab.crossed
         /\ wire'[c].ws = "open" /\ wire'[c].down = wire[c].down
         /\ wire'[c].up = (wire[c].up \o <<Msg("auth", NoSize)>>) \o <<Msg("init", tab'.size)>>
         /\ \A d \in Conns \ {c} : wire'[d] = wire[d]
<1> USE DEF TabInv, TypeInv
<1>1. wire[c].ws = "connecting"
  BY DEF Open
<1>2. c = tab.ws /\ c \in listening /\ ~tab.hasSentInit /\ tab.ws # NoConn
  BY <1>1, Numbers DEF OwnConnection, TabState
<1> DEFINE w == [wire EXCEPT ![c].ws = "open"]
           v == Upward(w, c, <<Msg("auth", NoSize)>>)
<1>3. /\ w \in [Conns -> Wire] /\ w[c].ws = "open" /\ w[c].up = wire[c].up
      /\ w[c].down = wire[c].down /\ \A d \in Conns \ {c} : w[d] = wire[d]
  BY DEF Wire
<1> HIDE DEF w
<1>4. /\ v \in [Conns -> Wire] /\ v[c].ws = "open" /\ v[c].down = wire[c].down
      /\ v[c].up = wire[c].up \o <<Msg("auth", NoSize)>>
      /\ \A d \in Conns \ {c} : v[d] = wire[d]
  <2>1. <<Msg("auth", NoSize)>> \in Seq(Message)
    BY MsgIs DEF Types
  <2>2. /\ v \in [Conns -> Wire] /\ v[c].ws = w[c].ws /\ v[c].down = w[c].down
        /\ v[c].up = w[c].up \o <<Msg("auth", NoSize)>>
        /\ \A d \in Conns \ {c} : v[d] = w[d]
    BY ONLY c \in Conns, <1>3, <2>1, UpwardIs
  <2> HIDE DEF v
  <2>3. QED
    BY ONLY <1>3, <2>2
<1> HIDE DEF v
<1>5. PICK r : /\ r = handleFit(tab, v, box) \/ r = <<tab, v>>
               /\ tab' = [r[1] EXCEPT !.hasSentInit = TRUE, !.lastSent = r[1].size]
               /\ wire' = Upward(r[2], c, <<Msg("init", r[1].size)>>)
  BY <1>2 DEF Open, v, w
<1>6. /\ r[2] = v /\ r[1] \in Tab /\ r[1].size \in {tab.size, box} /\ r[1].ws = tab.ws
      /\ r[1].visible = tab.visible /\ r[1].isReady = tab.isReady /\ r[1].frame = tab.frame
      /\ r[1].session = tab.session /\ r[1].answered = tab.answered
      /\ r[1].crossed = tab.crossed
  <2>1. CASE r = handleFit(tab, v, box)
    <3>1. ~Sends(tab, v, box) /\ v \in [Conns -> Wire] /\ tab \in Tab /\ box \in Sizes
      BY <1>2, <1>4 DEF Sends
    <3> DEFINE a == handleFit(tab, v, box)[1]
               b == handleFit(tab, v, box)[2]
    <3>2. /\ a \in Tab /\ a.size = box /\ b = v
          /\ a.visible = tab.visible /\ a.isReady = tab.isReady /\ a.ws = tab.ws
          /\ a.session = tab.session /\ a.frame = tab.frame
          /\ a.answered = tab.answered /\ a.crossed = tab.crossed
      BY ONLY <3>1, FitKeeps
    <3>3. r[1] = a /\ r[2] = b
      BY <2>1
    <3> HIDE DEF a, b
    <3>4. QED
      BY <3>2, <3>3
  <2>2. CASE r = <<tab, v>>
    BY <2>2
  <2>3. QED
    BY <1>5, <2>1, <2>2
<1>7. /\ tab'.ws = c /\ tab'.hasSentInit /\ tab'.lastSent = tab'.size
      /\ tab'.size = r[1].size /\ r[1].size \in {tab.size, box} /\ r[1].size \in Sizes
      /\ tab'.visible = tab.visible /\ tab'.isReady = tab.isReady /\ tab'.frame = tab.frame
      /\ tab'.session = tab.session /\ tab'.answered = tab.answered
      /\ tab'.crossed = tab.crossed
  BY <1>2, <1>5, <1>6 DEF Tab
<1>8. /\ wire'[c].ws = v[c].ws /\ wire'[c].down = v[c].down
      /\ wire'[c].up = v[c].up \o <<Msg("init", r[1].size)>>
      /\ \A d \in Conns \ {c} : wire'[d] = v[d]
  <2>1. <<Msg("init", r[1].size)>> \in Seq(Message)
    BY <1>7, MsgIs DEF Types
  <2>2. wire' = Upward(v, c, <<Msg("init", r[1].size)>>)
    BY <1>5, <1>6
  <2> DEFINE ms == <<Msg("init", r[1].size)>>
             u == Upward(v, c, ms)
  <2> HIDE DEF ms
  <2>3. /\ u[c].ws = v[c].ws /\ u[c].down = v[c].down /\ u[c].up = v[c].up \o ms
        /\ \A d \in Conns \ {c} : u[d] = v[d]
    BY ONLY c \in Conns, <1>4, <2>1, UpwardIs DEF ms
  <2> HIDE DEF u
  <2>4. QED
    BY <2>2, <2>3 DEF ms, u
<1>9. QED
  BY <1>1, <1>2, <1>4, <1>7, <1>8 DEF Open

\* What the loss of a connection does: it is the one of the tab.
LEMMA LoseIs ==
  ASSUME TabInv, NEW c \in Conns, Lose(c)
  PROVE  /\ UNCHANGED <<box, listening, server, unkilled>> /\ tally'.errors # 0
         /\ c = tab.ws /\ wire[c].ws \in {"connecting", "open"}
         /\ tab'.ws = NoConn /\ ~tab'.hasSentInit /\ tab'.session \in {"idle", "error"}
         /\ tab'.visible = tab.visible /\ tab'.isReady = tab.isReady /\ tab'.frame = tab.frame
         /\ tab'.size = tab.size
         /\ wire'[c].ws = "closed" /\ wire'[c].down = <<>>
         /\ wire'[c].up = wire[c].up \o <<Msg("disconnect", NoSize)>>
         /\ \A d \in Conns \ {c} : wire'[d] = wire[d]
<1> USE DEF TabInv, TypeInv
<1>1. wire[c].ws \in {"connecting", "open"} /\ UNCHANGED <<box, listening, server, unkilled>>
      /\ tally' = [tally EXCEPT !.errors = @ + 1]
  BY DEF Lose
<1>2. c = tab.ws /\ c \in listening
  BY <1>1, Numbers DEF OwnConnection
<1>3. PICK failed \in BOOLEAN : tab' = Closed(tab, failed)
  BY <1>2 DEF Lose
<1>4. /\ tab'.ws = NoConn /\ ~tab'.hasSentInit /\ tab'.session \in {"idle", "error"}
      /\ tab'.visible = tab.visible /\ tab'.isReady = tab.isReady /\ tab'.frame = tab.frame
      /\ tab'.size = tab.size
  BY <1>3, ClosedIs
<1> DEFINE u == Upward(wire, c, <<Msg("disconnect", NoSize)>>)
<1>5. /\ u \in [Conns -> Wire] /\ u[c].up = wire[c].up \o <<Msg("disconnect", NoSize)>>
      /\ \A d \in Conns \ {c} : u[d] = wire[d]
  <2>1. <<Msg("disconnect", NoSize)>> \in Seq(Message)
    BY MsgIs DEF Types
  <2>2. QED
    BY <2>1, UpwardIs
<1>6. wire' = [u EXCEPT ![c].ws = "closed", ![c].down = <<>>]
  BY DEF Lose
<1> HIDE DEF u
<1>7. /\ wire'[c].ws = "closed" /\ wire'[c].down = <<>> /\ wire'[c].up = u[c].up
      /\ \A d \in Conns \ {c} : wire'[d] = u[d]
  BY <1>5, <1>6 DEF Wire
<1>8. tally'.errors # 0
  BY <1>1 DEF Tally
<1>9. QED
  BY <1>1, <1>2, <1>4, <1>5, <1>7, <1>8

\* What handleMessage does, by the type of the message
LEMMA ReceiveIs ==
  ASSUME TabInv, NEW c \in Conns, Receive(c)
  PROVE  /\ UNCHANGED <<box, listening, server, tally, unkilled>>
         /\ c = tab.ws /\ wire[c].ws = "open" /\ wire[c].down \in Seq(Answer)
         /\ wire[c].down # <<>> /\ tab.hasSentInit
         /\ wire'[c].down = Tail(wire[c].down) /\ wire'[c].up = wire[c].up
         /\ \A d \in Conns \ {c} : wire'[d] = wire[d]
         /\ tab'.visible = tab.visible /\ tab'.isReady = tab.isReady /\ tab'.frame = tab.frame
         /\ tab'.size = tab.size
         /\ \/ /\ wire[c].down[1].type = "init" /\ wire'[c].ws = "open"
               /\ tab'.lastSent = wire[c].down[1].size /\ tab'.session = "ready" /\ tab'.answered
               /\ tab'.ws = tab.ws /\ tab'.hasSentInit /\ tab'.crossed = tab.crossed
            \/ /\ wire[c].down[1].type = "stdout" /\ wire'[c].ws = "open"
               /\ tab'.session = IF tab.session = "connecting" THEN "ready" ELSE tab.session
               /\ tab'.ws = tab.ws /\ tab'.hasSentInit /\ tab'.crossed = tab.crossed
               /\ tab'.lastSent = tab.lastSent /\ tab'.answered = tab.answered
            \/ /\ wire[c].down[1].type = "closed" /\ wire'[c].ws = "closed"
               /\ tab'.ws = NoConn /\ ~tab'.hasSentInit /\ tab'.session \in {"idle", "error"}
<1> USE DEF TabInv, TypeInv
<1>1. wire[c].ws = "open" /\ UNCHANGED <<box, listening, server, tally, unkilled>>
      /\ wire[c].down # <<>>
  BY DEF Receive
<1>2. c = tab.ws /\ c \in listening /\ tab.hasSentInit
  BY <1>1, Numbers DEF OwnConnection, TabState
<1> DEFINE m == Head(wire[c].down)
           w == [wire EXCEPT ![c].down = Tail(@)]
<1>3. wire[c].down \in Seq(Answer)
  BY DEF Wire
<1>4. m = wire[c].down[1] /\ m \in Answer /\ Tail(wire[c].down) \in Seq(Answer)
  BY <1>1, <1>3
<1>5. /\ w \in [Conns -> Wire] /\ w[c].ws = "open" /\ w[c].down = Tail(wire[c].down)
      /\ w[c].up = wire[c].up /\ \A d \in Conns \ {c} : w[d] = wire[d]
  BY <1>1, <1>4 DEF Wire
<1>6. m.type \in {"init", "stdout", "closed"}
  BY <1>4 DEF Answer
<1>7. CASE m.type = "init"
  <2>1. /\ tab' = [tab EXCEPT !.lastSent = m.size, !.session = "ready", !.answered = TRUE]
        /\ wire' = w
    BY <1>2, <1>7 DEF Receive
  <2> HIDE DEF m, w
  <2>2. /\ tab'.lastSent = m.size /\ tab'.session = "ready" /\ tab'.answered
        /\ tab'.ws = tab.ws /\ tab'.hasSentInit /\ tab'.crossed = tab.crossed
        /\ tab'.visible = tab.visible /\ tab'.isReady = tab.isReady /\ tab'.frame = tab.frame
        /\ tab'.size = tab.size
    BY <1>2, <2>1 DEF Tab
  <2>3. QED
    BY <1>1, <1>2, <1>3, <1>4, <1>5, <1>7, <2>1, <2>2
<1>8. CASE m.type = "stdout"
  <2>1. /\ tab' = [tab EXCEPT !.session = IF @ = "connecting" THEN "ready" ELSE @]
        /\ wire' = w
    BY <1>2, <1>8 DEF Receive
  <2> HIDE DEF m, w
  <2>2. /\ tab'.session = IF tab.session = "connecting" THEN "ready" ELSE tab.session
        /\ tab'.ws = tab.ws /\ tab'.hasSentInit /\ tab'.crossed = tab.crossed
        /\ tab'.lastSent = tab.lastSent /\ tab'.answered = tab.answered
        /\ tab'.visible = tab.visible /\ tab'.isReady = tab.isReady /\ tab'.frame = tab.frame
        /\ tab'.size = tab.size
    BY <1>2, <2>1 DEF Tab
  <2>3. QED
    BY <1>1, <1>2, <1>3, <1>4, <1>5, <1>8, <2>1, <2>2
<1>9. CASE m.type = "closed"
  <2>1. tab' = Closed(tab, FALSE) /\ wire' = [w EXCEPT ![c].ws = "closed"]
    BY <1>2, <1>9 DEF Receive
  <2> HIDE DEF m, w
  <2>2. /\ wire'[c].ws = "closed" /\ wire'[c].down = w[c].down /\ wire'[c].up = w[c].up
        /\ \A d \in Conns \ {c} : wire'[d] = w[d]
    BY <1>5, <2>1 DEF Wire
  <2>3. /\ tab'.ws = NoConn /\ ~tab'.hasSentInit /\ tab'.session \in {"idle", "error"}
        /\ tab'.visible = tab.visible /\ tab'.isReady = tab.isReady /\ tab'.frame = tab.frame
        /\ tab'.size = tab.size
    BY <2>1, ClosedIs
  <2>4. QED
    BY <1>1, <1>2, <1>3, <1>4, <1>5, <1>9, <2>2, <2>3
<1>10. QED
  BY <1>6, <1>7, <1>8, <1>9

\* What the animation frame does: the terminal has the size of its box, and the server
\* hears of it unless it was told.
LEMMA FitIs ==
  ASSUME TabInv, Fit
  PROVE  /\ UNCHANGED <<box, listening, server, tally, unkilled>>
         /\ ~tab'.frame /\ tab'.size = box /\ tab'.ws = tab.ws
         /\ tab'.visible = tab.visible /\ tab'.isReady = tab.isReady
         /\ tab'.hasSentInit = tab.hasSentInit /\ tab'.session = tab.session
         /\ tab'.answered = tab.answered
         /\ \/ /\ tab.ws \in Conns /\ tab.hasSentInit /\ wire[tab.ws].ws = "open"
               /\ tab'.lastSent = box /\ (tab'.crossed <=> tab.crossed \/ ~tab.answered)
               /\ wire'[tab.ws].ws = "open" /\ wire'[tab.ws].down = wire[tab.ws].down
               /\ wire'[tab.ws].up = wire[tab.ws].up \o <<Msg("resize", box)>>
               /\ \A d \in Conns \ {tab.ws} : wire'[d] = wire[d]
            \/ /\ UNCHANGED wire /\ tab'.lastSent = tab.lastSent /\ tab'.crossed = tab.crossed
               /\ tab.hasSentInit => tab.lastSent = box
<1> USE DEF TabInv, TypeInv
<1> DEFINE t == [tab EXCEPT !.frame = FALSE]
           a == handleFit(t, wire, box)[1]
           b == handleFit(t, wire, box)[2]
<1>1. /\ t \in Tab /\ ~t.frame /\ t.ws = tab.ws /\ t.visible = tab.visible
      /\ t.isReady = tab.isReady /\ t.hasSentInit = tab.hasSentInit /\ t.session = tab.session
      /\ t.answered = tab.answered /\ t.lastSent = tab.lastSent /\ t.crossed = tab.crossed
  BY DEF Tab
<1>2. tab' = a /\ wire' = b /\ UNCHANGED <<box, listening, server, tally, unkilled>>
  BY DEF Fit
<1> HIDE DEF t
<1>3. CASE Sends(t, wire, box)
  <2>1. /\ a.size = box /\ a.lastSent = box
        /\ a.visible = t.visible /\ a.isReady = t.isReady /\ a.ws = t.ws
        /\ a.hasSentInit = t.hasSentInit /\ a.session = t.session /\ a.frame = t.frame
        /\ a.answered = t.answered /\ (a.crossed <=> t.crossed \/ ~t.answered)
        /\ b[t.ws].ws = wire[t.ws].ws /\ b[t.ws].down = wire[t.ws].down
        /\ b[t.ws].up = wire[t.ws].up \o <<Msg("resize", box)>>
        /\ \A d \in Conns \ {t.ws} : b[d] = wire[d]
    <3>1. t \in Tab /\ wire \in [Conns -> Wire] /\ box \in Sizes
      BY <1>1
    <3>2. QED
      BY ONLY <3>1, <1>3, FitSends
  <2> HIDE DEF a, b
  <2>2. tab.ws \in Conns /\ tab.hasSentInit /\ wire[tab.ws].ws = "open"
    BY <1>1, <1>3 DEF Sends, Tab
  <2>3. QED
    BY <1>1, <1>2, <2>1, <2>2
<1>4. CASE ~Sends(t, wire, box)
  <2>1. /\ a.size = box /\ a.lastSent = t.lastSent
        /\ a.visible = t.visible /\ a.isReady = t.isReady /\ a.ws = t.ws
        /\ a.hasSentInit = t.hasSentInit /\ a.session = t.session /\ a.frame = t.frame
        /\ a.answered = t.answered /\ a.crossed = t.crossed /\ b = wire
    BY <1>1, <1>4, FitKeeps
  <2> HIDE DEF a, b
  <2>2. tab.hasSentInit => tab.lastSent = box
    BY <1>1, <1>4 DEF Sends, TabState
  <2>3. QED
    BY <1>1, <1>2, <2>1, <2>2
<1>5. QED
  BY <1>3, <1>4

\* The close event of a connection the tab has left comes to nobody.
LEMMA CloseEventIs ==
  ASSUME TabInv, NEW c \in Conns, CloseEvent(c)
  PROVE  /\ UNCHANGED <<box, tab, listening, server, tally, unkilled>>
         /\ c # tab.ws /\ wire[c].ws = "closing" /\ wire'[c].ws = "closed"
         /\ wire'[c].down = <<>> /\ wire'[c].up = wire[c].up
         /\ \A d \in Conns \ {c} : wire'[d] = wire[d]
<1> USE DEF TabInv, TypeInv
<1>1. wire[c].ws = "closing" /\ UNCHANGED <<box, listening, server, tally, unkilled>>
      /\ wire' = [wire EXCEPT ![c].ws = "closed", ![c].down = <<>>]
  BY DEF CloseEvent
<1>2. c # tab.ws /\ c \notin listening
  BY <1>1, Numbers DEF OwnConnection
<1>3. tab' = tab
  BY <1>2 DEF CloseEvent
<1>4. /\ wire'[c].ws = "closed" /\ wire'[c].down = <<>> /\ wire'[c].up = wire[c].up
      /\ \A d \in Conns \ {c} : wire'[d] = wire[d]
  BY <1>1 DEF Wire
<1>5. QED
  BY <1>1, <1>2, <1>3, <1>4

\* What typing sends
LEMMA TypeIs ==
  ASSUME TypeInv, Type
  PROVE  /\ UNCHANGED <<box, tab, listening, server, tally, unkilled>>
         /\ tab.ws \in Conns /\ wire[tab.ws].ws = "open" /\ wire'[tab.ws].ws = "open"
         /\ wire'[tab.ws].down = wire[tab.ws].down
         /\ wire'[tab.ws].up = wire[tab.ws].up \o <<Msg("input", NoSize)>>
         /\ \A d \in Conns \ {tab.ws} : wire'[d] = wire[d]
<1>1. /\ UNCHANGED <<box, tab, listening, server, tally, unkilled>>
      /\ wire' = Upward(wire, tab.ws, <<Msg("input", NoSize)>>)
      /\ tab.ws \in Conns /\ wire[tab.ws].ws = "open"
  BY DEF Type, TypeInv, Tab
<1>2. <<Msg("input", NoSize)>> \in Seq(Message)
  BY MsgIs DEF Types
<1>3. wire \in [Conns -> Wire]
  BY DEF TypeInv
<1>4. /\ wire'[tab.ws].ws = wire[tab.ws].ws /\ wire'[tab.ws].down = wire[tab.ws].down
      /\ wire'[tab.ws].up = wire[tab.ws].up \o <<Msg("input", NoSize)>>
      /\ \A d \in Conns \ {tab.ws} : wire'[d] = wire[d]
  <2> DEFINE ms == <<Msg("input", NoSize)>>
             u == Upward(wire, tab.ws, ms)
  <2> HIDE DEF ms
  <2>1. /\ u[tab.ws].ws = wire[tab.ws].ws /\ u[tab.ws].down = wire[tab.ws].down
        /\ u[tab.ws].up = wire[tab.ws].up \o ms
        /\ \A d \in Conns \ {tab.ws} : u[d] = wire[d]
    BY <1>1, <1>2, <1>3, UpwardIs DEF ms
  <2>2. wire' = u
    BY <1>1 DEF ms
  <2> HIDE DEF u
  <2>3. QED
    BY <2>1, <2>2 DEF ms
<1>5. QED
  BY <1>1, <1>4

\* Hiding the tab, and a change of its box, send nothing.
LEMMA BoxOrHideIs ==
  ASSUME TypeInv, Hide \/ \E s \in Sizes : ResizeBox(s)
  PROVE  /\ UNCHANGED <<listening, wire, server, unkilled>> /\ tally'.errors = tally.errors
         /\ tab'.ws = tab.ws /\ tab'.isReady = tab.isReady /\ tab'.size = tab.size
         /\ tab'.hasSentInit = tab.hasSentInit /\ tab'.session = tab.session
         /\ tab'.answered = tab.answered /\ tab'.crossed = tab.crossed
         /\ tab'.lastSent = tab.lastSent
         /\ tab'.visible => tab.visible
         /\ tab'.visible /\ ~tab'.frame /\ tab.isReady => UNCHANGED box /\ ~tab.frame
<1>1. ASSUME Hide PROVE UNCHANGED <<box, listening, wire, server, unkilled>>
                        /\ tab' = [tab EXCEPT !.visible = FALSE, !.frame = FALSE]
                        /\ tally' = [tally EXCEPT !.shows = @ + 1]
  BY <1>1 DEF Hide
<1>2. ASSUME NEW s \in Sizes, ResizeBox(s)
      PROVE  UNCHANGED <<listening, wire, server, unkilled>>
             /\ tab' = [tab EXCEPT !.frame = @ \/ (tab.visible /\ tab.isReady)]
             /\ tally' = [tally EXCEPT !.resizes = @ + 1]
  BY <1>2 DEF ResizeBox
<1>3. CASE Hide
  BY <1>1, <1>3 DEF TypeInv, Tab, Tally
<1>4. CASE \E s \in Sizes : ResizeBox(s)
  BY <1>2, <1>4 DEF TypeInv, Tab, Tally
<1>5. QED
  BY <1>3, <1>4

-----------------------------------------------------------------------------

\* The invariant of the tab holds at first.
LEMMA TabInvInit == TerminalInit => TabInv
<1> SUFFICES ASSUME TerminalInit PROVE OwnConnection /\ TabState
  BY TypeInit DEF TabInv
<1>1. tab.ws = NoConn /\ ~tab.isReady /\ ~tab.visible /\ ~tab.hasSentInit /\ tab.session = "idle"
      /\ listening = {} /\ \A c \in Conns : wire[c].ws = "none"
  BY DEF TerminalInit, NewTab
<1>2. QED
  BY <1>1 DEF OwnConnection, TabState

\* Only the connection of the tab is ever open, after any step.
LEMMA OwnConnectionStep ==
  TabInv /\ [TerminalNext]_terminalVars => OwnConnection'
<1> SUFFICES ASSUME TabInv, [TerminalNext]_terminalVars PROVE OwnConnection'
  OBVIOUS
<1>0. TypeInv /\ OwnConnection /\ TabState /\ (tab.ws = NoConn \/ tab.ws \in Conns)
  BY DEF TabInv, TypeInv, Tab
<1> DEFINE Frame == /\ tab'.ws = tab.ws /\ listening' = listening
                    /\ \A d \in Conns : wire'[d].ws = wire[d].ws
<1>1. ASSUME Frame PROVE OwnConnection'
  BY <1>0, <1>1 DEF OwnConnection, TypeInv
<1> HIDE DEF Frame
<1>2. CASE Show
  <2>1. CASE /\ UNCHANGED <<wire, listening>>
             /\ tab' = [tab EXCEPT !.visible = TRUE, !.isReady = TRUE, !.frame = TRUE]
    BY <1>0, <1>1, <2>1 DEF Frame, TypeInv, Tab
  <2>2. CASE ~tab.isReady /\ Opened(wire) /\ listening' = listening \cup {Fresh}
    <3>1. tab.ws = NoConn
      BY <1>0, <2>2 DEF TabState
    <3>2. QED
      BY <1>0, <2>2, <3>1, Numbers DEF OwnConnection, Opened, TypeInv
  <2>3. QED
    BY <1>0, <1>2, <2>1, <2>2, ShowIs
<1>3. CASE Unmount
  <2>1. Leaves(wire') /\ listening' = listening \ {tab.ws} /\ tab'.ws = NoConn
    BY <1>0, <1>3, UnmountIs
  <2>2. QED
    BY <1>0, <2>1, Numbers DEF OwnConnection, Leaves, TypeInv
<1>4. CASE SwitchSandbox
  <2>1. PICK w : Leaves(w) /\ Opened(w)
    BY <1>0, <1>4, SwitchIs
  <2>2. listening' = (listening \ {tab.ws}) \cup {Fresh}
    BY <1>0, <1>4, SwitchIs
  <2>3. Fresh # tab.ws
    BY <1>0, <2>1, Numbers DEF OwnConnection, Opened
  <2>4. /\ \A d \in Conns : d # Fresh /\ d # tab.ws => wire'[d] = wire[d]
        /\ tab.ws # NoConn => wire'[tab.ws].ws = "closing"
    BY <1>0, <2>1, <2>3 DEF Leaves, Opened
  <2>5. /\ tab'.ws = Fresh /\ Fresh \in listening' /\ wire'[Fresh].ws = "connecting"
        /\ Fresh \in Conns /\ listening' \subseteq Conns
        /\ \A d \in listening' : d # Fresh => d \in listening /\ d # tab.ws
    BY <1>0, <2>1, <2>2 DEF Opened, TypeInv
  <2>6. \A d \in listening' : d # Fresh => wire'[d].ws = "closed"
    BY <1>0, <2>4, <2>5 DEF OwnConnection
  <2>7. \A d \in Conns : wire'[d].ws \in {"connecting", "open"} => d = Fresh
    <3> SUFFICES ASSUME NEW d \in Conns, wire'[d].ws \in {"connecting", "open"}, d # Fresh
                 PROVE  FALSE
      OBVIOUS
    <3>1. d # tab.ws
      BY <1>0, <2>4, Numbers
    <3>2. wire[d].ws \in {"connecting", "open"}
      BY <2>4, <3>1
    <3>3. QED
      BY <1>0, <3>1, <3>2 DEF OwnConnection
  <2>8. /\ tab'.ws # NoConn => /\ tab'.ws \in listening'
                              /\ wire'[tab'.ws].ws \in {"connecting", "open"}
        /\ \A d \in listening' : d # tab'.ws => wire'[d].ws = "closed"
        /\ \A d \in Conns : wire'[d].ws \in {"connecting", "open"} => d = tab'.ws
    BY <2>5, <2>6, <2>7
  <2>9. QED
    BY <2>8 DEF OwnConnection
<1>5. CASE Fit
  BY <1>0, <1>1, <1>5, FitIs DEF Frame
<1>6. CASE Type
  BY <1>0, <1>1, <1>6, TypeIs DEF Frame
<1>7. CASE Hide \/ \E s \in Sizes : ResizeBox(s)
  BY <1>0, <1>1, <1>7, BoxOrHideIs DEF Frame
<1>8. ASSUME NEW c \in Conns, Open(c) PROVE OwnConnection'
  <2>1. /\ UNCHANGED listening /\ c = tab.ws /\ tab'.ws = c /\ wire'[c].ws = "open"
        /\ \A d \in Conns \ {c} : wire'[d] = wire[d]
    BY <1>8, OpenIs
  <2>2. QED
    BY <1>0, <2>1 DEF OwnConnection, TypeInv
<1>9. ASSUME NEW c \in Conns, Lose(c) PROVE OwnConnection'
  <2>1. /\ UNCHANGED listening /\ c = tab.ws /\ tab'.ws = NoConn /\ wire'[c].ws = "closed"
        /\ \A d \in Conns \ {c} : wire'[d] = wire[d]
    BY <1>9, LoseIs
  <2>2. QED
    BY <1>0, <2>1, Numbers DEF OwnConnection, TypeInv
<1>10. ASSUME NEW c \in Conns, Receive(c) PROVE OwnConnection'
  <2>1. /\ UNCHANGED listening /\ c = tab.ws
        /\ \/ tab'.ws = tab.ws /\ wire'[c].ws = "open"
           \/ tab'.ws = NoConn /\ wire'[c].ws = "closed"
        /\ \A d \in Conns \ {c} : wire'[d] = wire[d]
    BY <1>10, ReceiveIs
  <2>2. QED
    BY <1>0, <2>1, Numbers DEF OwnConnection, TypeInv
<1>11. ASSUME NEW c \in Conns, CloseEvent(c) PROVE OwnConnection'
  <2>1. /\ UNCHANGED <<tab, listening>> /\ c # tab.ws /\ wire'[c].ws = "closed"
        /\ \A d \in Conns \ {c} : wire'[d] = wire[d]
    BY <1>11, CloseEventIs
  <2>2. QED
    BY <1>0, <2>1, Numbers DEF OwnConnection, TypeInv
<1>12. ASSUME NEW c \in Conns, Handles(c) PROVE OwnConnection'
  BY <1>0, <1>1, <1>12, HandlerFrame DEF Frame
<1>13. CASE UNCHANGED terminalVars
  BY <1>1, <1>13 DEF Frame, terminalVars
<1>14. QED
  BY <1>2, <1>3, <1>4, <1>5, <1>6, <1>7, <1>8, <1>9, <1>10, <1>11, <1>12, <1>13
     DEF TerminalNext, Handles

\* What the tab knows of its connection agrees with it after any step.
LEMMA TabStateStep ==
  TabInv /\ [TerminalNext]_terminalVars => TabState'
<1> SUFFICES ASSUME TabInv, [TerminalNext]_terminalVars PROVE TabState'
  OBVIOUS
<1>0. TypeInv /\ OwnConnection /\ TabState /\ NoConn \notin Conns
      /\ (tab.ws = NoConn \/ tab.ws \in Conns)
  BY Numbers DEF TabInv, TypeInv, Tab
<1>1. CASE Show
  <2>1. tab'.visible /\ tab'.isReady /\ tab'.frame
    BY <1>0, <1>1, ShowIs
  <2>2. CASE /\ UNCHANGED <<wire, listening>>
             /\ tab' = [tab EXCEPT !.visible = TRUE, !.isReady = TRUE, !.frame = TRUE]
    <3>1. tab'.ws = tab.ws /\ tab'.session = tab.session /\ tab'.hasSentInit = tab.hasSentInit
      BY <1>0, <2>2 DEF TypeInv, Tab
    <3>2. QED
      BY <1>0, <2>1, <2>2, <3>1 DEF TabState
  <2>3. CASE Opened(wire)
    BY <1>0, <2>1, <2>3 DEF TabState, Opened
  <2>4. QED
    BY <1>0, <1>1, <2>2, <2>3, ShowIs
<1>2. CASE Unmount
  <2>1. /\ tab'.ws = NoConn /\ tab'.session = "idle" /\ ~tab'.isReady /\ ~tab'.visible
        /\ ~tab'.hasSentInit
    BY <1>0, <1>2, UnmountIs
  <2>2. QED
    BY <2>1 DEF TabState
<1>3. CASE SwitchSandbox
  <2>1. PICK w : Leaves(w) /\ Opened(w)
    BY <1>0, <1>3, SwitchIs
  <2>2. /\ tab.isReady /\ tab'.isReady /\ UNCHANGED box
        /\ tab'.visible = tab.visible /\ tab'.frame = tab.frame /\ tab'.size = tab.size
    BY <1>0, <1>3, SwitchIs
  <2>3. QED
    BY <1>0, <2>1, <2>2 DEF TabState, Opened
<1>4. CASE Fit
  <2>1. /\ UNCHANGED box /\ tab'.size = box /\ tab'.ws = tab.ws /\ tab'.visible = tab.visible
        /\ tab'.isReady = tab.isReady /\ tab'.hasSentInit = tab.hasSentInit
        /\ tab'.session = tab.session
    BY <1>4, FitIs
  <2>2. tab.ws \in Conns => wire'[tab.ws].ws = wire[tab.ws].ws
    BY <1>4, FitIs
  <2>3. QED
    BY <1>0, <2>1, <2>2 DEF TabState
<1>5. CASE Type
  <2>1. UNCHANGED <<tab, box>> /\ wire[tab.ws].ws = "open" /\ wire'[tab.ws].ws = "open"
    BY <1>0, <1>5, TypeIs
  <2>2. QED
    BY <1>0, <2>1 DEF TabState
<1>6. CASE Hide \/ \E s \in Sizes : ResizeBox(s)
  <2>1. /\ UNCHANGED wire /\ tab'.ws = tab.ws /\ tab'.isReady = tab.isReady
        /\ tab'.size = tab.size /\ tab'.hasSentInit = tab.hasSentInit
        /\ tab'.session = tab.session /\ (tab'.visible => tab.visible)
        /\ (tab'.visible /\ ~tab'.frame /\ tab.isReady => UNCHANGED box /\ ~tab.frame)
    BY <1>0, <1>6, BoxOrHideIs
  <2>2. QED
    BY <1>0, <2>1 DEF TabState
<1>7. ASSUME NEW c \in Conns, Open(c) PROVE TabState'
  <2>1. /\ UNCHANGED box /\ c = tab.ws /\ tab'.ws = c /\ tab'.hasSentInit
        /\ wire'[c].ws = "open" /\ tab'.size \in {tab.size, box}
        /\ tab'.visible = tab.visible /\ tab'.isReady = tab.isReady /\ tab'.frame = tab.frame
        /\ tab'.session = tab.session
    BY <1>7, OpenIs
  <2>2. QED
    BY <1>0, <2>1 DEF TabState
<1>8. ASSUME NEW c \in Conns, Lose(c) PROVE TabState'
  <2>1. /\ UNCHANGED box /\ tab'.ws = NoConn /\ ~tab'.hasSentInit
        /\ tab'.visible = tab.visible /\ tab'.isReady = tab.isReady /\ tab'.frame = tab.frame
        /\ tab'.session \in {"idle", "error"} /\ tab'.size = tab.size
    BY <1>8, LoseIs
  <2>2. QED
    BY <1>0, <2>1 DEF TabState
<1>9. ASSUME NEW c \in Conns, Receive(c) PROVE TabState'
  <2>1. /\ UNCHANGED box /\ c = tab.ws
        /\ tab'.visible = tab.visible /\ tab'.isReady = tab.isReady /\ tab'.frame = tab.frame
        /\ tab'.size = tab.size
        /\ \/ tab'.ws = c /\ tab'.hasSentInit /\ wire'[c].ws = "open"
           \/ tab'.ws = NoConn /\ ~tab'.hasSentInit /\ tab'.session \in {"idle", "error"}
    BY <1>9, ReceiveIs
  <2>2. QED
    BY <1>0, <2>1 DEF TabState
<1>10. ASSUME NEW c \in Conns, CloseEvent(c) PROVE TabState'
  <2>1. UNCHANGED <<box, tab>> /\ (tab.ws \in Conns => wire'[tab.ws] = wire[tab.ws])
    BY <1>10, CloseEventIs
  <2>2. QED
    BY <1>0, <2>1 DEF TabState
<1>11. ASSUME NEW c \in Conns, Handles(c) PROVE TabState'
  <2>1. UNCHANGED <<box, tab>> /\ (tab.ws \in Conns => wire'[tab.ws].ws = wire[tab.ws].ws)
    BY <1>0, <1>11, HandlerFrame
  <2>2. QED
    BY <1>0, <2>1 DEF TabState
<1>12. CASE UNCHANGED terminalVars
  BY <1>0, <1>12 DEF TabState, terminalVars
<1>13. QED
  BY <1>1, <1>2, <1>3, <1>4, <1>5, <1>6, <1>7, <1>8, <1>9, <1>10, <1>11, <1>12
     DEF TerminalNext, Handles

\* Every step keeps the invariant of the tab.
LEMMA TabInvStep == TabInv /\ [TerminalNext]_terminalVars => TabInv'
BY TypeStep, OwnConnectionStep, TabStateStep DEF TabInv

-----------------------------------------------------------------------------
(* What is under way to the server *)

Later == {"resize", "input", "close", "disconnect"}

\* From the i-th on, messages of a session that has begun
LaterFrom(s, i) == \A j \in i .. Len(s) : s[j].type \in Later

\* What a handler that waits for auth, or for init, finds before it
BeginsWithAuth(s) == Len(s) >= 2 /\ s[1].type = "auth" /\ s[2].type = "init" /\ LaterFrom(s, 3)
BeginsWithInit(s) == Len(s) >= 1 /\ s[1].type = "init" /\ LaterFrom(s, 2)

\* The client of a connection, w, and its handler, s
InOrder(w, s) ==
  /\ w.ws \in {"none", "connecting"} => w.up = <<>> /\ s.at = "auth"
  /\ s.at = "auth" /\ w.ws = "open" => BeginsWithAuth(w.up)
  /\ s.at = "auth" /\ w.ws \in {"closing", "closed"} =>
       BeginsWithAuth(w.up) \/ (Len(w.up) = 1 /\ w.up[1].type = "disconnect")
  /\ s.at = "auth" => s.pty = "none"
  /\ s.at = "loop" /\ s.pty = "none" => BeginsWithInit(w.up)
  /\ s.at = "loop" /\ s.pty # "none" => LaterFrom(w.up, 1)

Upwards == \A c \in Conns : InOrder(wire[c], server[c])

\* Later messages, put behind what is under way on an open connection
LEMMA ExtendedInOrder ==
  ASSUME NEW w \in Wire, NEW v \in Wire, NEW s \in Handler, NEW ms \in Seq(Message),
         InOrder(w, s), w.ws = "open", v.ws \in {"open", "closing", "closed"},
         v.up = w.up \o ms, LaterFrom(ms, 1)
  PROVE  InOrder(v, s)
<1>1. /\ w.up \in Seq(Message) /\ Len(v.up) = Len(w.up) + Len(ms)
      /\ \A i \in 1 .. Len(w.up) : v.up[i] = w.up[i]
      /\ \A i \in Len(w.up) + 1 .. Len(v.up) : v.up[i] = ms[i - Len(w.up)]
  BY DEF Wire
<1>2. \A i \in Len(w.up) + 1 .. Len(v.up) : v.up[i].type \in Later
  BY <1>1 DEF LaterFrom
<1>3. ASSUME NEW k \in {1, 2, 3}, LaterFrom(w.up, k) PROVE LaterFrom(v.up, k)
  BY <1>1, <1>2, <1>3 DEF LaterFrom
<1>4. BeginsWithAuth(w.up) => BeginsWithAuth(v.up)
  BY <1>1, <1>3 DEF BeginsWithAuth
<1>5. BeginsWithInit(w.up) => BeginsWithInit(v.up)
  BY <1>1, <1>3 DEF BeginsWithInit
<1>6. QED
  BY <1>3, <1>4, <1>5 DEF InOrder

\* What is left when the first message has been read
LEMMA TailOf ==
  ASSUME NEW s \in Seq(Message), Len(s) >= 1
  PROVE  /\ Tail(s) \in Seq(Message) /\ Len(Tail(s)) = Len(s) - 1
         /\ \A i \in 1 .. Len(Tail(s)) : Tail(s)[i] = s[i + 1]
OBVIOUS

\* What follows a message of a session that has begun is of one, too.
LEMMA TailLater ==
  ASSUME NEW s \in Seq(Message), Len(s) >= 1
  PROVE  /\ LaterFrom(s, 1) \/ LaterFrom(s, 2) => LaterFrom(Tail(s), 1)
         /\ LaterFrom(s, 3) => LaterFrom(Tail(s), 2)
         /\ BeginsWithAuth(s) => BeginsWithInit(Tail(s))
<1>1. /\ Len(s) \in Nat /\ Len(Tail(s)) = Len(s) - 1
      /\ \A i \in 1 .. Len(Tail(s)) : Tail(s)[i] = s[i + 1]
  BY TailOf
<1>2. LaterFrom(s, 1) \/ LaterFrom(s, 2) => LaterFrom(Tail(s), 1)
  BY <1>1 DEF LaterFrom
<1>3. LaterFrom(s, 3) => LaterFrom(Tail(s), 2)
  BY <1>1 DEF LaterFrom
<1>4. BeginsWithAuth(s) => BeginsWithInit(Tail(s))
  BY <1>1, <1>3 DEF BeginsWithAuth, BeginsWithInit
<1>5. QED
  BY <1>2, <1>3, <1>4

\* Closing a connection keeps the order, if it says so or nothing.
LEMMA ShutInOrder ==
  ASSUME NEW w \in Wire, NEW v \in Wire, NEW s \in Handler, NEW ms \in Seq(Message),
         InOrder(w, s), w.ws = "connecting", v.ws \in {"closing", "closed"},
         v.up = w.up \o ms, Len(ms) = 1, ms[1].type = "disconnect"
  PROVE  InOrder(v, s)
<1>1. w.up = <<>> /\ s.at = "auth" /\ s.pty = "none"
  BY DEF InOrder
<1>2. Len(v.up) = 1 /\ v.up[1].type = "disconnect"
  BY <1>1
<1>3. QED
  BY <1>1, <1>2 DEF InOrder

\* What is said at the end belongs to a session that has begun.
LEMMA EndingIsLater ==
  ASSUME NEW ws
  PROVE  LaterFrom(Ending(ws), 1)
BY EndingIs DEF LaterFrom, Later

\* So does any such message alone.
LEMMA OneIsLater ==
  ASSUME NEW t \in Later, NEW z \in Sizes \cup {NoSize}
  PROVE  <<Msg(t, z)>> \in Seq(Message) /\ Len(<<Msg(t, z)>>) = 1 /\ LaterFrom(<<Msg(t, z)>>, 1)
         /\ <<Msg(t, z)>>[1].type = t
<1>1. Msg(t, z) \in Message /\ Msg(t, z).type = t
  BY MsgIs DEF Later, Types
<1>2. QED
  BY <1>1 DEF LaterFrom

\* Leaving a connection keeps the order.
LEMMA LeavesInOrder ==
  ASSUME TabInv, Upwards, NEW v, Leaves(v)
  PROVE  \A c \in Conns : InOrder(v[c], server[c])
<1> SUFFICES ASSUME NEW c \in Conns PROVE InOrder(v[c], server[c])
  OBVIOUS
<1>1. /\ wire[c] \in Wire /\ v[c] \in Wire /\ server[c] \in Handler /\ InOrder(wire[c], server[c])
      /\ (tab.ws = NoConn \/ tab.ws \in Conns)
  BY DEF TabInv, TypeInv, Leaves, Upwards, Tab
<1>2. CASE c # tab.ws
  BY <1>1, <1>2 DEF Leaves
<1>3. CASE c = tab.ws
  <2>1. /\ wire[c].ws \in {"connecting", "open"} /\ v[c].ws = "closing"
        /\ v[c].up = wire[c].up \o Ending(wire[c].ws)
    BY <1>3, Numbers DEF Leaves, TabInv, OwnConnection
  <2>2. CASE wire[c].ws = "open"
    <3>1. Ending(wire[c].ws) \in Seq(Message) /\ LaterFrom(Ending(wire[c].ws), 1)
      BY EndingIs, EndingIsLater
    <3>2. QED
      BY <1>1, <2>1, <2>2, <3>1, ExtendedInOrder
  <2>3. CASE wire[c].ws = "connecting"
    <3>1. /\ Ending(wire[c].ws) \in Seq(Message) /\ Len(Ending(wire[c].ws)) = 1
          /\ Ending(wire[c].ws)[1].type = "disconnect"
      BY <2>3, EndingIs
    <3>2. QED
      BY <1>1, <2>1, <2>3, <3>1, ShutInOrder
  <2>4. QED
    BY <2>1, <2>2, <2>3
<1>4. QED
  BY <1>2, <1>3

\* A connection that is opened has carried nothing.
LEMMA OpenedInOrder ==
  ASSUME TabInv, Upwards, NEW w, Opened(w), w[Fresh] = wire[Fresh],
         \A c \in Conns : InOrder(w[c], server[c]), UNCHANGED server
  PROVE  Upwards'
<1>1. Fresh \in Conns /\ InOrder(wire[Fresh], server[Fresh]) /\ wire[Fresh].ws = "none"
  BY DEF Opened, Upwards
<1>2. wire'[Fresh].up = <<>> /\ server[Fresh].at = "auth" /\ server[Fresh].pty = "none"
      /\ wire'[Fresh].ws = "connecting"
  BY <1>1 DEF Opened, InOrder
<1>3. InOrder(wire'[Fresh], server[Fresh])
  BY <1>2 DEF InOrder
<1>4. QED
  BY <1>3 DEF Upwards, Opened

\* What the tab does keeps the order of what is sent.
LEMMA UpwardsOfTab ==
  ASSUME TabInv, TypeInv', Upwards,
         Show \/ Hide \/ Unmount \/ SwitchSandbox \/ Fit \/ Type \/ (\E s \in Sizes : ResizeBox(s))
  PROVE  Upwards'
<1>0. TypeInv /\ \A c \in Conns : /\ wire[c] \in Wire /\ wire'[c] \in Wire /\ server[c] \in Handler
                                  /\ InOrder(wire[c], server[c])
  BY DEF TabInv, TypeInv, Upwards
<1>1. CASE Show
  BY <1>0, <1>1, ShowIs, OpenedInOrder DEF Upwards
<1>2. CASE Unmount
  BY <1>0, <1>2, UnmountIs, LeavesInOrder DEF Upwards
<1>3. CASE SwitchSandbox
  <2>1. PICK w : Leaves(w) /\ Opened(w)
    BY <1>0, <1>3, SwitchIs
  <2>2. w[Fresh] = wire[Fresh]
    BY <2>1, Numbers DEF Leaves, Opened, TabInv, OwnConnection
  <2>3. UNCHANGED server
    BY <1>0, <1>3, SwitchIs
  <2>4. QED
    BY <2>1, <2>2, <2>3, LeavesInOrder, OpenedInOrder
<1>4. CASE Fit
  <2>1. CASE UNCHANGED wire
    BY <1>4, <2>1, FitIs DEF Upwards
  <2>2. CASE wire' # wire
    <3>1. /\ tab.ws \in Conns /\ wire[tab.ws].ws = "open" /\ wire'[tab.ws].ws = "open"
          /\ wire'[tab.ws].up = wire[tab.ws].up \o <<Msg("resize", box)>>
          /\ \A d \in Conns \ {tab.ws} : wire'[d] = wire[d]
          /\ UNCHANGED server
      BY <1>4, <2>2, FitIs
    <3>2. <<Msg("resize", box)>> \in Seq(Message) /\ LaterFrom(<<Msg("resize", box)>>, 1)
      BY <1>0, OneIsLater DEF Later, TypeInv
    <3>3. InOrder(wire'[tab.ws], server[tab.ws])
      BY <1>0, <3>1, <3>2, ExtendedInOrder
    <3>4. QED
      BY <3>1, <3>3 DEF Upwards
  <2>3. QED
    BY <2>1, <2>2
<1>5. CASE Type
  <2>1. /\ tab.ws \in Conns /\ wire[tab.ws].ws = "open" /\ wire'[tab.ws].ws = "open"
        /\ wire'[tab.ws].up = wire[tab.ws].up \o <<Msg("input", NoSize)>>
        /\ \A d \in Conns \ {tab.ws} : wire'[d] = wire[d]
        /\ UNCHANGED server
    BY <1>0, <1>5, TypeIs
  <2>2. <<Msg("input", NoSize)>> \in Seq(Message) /\ LaterFrom(<<Msg("input", NoSize)>>, 1)
    BY OneIsLater DEF Later
  <2>3. InOrder(wire'[tab.ws], server[tab.ws])
    BY <1>0, <2>1, <2>2, ExtendedInOrder
  <2>4. QED
    BY <2>1, <2>3 DEF Upwards
<1>6. CASE Hide \/ \E s \in Sizes : ResizeBox(s)
  BY <1>0, <1>6, BoxOrHideIs DEF Upwards
<1>7. QED
  BY <1>1, <1>2, <1>3, <1>4, <1>5, <1>6

\* What a connection brings keeps it.
LEMMA UpwardsOfConnection ==
  ASSUME TabInv, TypeInv', Upwards, NEW c \in Conns,
         Open(c) \/ Lose(c) \/ Receive(c) \/ CloseEvent(c)
  PROVE  Upwards'
<1>0. /\ wire[c] \in Wire /\ wire'[c] \in Wire /\ server[c] \in Handler
      /\ InOrder(wire[c], server[c])
  BY DEF TabInv, TypeInv, Upwards
<1>1. UNCHANGED server /\ \A d \in Conns \ {c} : wire'[d] = wire[d]
  BY OpenIs, LoseIs, ReceiveIs, CloseEventIs
<1>2. SUFFICES InOrder(wire'[c], server[c])
  BY <1>1 DEF Upwards
<1>3. CASE Open(c)
  <2>1. /\ wire[c].ws = "connecting" /\ wire'[c].ws = "open" /\ tab'.size \in Sizes
        /\ wire'[c].up = (wire[c].up \o <<Msg("auth", NoSize)>>) \o <<Msg("init", tab'.size)>>
    BY <1>3, OpenIs
  <2>2. wire[c].up = <<>> /\ server[c].at = "auth" /\ server[c].pty = "none"
    BY <1>0, <2>1 DEF InOrder
  <2>3. /\ Msg("auth", NoSize) \in Message /\ Msg("init", tab'.size) \in Message
        /\ Msg("auth", NoSize).type = "auth" /\ Msg("init", tab'.size).type = "init"
    BY <2>1, MsgIs DEF Types
  <2>4. Len(wire'[c].up) = 2 /\ wire'[c].up[1].type = "auth" /\ wire'[c].up[2].type = "init"
    BY <2>1, <2>2, <2>3
  <2>5. BeginsWithAuth(wire'[c].up)
    BY <2>4 DEF BeginsWithAuth, LaterFrom
  <2>6. QED
    BY <2>1, <2>2, <2>5 DEF InOrder
<1>4. CASE Lose(c)
  <2>1. /\ wire[c].ws \in {"connecting", "open"} /\ wire'[c].ws = "closed"
        /\ wire'[c].up = wire[c].up \o <<Msg("disconnect", NoSize)>>
    BY <1>4, LoseIs
  <2>2. /\ <<Msg("disconnect", NoSize)>> \in Seq(Message) /\ Len(<<Msg("disconnect", NoSize)>>) = 1
        /\ LaterFrom(<<Msg("disconnect", NoSize)>>, 1)
        /\ <<Msg("disconnect", NoSize)>>[1].type = "disconnect"
    BY OneIsLater DEF Later
  <2>3. CASE wire[c].ws = "open"
    BY <1>0, <2>1, <2>2, <2>3, ExtendedInOrder
  <2>4. CASE wire[c].ws = "connecting"
    BY <1>0, <2>1, <2>2, <2>4, ShutInOrder
  <2>5. QED
    BY <2>1, <2>3, <2>4
<1>5. CASE Receive(c)
  <2>1. wire[c].ws = "open" /\ wire'[c].ws \in {"open", "closed"} /\ wire'[c].up = wire[c].up
    BY <1>5, ReceiveIs
  <2>2. QED
    BY <1>0, <2>1 DEF InOrder
<1>6. CASE CloseEvent(c)
  <2>1. wire[c].ws = "closing" /\ wire'[c].ws = "closed" /\ wire'[c].up = wire[c].up
    BY <1>6, CloseEventIs
  <2>2. QED
    BY <1>0, <2>1 DEF InOrder
<1>7. QED
  BY <1>3, <1>4, <1>5, <1>6

-----------------------------------------------------------------------------
(* The shell *)

\* The handler s; u says that its PTY could not be killed.
Shelled(s, u) ==
  /\ s.pty = "none" => s.worker = "none"
  /\ s.pty = "removed" /\ s.at # "gone" => s.worker = "killing"
  /\ s.worker = "killing" => s.pty = "removed"
  /\ s.worker # "none" => s.at # "gone"
  /\ s.at = "gone" /\ ~u => s.pty \in {"none", "dead"}

Shells == \A c \in Conns : Shelled(server[c], c \in unkilled)

\* Only a shell answers.
ShellAnswers(w, s) ==
  \A i \in 1 .. Len(w.down) : w.down[i].type \in {"init", "stdout"} => s.pty # "none"

Downwards == \A c \in Conns : ShellAnswers(wire[c], server[c])

\* What holds of a connection and its handler
Held(w, s, u) == InOrder(w, s) /\ Shelled(s, u) /\ ShellAnswers(w, s)

\* Reading an answer, or dropping all, keeps that only a shell answers.
LEMMA AnswerStays ==
  ASSUME NEW w \in Wire, NEW v \in Wire, NEW s, NEW t, ShellAnswers(w, s),
         v.down = w.down \/ v.down = <<>> \/ (w.down # <<>> /\ v.down = Tail(w.down)),
         s.pty # "none" => t.pty # "none"
  PROVE  ShellAnswers(v, t)
<1>1. w.down \in Seq(Answer)
  BY DEF Wire
<1>2. CASE v.down = w.down
  BY <1>2 DEF ShellAnswers
<1>3. CASE v.down = <<>>
  BY <1>3 DEF ShellAnswers
<1>4. CASE w.down # <<>> /\ v.down = Tail(w.down)
  <2>1. Len(v.down) = Len(w.down) - 1 /\ \A i \in 1 .. Len(v.down) : v.down[i] = w.down[i + 1]
    BY <1>1, <1>4
  <2>2. QED
    BY <1>1, <2>1 DEF ShellAnswers
<1>5. QED
  BY <1>2, <1>3, <1>4

\* So does an answer of a shell, and the message that ends the session.
LEMMA AnswerAdded ==
  ASSUME NEW w \in Wire, NEW v \in Wire, NEW s, NEW t, ShellAnswers(w, s),
         NEW ty \in {"init", "stdout", "closed"}, NEW z \in Sizes \cup {NoSize},
         v.down = Append(w.down, Msg(ty, z)),
         ty = "closed" \/ t.pty # "none",
         s.pty # "none" => t.pty # "none"
  PROVE  ShellAnswers(v, t)
<1>1. w.down \in Seq(Answer)
  BY DEF Wire
<1>2. /\ Len(v.down) = Len(w.down) + 1 /\ Len(w.down) \in Nat
      /\ \A i \in 1 .. Len(w.down) : v.down[i] = w.down[i]
      /\ v.down[Len(w.down) + 1].type = ty
  BY <1>1, AnswerIs
<1>3. QED
  BY <1>2 DEF ShellAnswers

\* A handler that reads a message of a session is past auth, and has a shell but
\* before init.
LEMMA LoopReads ==
  ASSUME TypeInv, NEW c \in Conns, InOrder(wire[c], server[c]), NEW type \in Later,
         Reads(c, "loop", type)
  PROVE  /\ server[c].pty # "none" /\ wire[c].ws \notin {"none", "connecting"}
         /\ LaterFrom(wire'[c].up, 1) /\ wire'[c].ws = wire[c].ws
<1>1. /\ server[c].at = "loop" /\ wire[c].up \in Seq(Message) /\ Len(wire[c].up) >= 1
      /\ wire[c].up[1].type = type /\ wire'[c].up = Tail(wire[c].up) /\ wire'[c].ws = wire[c].ws
  BY ReadIs
<1>2. type # "init"
  BY DEF Later
<1>3. server[c].pty # "none"
  BY <1>1, <1>2 DEF InOrder, BeginsWithInit
<1>4. LaterFrom(wire[c].up, 1) /\ wire[c].ws \notin {"none", "connecting"}
  BY <1>1, <1>3 DEF InOrder
<1>5. QED
  BY <1>1, <1>3, <1>4, TailLater

\* A handler keeps what holds of its connection and its shell; a shell that was there
\* leaves a trace.
LEMMA HandlerHeld ==
  ASSUME TypeInv, TypeInv', NEW c \in Conns, Handles(c), Held(wire[c], server[c], c \in unkilled)
  PROVE  /\ Held(wire'[c], server'[c], c \in unkilled')
         /\ server[c].pty # "none" => server'[c].pty # "none"
<1> DEFINE s == server[c]
           t == server'[c]
           w == wire[c]
           v == wire'[c]
           Goal == Held(v, t, c \in unkilled') /\ (s.pty # "none" => t.pty # "none")
<1>0. /\ s \in Handler /\ t \in Handler /\ w \in Wire /\ v \in Wire /\ server \in [Conns -> Handler]
      /\ InOrder(w, s) /\ Shelled(s, c \in unkilled) /\ ShellAnswers(w, s)
  BY DEF TypeInv, Held
<1>1. ASSUME Auth(c) PROVE Goal
  <2>1. Reads(c, "auth", "auth") /\ UNCHANGED unkilled
    BY <1>1 DEF Auth
  <2>2. /\ t.at \in {"loop", "finally"} /\ t.pty = s.pty /\ t.worker = s.worker
    BY <1>0, <1>1 DEF Auth, Handler
  <2>3. /\ s.at = "auth" /\ w.up \in Seq(Message) /\ Len(w.up) >= 1 /\ w.up[1].type = "auth"
        /\ v.up = Tail(w.up) /\ v.down = w.down /\ v.ws = w.ws
    BY <2>1, ReadIs
  <2> HIDE DEF s, t, w, v
  <2>4. s.pty = "none" /\ w.ws \notin {"none", "connecting"} /\ BeginsWithAuth(w.up)
    BY <1>0, <2>3 DEF InOrder, Wire
  <2>5. InOrder(v, t)
    BY <2>2, <2>3, <2>4, TailLater DEF InOrder
  <2>6. Shelled(t, c \in unkilled')
    BY <1>0, <2>1, <2>2, <2>3 DEF Shelled
  <2>7. QED
    BY <1>0, <2>2, <2>3, <2>5, <2>6, AnswerStays DEF Held
<1>2. ASSUME NoAuth(c) PROVE Goal
  <2>1. /\ s.at = "auth" /\ w.ws # "none" /\ UNCHANGED unkilled
        /\ Reads(c, "auth", "disconnect") \/ (UNCHANGED wire /\ w.ws # "connecting")
    BY <1>2 DEF NoAuth
  <2>2. t.at = "finally" /\ t.pty = s.pty /\ t.worker = s.worker
    BY <1>0, <1>2 DEF NoAuth, Handler
  <2>3. v.down = w.down /\ v.ws = w.ws /\ (Len(w.up) >= 1 \/ w.ws # "connecting")
    BY <2>1, ReadIs
  <2> HIDE DEF s, t, w, v
  <2>4. w.ws # "connecting"
    BY <1>0, <2>3 DEF InOrder
  <2>5. InOrder(v, t)
    BY <2>1, <2>2, <2>3, <2>4 DEF InOrder
  <2>6. Shelled(t, c \in unkilled')
    BY <1>0, <2>1, <2>2 DEF Shelled
  <2>7. QED
    BY <1>0, <2>2, <2>3, <2>5, <2>6, AnswerStays DEF Held
<1>3. ASSUME Start(c) PROVE Goal
  <2> DEFINE z == Head(wire[c].up).size
  <2>1. /\ s.at = "loop" /\ w.up # <<>> /\ Head(w.up).type = "init"
        /\ unkilled' \in {unkilled, unkilled \cup {c}}
        /\ \/ /\ server' = [server EXCEPT ![c].pty = "registered", ![c].size = z,
                                            ![c].worker = "idle"]
              /\ wire' = [wire EXCEPT ![c].up = Tail(@), ![c].down = Append(@, Msg("init", z))]
           \/ /\ server' = [server EXCEPT ![c].at = "finally"]
              /\ wire' = [wire EXCEPT ![c].up = Tail(@)]
    BY <1>3 DEF Start
  <2>2. w.up \in Seq(Message) /\ Len(w.up) >= 1 /\ w.up[1].type = "init" /\ Head(w.up) \in Message
    BY <1>0, <2>1 DEF Wire
  <2>3. z \in Sizes \cup {NoSize}
    BY <2>2 DEF Message
  <2>4. /\ v.up = Tail(w.up) /\ v.ws = w.ws
        /\ \/ /\ t.pty = "registered" /\ t.worker = "idle" /\ t.at = s.at
              /\ v.down = Append(w.down, Msg("init", z))
           \/ t.pty = s.pty /\ t.worker = s.worker /\ t.at = "finally" /\ v.down = w.down
    <3> HIDE DEF z
    <3>1. CASE server' = [server EXCEPT ![c].pty = "registered", ![c].size = z,
                                        ![c].worker = "idle"]
               /\ wire' = [wire EXCEPT ![c].up = Tail(@), ![c].down = Append(@, Msg("init", z))]
      <4>1. v.up = Tail(w.up) /\ v.ws = w.ws /\ v.down = Append(w.down, Msg("init", z))
        BY <3>1 DEF TypeInv, Wire
      <4>2. t.pty = "registered" /\ t.worker = "idle" /\ t.at = s.at
        BY <3>1 DEF TypeInv, Handler
      <4>3. QED
        BY <4>1, <4>2
    <3>2. CASE server' = [server EXCEPT ![c].at = "finally"]
               /\ wire' = [wire EXCEPT ![c].up = Tail(@)]
      <4>1. v.up = Tail(w.up) /\ v.ws = w.ws /\ v.down = w.down
        BY <3>2 DEF TypeInv, Wire
      <4>2. t.pty = s.pty /\ t.worker = s.worker /\ t.at = "finally"
        BY <3>2 DEF TypeInv, Handler
      <4>3. QED
        BY <4>1, <4>2
    <3>3. QED
      BY <2>1, <3>1, <3>2
  <2> HIDE DEF s, t, w, v, z
  <2>5. s.pty = "none" /\ w.ws \notin {"none", "connecting"} /\ LaterFrom(w.up, 2)
    BY <1>0, <2>1, <2>2 DEF InOrder, BeginsWithInit, LaterFrom, Later
  <2>6. LaterFrom(v.up, 1)
    BY <2>2, <2>4, <2>5, TailLater
  <2>7. InOrder(v, t)
    BY <2>1, <2>4, <2>5, <2>6 DEF InOrder
  <2>8. Shelled(t, c \in unkilled')
    BY <1>0, <2>1, <2>4, <2>5 DEF Shelled
  <2>9. ShellAnswers(v, t)
    <3>1. CASE t.pty = "registered" /\ v.down = Append(w.down, Msg("init", z))
      BY <1>0, <2>3, <3>1, AnswerAdded
    <3>2. CASE v.down = w.down /\ t.pty = s.pty
      BY <1>0, <3>2, AnswerStays
    <3>3. QED
      BY <2>4, <3>1, <3>2
  <2>10. QED
    BY <2>5, <2>7, <2>8, <2>9 DEF Held
<1>4. ASSUME Resize(c) \/ EnqueueInput(c) \/ Close(c) PROVE Goal
  <2>1. PICK type \in Later : Reads(c, "loop", type)
    BY <1>4 DEF Resize, EnqueueInput, Close, Later
  <2>2. /\ t.pty = s.pty /\ t.worker = s.worker /\ t.at \in {"loop", "finally"}
        /\ UNCHANGED unkilled
    <3>1. s.at = "loop"
      BY <2>1, ReadIs
    <3>2. CASE Resize(c)
      BY <1>0, <3>1, <3>2 DEF Resize, Handler
    <3>3. CASE EnqueueInput(c)
      BY <1>0, <3>1, <3>3 DEF EnqueueInput, Handler
    <3>4. CASE Close(c)
      BY <1>0, <3>1, <3>4 DEF Close, Handler
    <3>5. QED
      BY <1>4, <3>2, <3>3, <3>4
  <2>3. /\ s.pty # "none" /\ w.ws \notin {"none", "connecting"} /\ LaterFrom(v.up, 1) /\ v.ws = w.ws
    BY <1>0, <2>1, LoopReads
  <2>4. v.down = w.down /\ s.at = "loop"
    BY <2>1, ReadIs
  <2> HIDE DEF s, t, w, v
  <2>5. InOrder(v, t)
    BY <2>2, <2>3 DEF InOrder
  <2>6. Shelled(t, c \in unkilled')
    BY <1>0, <2>2, <2>4 DEF Shelled
  <2>7. QED
    BY <1>0, <2>2, <2>4, <2>5, <2>6, AnswerStays DEF Held
<1>5. ASSUME WorkerTakes(c) \/ WorkerSent(c) \/ WorkerFails(c) \/ WorkerKills(c) PROVE Goal
  <2>1. UNCHANGED <<wire, unkilled>>
    BY <1>5 DEF WorkerTakes, WorkerSent, WorkerFails, WorkerKills
  <2>2. /\ s.worker # "none" /\ t.at = s.at
        /\ \/ /\ s.worker = "idle" /\ t.pty = s.pty
              /\ (t.worker = "sending" /\ s.pty = "registered") \/ t.worker = "idle"
           \/ s.worker = "sending" /\ t.worker = "idle" /\ t.pty = s.pty
           \/ s.worker = "sending" /\ t.worker = "killing" /\ t.pty = "removed"
           \/ s.worker = "killing" /\ t.worker = "idle" /\ t.pty = "dead"
    <3>1. CASE WorkerTakes(c)
      BY <1>0, <3>1 DEF WorkerTakes, Handler
    <3>2. CASE WorkerSent(c)
      BY <1>0, <3>2 DEF WorkerSent, Handler
    <3>3. CASE WorkerFails(c)
      BY <1>0, <3>3 DEF WorkerFails, Handler
    <3>4. CASE WorkerKills(c)
      BY <1>0, <3>4 DEF WorkerKills, Handler
    <3>5. QED
      BY <1>5, <3>1, <3>2, <3>3, <3>4
  <2>3. v = w
    BY <2>1
  <2> HIDE DEF s, t, w, v
  <2>4. s.pty # "none" /\ t.pty # "none"
    BY <1>0, <2>2 DEF Shelled
  <2>5. InOrder(v, t)
    BY <1>0, <2>2, <2>3, <2>4 DEF InOrder
  <2>6. Shelled(t, c \in unkilled')
    BY <1>0, <2>1, <2>2, <2>4 DEF Shelled
  <2>7. QED
    BY <1>0, <2>3, <2>4, <2>5, <2>6, AnswerStays DEF Held
<1>6. ASSUME StopSession(c) PROVE Goal
  <2>1. /\ s.at = "finally" /\ t.at = "gone" /\ t.worker = "none"
        /\ \/ /\ t.pty = IF s.pty = "registered" THEN "dead" ELSE s.pty
              /\ unkilled' = IF s.worker = "killing" THEN unkilled \cup {c} ELSE unkilled
           \/ t.pty = "removed" /\ unkilled' = unkilled \cup {c} /\ s.pty = "registered"
    BY <1>0, <1>6 DEF StopSession, StopPty, Handler
  <2>2. /\ v.up = w.up /\ v.ws = w.ws
        /\ v.down = Append(w.down, Msg("closed", NoSize)) \/ v.down = w.down
    BY <1>6 DEF StopSession, TypeInv, Wire
  <2> HIDE DEF s, t, w, v
  <2>3. InOrder(v, t)
    BY <1>0, <2>1, <2>2 DEF InOrder
  <2>4. Shelled(t, c \in unkilled')
    BY <1>0, <2>1 DEF Shelled, Handler
  <2>5. s.pty # "none" => t.pty # "none"
    BY <2>1
  <2>6. ShellAnswers(v, t)
    <3>1. CASE v.down = Append(w.down, Msg("closed", NoSize))
      BY <1>0, <2>5, <3>1, AnswerAdded
    <3>2. CASE v.down = w.down
      BY <1>0, <2>5, <3>2, AnswerStays
    <3>3. QED
      BY <2>2, <3>1, <3>2
  <2>7. QED
    BY <2>3, <2>4, <2>5, <2>6 DEF Held
<1>7. ASSUME Output(c) PROVE Goal
  <2>1. /\ UNCHANGED <<server, unkilled>> /\ s.pty = "registered"
        /\ v.up = w.up /\ v.ws = w.ws /\ v.down = Append(w.down, Msg("stdout", NoSize))
    BY <1>7 DEF Output, TypeInv, Wire
  <2>2. t = s
    BY <2>1
  <2> HIDE DEF s, t, w, v
  <2>3. InOrder(v, t)
    BY <1>0, <2>1, <2>2 DEF InOrder
  <2>4. ShellAnswers(v, t)
    BY <1>0, <2>1, <2>2, AnswerAdded
  <2>5. QED
    BY <1>0, <2>1, <2>2, <2>3, <2>4 DEF Held
<1>8. QED
  BY <1>1, <1>2, <1>3, <1>4, <1>5, <1>6, <1>7 DEF Handles

ConnInv == Upwards /\ Shells /\ Downwards

\* What holds of the connections holds at first.
LEMMA ConnInvInit == TerminalInit => ConnInv
<1> SUFFICES ASSUME TerminalInit, NEW c \in Conns
             PROVE  Held(wire[c], server[c], c \in unkilled)
  BY DEF ConnInv, Upwards, Shells, Downwards, Held
<1>1. /\ wire[c].ws = "none" /\ wire[c].up = <<>> /\ wire[c].down = <<>>
      /\ server[c].at = "auth" /\ server[c].pty = "none" /\ server[c].worker = "none"
  BY DEF TerminalInit
<1>2. QED
  BY <1>1 DEF Held, InOrder, Shelled, ShellAnswers

\* What the tab does and what its connection brings leave the shells alone, and of
\* what is under way from them the first answer is read or all is dropped.
Quiet ==
  /\ UNCHANGED <<server, unkilled>>
  /\ \A c \in Conns : \/ wire'[c].down = wire[c].down \/ wire'[c].down = <<>>
                      \/ wire[c].down # <<>> /\ wire'[c].down = Tail(wire[c].down)

\* A step that leaves the shells alone keeps what holds of them.
LEMMA QuietHeld ==
  ASSUME TypeInv, TypeInv', ConnInv, Quiet
  PROVE  Shells' /\ Downwards'
<1>1. Shells'
  BY DEF Quiet, Shells, ConnInv
<1>2. ASSUME NEW c \in Conns PROVE ShellAnswers(wire'[c], server'[c])
  <2>1. /\ wire[c] \in Wire /\ wire'[c] \in Wire /\ server'[c] = server[c]
        /\ ShellAnswers(wire[c], server[c])
    BY DEF TypeInv, ConnInv, Downwards, Quiet
  <2>2. QED
    BY <2>1, AnswerStays DEF Quiet
<1>3. QED
  BY <1>1, <1>2 DEF Downwards

\* What the tab does, and what its connection brings, is such a step.
LEMMA ClientIsQuiet ==
  ASSUME TabInv, TypeInv',
         \/ Show \/ Hide \/ Unmount \/ SwitchSandbox \/ Fit \/ Type
         \/ \E s \in Sizes : ResizeBox(s)
         \/ \E c \in Conns : Open(c) \/ Lose(c) \/ Receive(c) \/ CloseEvent(c)
  PROVE  Quiet
<1>0. TypeInv /\ (tab.ws = NoConn \/ tab.ws \in Conns)
  BY DEF TabInv, TypeInv, Tab
<1>1. CASE Show
  BY <1>0, <1>1, ShowIs DEF Quiet, Opened
<1>2. CASE Unmount
  BY <1>0, <1>2, UnmountIs DEF Quiet, Leaves
<1>3. CASE SwitchSandbox
  <2>1. PICK w : Leaves(w) /\ Opened(w)
    BY <1>0, <1>3, SwitchIs
  <2>2. UNCHANGED <<server, unkilled>>
    BY <1>0, <1>3, SwitchIs
  <2>3. \A c \in Conns : wire'[c].down = w[c].down /\ w[c].down = wire[c].down
    BY <1>0, <2>1 DEF Leaves, Opened
  <2>4. QED
    BY <2>2, <2>3 DEF Quiet
<1>4. CASE Fit
  BY <1>4, FitIs DEF Quiet
<1>5. CASE Type
  BY <1>0, <1>5, TypeIs DEF Quiet
<1>6. CASE Hide \/ \E s \in Sizes : ResizeBox(s)
  BY <1>0, <1>6, BoxOrHideIs DEF Quiet
<1>7. ASSUME NEW c \in Conns, Open(c) \/ Lose(c) \/ Receive(c) \/ CloseEvent(c) PROVE Quiet
  <2>1. UNCHANGED <<server, unkilled>> /\ \A d \in Conns \ {c} : wire'[d] = wire[d]
    BY <1>7, OpenIs, LoseIs, ReceiveIs, CloseEventIs
  <2>2. \/ wire'[c].down = wire[c].down \/ wire'[c].down = <<>>
        \/ wire[c].down # <<>> /\ wire'[c].down = Tail(wire[c].down)
    BY <1>7, OpenIs, LoseIs, ReceiveIs, CloseEventIs
  <2>3. QED
    BY <2>1, <2>2 DEF Quiet
<1>8. QED
  BY <1>1, <1>2, <1>3, <1>4, <1>5, <1>6, <1>7

\* A handler kills no PTY of another.
LEMMA OthersKilled ==
  ASSUME NEW c \in Conns, Handles(c)
  PROVE  \A d \in Conns \ {c} : d \in unkilled' <=> d \in unkilled
<1>1. unkilled' \in {unkilled, unkilled \cup {c}}
  BY DEF Handles, Auth, NoAuth, Start, Resize, EnqueueInput, Close, StopSession, WorkerTakes,
         WorkerSent, WorkerFails, WorkerKills, Output
<1>2. QED
  BY <1>1

\* Every step keeps what holds of the connections.
LEMMA ConnInvStep ==
  TabInv /\ ConnInv /\ [TerminalNext]_terminalVars => ConnInv'
<1> SUFFICES ASSUME TabInv, ConnInv, [TerminalNext]_terminalVars PROVE ConnInv'
  OBVIOUS
<1>0. TypeInv /\ TypeInv' /\ Upwards
  BY TabInvStep DEF TabInv, ConnInv
<1>1. CASE Show \/ Hide \/ Unmount \/ SwitchSandbox \/ Fit \/ Type
           \/ (\E s \in Sizes : ResizeBox(s))
  <2>1. Quiet
    BY <1>0, <1>1, ClientIsQuiet
  <2>2. QED
    BY <1>0, <1>1, <2>1, QuietHeld, UpwardsOfTab DEF ConnInv
<1>2. ASSUME NEW c \in Conns, Open(c) \/ Lose(c) \/ Receive(c) \/ CloseEvent(c) PROVE ConnInv'
  <2>1. Quiet
    BY <1>0, <1>2, ClientIsQuiet
  <2>2. QED
    BY <1>0, <1>2, <2>1, QuietHeld, UpwardsOfConnection DEF ConnInv
<1>3. ASSUME NEW c \in Conns, Handles(c) PROVE ConnInv'
  <2>1. \A d \in Conns : Held(wire[d], server[d], d \in unkilled)
    BY DEF ConnInv, Upwards, Shells, Downwards, Held
  <2>2. Held(wire'[c], server'[c], c \in unkilled')
    BY <1>0, <1>3, <2>1, HandlerHeld
  <2>3. ASSUME NEW d \in Conns \ {c} PROVE Held(wire'[d], server'[d], d \in unkilled')
    <3>1. wire'[d] = wire[d] /\ server'[d] = server[d] /\ (d \in unkilled' <=> d \in unkilled)
      BY <1>0, <1>3, HandlerFrame, OthersKilled
    <3>2. QED
      BY <2>1, <3>1 DEF Held, Shelled
  <2>4. QED
    BY <2>2, <2>3 DEF ConnInv, Upwards, Shells, Downwards, Held
<1>4. CASE UNCHANGED terminalVars
  BY <1>4 DEF ConnInv, Upwards, Shells, Downwards, terminalVars
<1>5. QED
  BY <1>1, <1>2, <1>3, <1>4 DEF TerminalNext, Handles

-----------------------------------------------------------------------------
(* The size *)

\* The answers to init that are under way
Inits(down) == {i \in 1 .. Len(down) : down[i].type = "init"}

Answering(down) == Inits(down) # {}
AnswersOnce(down) == \A i, j \in Inits(down) : i = j
AnswersWith(down, z) == \A i \in Inits(down) : down[i].size = z

\* The size of the init that is under way to the server
InitHas(up, z) == \A i \in 1 .. Len(up) : up[i].type = "init" => up[i].size = z

\* The size the shell of the handler s has once up is read, unless a message fails
Sized(m) == m.type \in {"init", "resize"}
WillBe(up, s, z) ==
  \/ /\ \A i \in 1 .. Len(up) : ~Sized(up[i])
     /\ s.pty = "registered" => s.size = z
  \/ \E i \in 1 .. Len(up) :
       /\ Sized(up[i]) /\ up[i].size = z
       /\ \A j \in i + 1 .. Len(up) : ~Sized(up[j])

\* The tab t with its connection w and the handler s; ok says that nothing has failed.
Settled(t, w, s, ok) ==
  /\ AnswersOnce(w.down)
  /\ s.pty = "none" => ~t.answered /\ ~Answering(w.down)
  /\ t.answered => t.session = "ready" /\ ~Answering(w.down)
  /\ s.pty # "none" /\ ~t.answered => Answering(w.down)
  /\ ~t.crossed => /\ t.lastSent = t.size
                   /\ ok => WillBe(w.up, s, t.lastSent)
                   /\ AnswersWith(w.down, t.lastSent)
                   /\ ~t.answered => InitHas(w.up, t.lastSent)

Settling ==
  /\ tab.hasSentInit => Settled(tab, wire[tab.ws], server[tab.ws], tally.errors = 0)
  /\ tab.ws # NoConn /\ ~tab.hasSentInit => ~tab.answered

ReadyIsHeld == tab.session = "ready" => server[tab.ws].pty # "none"

-----------------------------------------------------------------------------
(* How the size follows what is read and sent *)

\* A message that is not about the size
LEMMA WillBeAfterOther ==
  ASSUME NEW up \in Seq(Message), NEW s, NEW t, NEW z, Len(up) >= 1, ~Sized(up[1]),
         WillBe(up, s, z), t.pty = "registered" => s.pty = "registered" /\ t.size = s.size
  PROVE  WillBe(Tail(up), t, z)
<1>1. /\ Len(up) \in Nat /\ Len(Tail(up)) = Len(up) - 1
      /\ \A i \in 1 .. Len(Tail(up)) : Tail(up)[i] = up[i + 1]
  BY TailOf
<1> DEFINE v == Tail(up)
<1> HIDE DEF v
<1>2. CASE \A i \in 1 .. Len(up) : ~Sized(up[i])
  <2>1. s.pty = "registered" => s.size = z
    BY <1>2 DEF WillBe
  <2>2. \A i \in 1 .. Len(Tail(up)) : ~Sized(Tail(up)[i])
    BY <1>1, <1>2
  <2>3. QED
    BY <2>1, <2>2 DEF WillBe
<1>3. ASSUME NEW i \in 1 .. Len(up), Sized(up[i]), up[i].size = z,
             \A j \in i + 1 .. Len(up) : ~Sized(up[j])
      PROVE  WillBe(Tail(up), t, z)
  <2>1. i # 1
    BY <1>3
  <2>2. i - 1 \in 1 .. Len(Tail(up)) /\ Tail(up)[i - 1] = up[i]
    BY <1>1, <2>1
  <2>3. \A j \in (i - 1) + 1 .. Len(Tail(up)) : ~Sized(Tail(up)[j])
    BY <1>1, <1>3, <2>1
  <2>4. QED
    BY <1>3, <2>2, <2>3 DEF WillBe
<1>4. QED
  BY <1>2, <1>3 DEF WillBe

\* A message about the size, which the shell takes if it is there
LEMMA WillBeAfterSize ==
  ASSUME NEW up \in Seq(Message), NEW s, NEW t, NEW z, Len(up) >= 1, Sized(up[1]),
         WillBe(up, s, z), t.pty = "registered" => t.size = up[1].size
  PROVE  WillBe(Tail(up), t, z)
<1>1. /\ Len(up) \in Nat /\ Len(Tail(up)) = Len(up) - 1
      /\ \A i \in 1 .. Len(Tail(up)) : Tail(up)[i] = up[i + 1]
  BY TailOf
<1>2. PICK i \in 1 .. Len(up) : /\ Sized(up[i]) /\ up[i].size = z
                                /\ \A j \in i + 1 .. Len(up) : ~Sized(up[j])
  BY <1>1 DEF WillBe
<1>3. CASE i = 1
  <2>1. \A j \in 1 .. Len(Tail(up)) : ~Sized(Tail(up)[j])
    BY <1>1, <1>2, <1>3
  <2>2. QED
    BY <1>2, <1>3, <2>1 DEF WillBe
<1>4. CASE i # 1
  <2>1. i - 1 \in 1 .. Len(Tail(up)) /\ Tail(up)[i - 1] = up[i]
    BY <1>1, <1>4
  <2>2. \A j \in (i - 1) + 1 .. Len(Tail(up)) : ~Sized(Tail(up)[j])
    <3>1. ASSUME NEW j \in (i - 1) + 1 .. Len(Tail(up)) PROVE ~Sized(Tail(up)[j])
      <4>1. j \in 1 .. Len(Tail(up)) /\ j + 1 \in i + 1 .. Len(up)
        BY <1>1
      <4>2. QED
        BY <1>1, <1>2, <4>1
    <3>2. QED
      BY <3>1
  <2>3. QED
    BY <1>2, <2>1, <2>2 DEF WillBe
<1>5. QED
  BY <1>3, <1>4

\* The size to come stays if nothing is read and the shell keeps its own.
LEMMA WillBeStays ==
  ASSUME NEW up, NEW s, NEW t, NEW z, WillBe(up, s, z),
         t.pty = "registered" => s.pty = "registered" /\ t.size = s.size
  PROVE  WillBe(up, t, z)
BY DEF WillBe

\* It stays if a message is sent that is not about the size.
LEMMA WillBeTyped ==
  ASSUME NEW up \in Seq(Message), NEW m \in Message, NEW s, NEW z, WillBe(up, s, z), ~Sized(m)
  PROVE  WillBe(up \o <<m>>, s, z)
<1>1. /\ Len(up) \in Nat /\ Len(up \o <<m>>) = Len(up) + 1
      /\ \A i \in 1 .. Len(up) : (up \o <<m>>)[i] = up[i]
      /\ (up \o <<m>>)[Len(up) + 1] = m
  BY Appended
<1>2. \A i \in 1 .. Len(up \o <<m>>) : i \in 1 .. Len(up) \/ i = Len(up) + 1
  BY <1>1
<1>3. CASE \A i \in 1 .. Len(up) : ~Sized(up[i])
  <2>1. \A i \in 1 .. Len(up \o <<m>>) : ~Sized((up \o <<m>>)[i])
    BY <1>1, <1>2, <1>3
  <2>2. s.pty = "registered" => s.size = z
    BY <1>3 DEF WillBe
  <2>3. QED
    BY <2>1, <2>2 DEF WillBe
<1>4. ASSUME NEW i \in 1 .. Len(up), Sized(up[i]), up[i].size = z,
             \A j \in i + 1 .. Len(up) : ~Sized(up[j])
      PROVE  WillBe(up \o <<m>>, s, z)
  <2>1. i \in 1 .. Len(up \o <<m>>) /\ (up \o <<m>>)[i] = up[i]
    BY <1>1
  <2>2. \A j \in i + 1 .. Len(up \o <<m>>) : ~Sized((up \o <<m>>)[j])
    BY <1>1, <1>4
  <2>3. QED
    BY <1>4, <2>1, <2>2 DEF WillBe
<1>5. QED
  BY <1>3, <1>4 DEF WillBe

\* It is the one that is sent, if one is sent.
LEMMA WillBeSent ==
  ASSUME NEW up \in Seq(Message), NEW m \in Message, NEW s, NEW z, Sized(m), m.size = z
  PROVE  WillBe(up \o <<m>>, s, z)
<1>1. /\ Len(up) \in Nat /\ Len(up \o <<m>>) = Len(up) + 1
      /\ (up \o <<m>>)[Len(up) + 1] = m
  BY Appended
<1>2. Len(up) + 1 \in 1 .. Len(up \o <<m>>)
  BY <1>1
<1>3. \A j \in (Len(up) + 1) + 1 .. Len(up \o <<m>>) : FALSE
  BY <1>1
<1>4. QED
  BY <1>1, <1>2, <1>3 DEF WillBe

\* Reading a message leaves the init that is under way.
LEMMA InitAfter ==
  ASSUME NEW up \in Seq(Message), NEW z, Len(up) >= 1, InitHas(up, z)
  PROVE  InitHas(Tail(up), z)
<1>1. /\ Len(up) \in Nat /\ Len(Tail(up)) = Len(up) - 1
      /\ \A i \in 1 .. Len(Tail(up)) : Tail(up)[i] = up[i + 1]
  BY TailOf
<1>2. QED
  BY <1>1 DEF InitHas

\* Sending one that is not init leaves it.
LEMMA InitTyped ==
  ASSUME NEW up \in Seq(Message), NEW m \in Message, NEW z, InitHas(up, z), m.type # "init"
  PROVE  InitHas(up \o <<m>>, z)
<1>1. /\ Len(up) \in Nat /\ Len(up \o <<m>>) = Len(up) + 1
      /\ \A i \in 1 .. Len(up) : (up \o <<m>>)[i] = up[i]
      /\ (up \o <<m>>)[Len(up) + 1] = m
  BY Appended
<1>2. \A i \in 1 .. Len(up \o <<m>>) : i \in 1 .. Len(up) \/ i = Len(up) + 1
  BY <1>1
<1>3. QED
  BY <1>1, <1>2 DEF InitHas

\* An answer that is not to init is put behind the rest.
LEMMA AnswersAfterOther ==
  ASSUME NEW down \in Seq(Answer), NEW ty \in {"stdout", "closed"}, NEW v,
         v = Append(down, Msg(ty, NoSize))
  PROVE  Inits(v) = Inits(down) /\ \A i \in Inits(down) : v[i] = down[i]
<1>1. /\ Len(v) = Len(down) + 1 /\ Len(down) \in Nat
      /\ \A i \in 1 .. Len(down) : v[i] = down[i]
      /\ v[Len(down) + 1].type = ty
  BY AnswerIs
<1>2. \A i \in 1 .. Len(v) : i \in 1 .. Len(down) \/ i = Len(down) + 1
  BY <1>1
<1>3. QED
  BY <1>1, <1>2 DEF Inits

\* The answer to init is put behind what is no answer to init.
LEMMA AnswersAfterInit ==
  ASSUME NEW down \in Seq(Answer), NEW z \in Sizes \cup {NoSize}, NEW v,
         v = Append(down, Msg("init", z)), ~Answering(down)
  PROVE  Answering(v) /\ AnswersOnce(v) /\ AnswersWith(v, z)
<1>1. /\ Len(v) = Len(down) + 1 /\ Len(down) \in Nat
      /\ \A i \in 1 .. Len(down) : v[i] = down[i]
      /\ v[Len(down) + 1].type = "init" /\ v[Len(down) + 1].size = z
  BY AnswerIs
<1>2. \A i \in 1 .. Len(v) : i \in 1 .. Len(down) \/ i = Len(down) + 1
  BY <1>1
<1>3. Inits(v) = {Len(down) + 1}
  BY <1>1, <1>2 DEF Inits, Answering
<1>4. QED
  BY <1>1, <1>3 DEF Answering, AnswersOnce, AnswersWith

\* The first answer is read.
LEMMA AnswersRead ==
  ASSUME NEW down \in Seq(Answer), NEW z, down # <<>>, AnswersOnce(down)
  PROVE  /\ AnswersOnce(Tail(down))
         /\ AnswersWith(down, z) => AnswersWith(Tail(down), z)
         /\ down[1].type = "init" => /\ ~Answering(Tail(down)) /\ Answering(down)
                                     /\ AnswersWith(down, z) => down[1].size = z
         /\ down[1].type # "init" => (Answering(Tail(down)) <=> Answering(down))
<1>1. /\ Len(down) \in Nat /\ Len(down) >= 1 /\ Len(Tail(down)) = Len(down) - 1
      /\ \A i \in 1 .. Len(Tail(down)) : Tail(down)[i] = down[i + 1]
  OBVIOUS
<1>2. \A i \in Inits(Tail(down)) : i \in Nat /\ i + 1 \in Inits(down) /\ Tail(down)[i] = down[i + 1]
  BY <1>1 DEF Inits
<1>3. \A i \in Inits(down) : i = 1 \/ i - 1 \in Inits(Tail(down))
  BY <1>1 DEF Inits
<1>4. down[1].type = "init" <=> 1 \in Inits(down)
  BY <1>1 DEF Inits
<1>5. AnswersOnce(Tail(down))
  BY <1>2 DEF AnswersOnce
<1>6. AnswersWith(down, z) => AnswersWith(Tail(down), z)
  BY <1>2 DEF AnswersWith
<1>7. ASSUME down[1].type = "init"
      PROVE  /\ ~Answering(Tail(down)) /\ Answering(down)
             /\ AnswersWith(down, z) => down[1].size = z
  <2>1. \A i \in Inits(Tail(down)) : i + 1 = 1
    BY <1>2, <1>4, <1>7 DEF AnswersOnce
  <2>2. \A i \in Inits(Tail(down)) : i >= 1
    BY DEF Inits
  <2>3. QED
    BY <1>2, <1>4, <1>7, <2>1, <2>2 DEF Answering, AnswersWith
<1>8. ASSUME down[1].type # "init"
      PROVE  Answering(Tail(down)) <=> Answering(down)
  BY <1>2, <1>3, <1>4, <1>8 DEF Answering
<1>9. QED
  BY <1>5, <1>6, <1>7, <1>8

-----------------------------------------------------------------------------

AllInv == TabInv /\ ConnInv /\ ReadyIsHeld /\ Settling

\* The tab t, the handler s and the connection w of a tab that has sent init
LEMMA OwnParts ==
  ASSUME AllInv, tab.ws # NoConn
  PROVE  /\ tab.ws \in Conns /\ wire[tab.ws] \in Wire /\ server[tab.ws] \in Handler
         /\ wire[tab.ws].up \in Seq(Message) /\ wire[tab.ws].down \in Seq(Answer)
         /\ Held(wire[tab.ws], server[tab.ws], tab.ws \in unkilled)
<1>1. tab.ws \in Conns /\ wire[tab.ws] \in Wire /\ server[tab.ws] \in Handler
  BY DEF AllInv, TabInv, TypeInv, Tab
<1>2. QED
  BY <1>1 DEF AllInv, ConnInv, Upwards, Shells, Downwards, Held, Wire

\* What the tab does keeps the sizes in agreement.
LEMMA SettlingOfTab ==
  ASSUME AllInv,
         Show \/ Hide \/ Unmount \/ SwitchSandbox \/ Fit \/ Type \/ (\E s \in Sizes : ResizeBox(s))
  PROVE  Settling'
<1>0. TypeInv /\ TabInv /\ Settling /\ NoConn \notin Conns /\ (tab.ws = NoConn \/ tab.ws \in Conns)
      /\ (tab.hasSentInit => tab.ws # NoConn)
  BY Numbers DEF AllInv, TabInv, TabState, TypeInv, Tab
<1>1. ASSUME UNCHANGED <<wire, server>>, tally'.errors = tally.errors, tab'.ws = tab.ws,
             tab'.hasSentInit = tab.hasSentInit, tab'.size = tab.size,
             tab'.session = tab.session, tab'.answered = tab.answered,
             tab'.crossed = tab.crossed, tab'.lastSent = tab.lastSent
      PROVE  Settling'
  BY <1>0, <1>1 DEF Settling, Settled
<1>2. ASSUME NEW w, Opened(w) PROVE Settling'
  BY <1>2 DEF Opened, Settling
<1>3. CASE Show
  <2>1. CASE /\ UNCHANGED wire
             /\ tab' = [tab EXCEPT !.visible = TRUE, !.isReady = TRUE, !.frame = TRUE]
    <3>1. /\ tab'.ws = tab.ws /\ tab'.hasSentInit = tab.hasSentInit /\ tab'.size = tab.size
          /\ tab'.session = tab.session /\ tab'.answered = tab.answered
          /\ tab'.crossed = tab.crossed /\ tab'.lastSent = tab.lastSent
      BY <1>0, <2>1 DEF TypeInv, Tab
    <3>2. UNCHANGED server /\ tally'.errors = tally.errors
      BY <1>0, <1>3, ShowIs
    <3>3. QED
      BY <1>1, <2>1, <3>1, <3>2
  <2>2. CASE Opened(wire)
    BY <1>2, <2>2
  <2>3. QED
    BY <1>0, <1>3, <2>1, <2>2, ShowIs
<1>4. CASE Unmount
  <2>1. tab'.ws = NoConn /\ ~tab'.hasSentInit
    BY <1>0, <1>4, UnmountIs
  <2>2. QED
    BY <2>1 DEF Settling
<1>5. CASE SwitchSandbox
  BY <1>0, <1>2, <1>5, SwitchIs
<1>6. CASE Fit
  <2>1. /\ UNCHANGED <<server, tally>> /\ tab'.size = box /\ tab'.ws = tab.ws
        /\ tab'.hasSentInit = tab.hasSentInit /\ tab'.session = tab.session
        /\ tab'.answered = tab.answered
    BY <1>0, <1>6, FitIs
  <2>2. CASE UNCHANGED wire /\ tab'.lastSent = tab.lastSent /\ tab'.crossed = tab.crossed
             /\ (tab.hasSentInit => tab.lastSent = box)
    BY <1>0, <2>1, <2>2 DEF Settling, Settled
  <2>3. CASE /\ tab.ws \in Conns /\ tab.hasSentInit
             /\ tab'.lastSent = box /\ (tab'.crossed <=> tab.crossed \/ ~tab.answered)
             /\ wire'[tab.ws].down = wire[tab.ws].down
             /\ wire'[tab.ws].up = wire[tab.ws].up \o <<Msg("resize", box)>>
    <3> DEFINE w == wire[tab.ws]
               v == wire'[tab.ws]
               s == server[tab.ws]
    <3>1. Settled(tab, w, s, tally.errors = 0)
      BY <1>0, <2>3 DEF Settling
    <3>2. w.up \in Seq(Message)
      BY <1>0, <2>3, OwnParts
    <3>3. /\ Msg("resize", box) \in Message /\ Sized(Msg("resize", box))
          /\ Msg("resize", box).size = box
      BY <1>0, MsgIs DEF Types, Sized, TypeInv
    <3>4. WillBe(v.up, s, box)
      BY <2>3, <3>2, <3>3, WillBeSent
    <3> HIDE DEF w, v, s
    <3>5. v.down = w.down
      BY <2>3 DEF v, w
    <3>6. ~tab'.crossed => tab.answered /\ ~tab.crossed
      BY <2>3
    <3>7. Settled(tab', v, s, tally.errors = 0)
      <4>1. /\ AnswersOnce(v.down) /\ (s.pty = "none" => ~tab'.answered /\ ~Answering(v.down))
            /\ (tab'.answered => tab'.session = "ready" /\ ~Answering(v.down))
            /\ (s.pty # "none" /\ ~tab'.answered => Answering(v.down))
        BY <2>1, <3>1, <3>5 DEF Settled
      <4>2. ASSUME ~tab'.crossed
            PROVE  /\ tab'.lastSent = tab'.size /\ WillBe(v.up, s, tab'.lastSent)
                   /\ AnswersWith(v.down, tab'.lastSent) /\ tab'.answered
        <5>1. ~Answering(v.down)
          BY <3>1, <3>5, <3>6, <4>2 DEF Settled
        <5>2. QED
          BY <2>1, <2>3, <3>4, <3>6, <4>2, <5>1 DEF AnswersWith, Answering
      <4>3. QED
        BY <4>1, <4>2 DEF Settled
    <3>8. /\ tab'.hasSentInit /\ wire'[tab'.ws] = v /\ server'[tab'.ws] = s
          /\ tally'.errors = tally.errors
      BY <2>1, <2>3 DEF v, s
    <3>9. QED
      BY <3>7, <3>8 DEF Settling
  <2>4. QED
    BY <1>0, <1>6, <2>2, <2>3, FitIs
<1>7. CASE Type
  <2> DEFINE w == wire[tab.ws]
             v == wire'[tab.ws]
             s == server[tab.ws]
             m == Msg("input", NoSize)
  <2>1. /\ UNCHANGED <<tab, server, tally>> /\ tab.ws \in Conns /\ w.ws = "open"
        /\ v.down = w.down /\ v.up = w.up \o <<m>>
    BY <1>0, <1>7, TypeIs
  <2>2. tab.hasSentInit
    BY <1>0, <2>1 DEF TabInv, TabState
  <2>3. Settled(tab, w, s, tally.errors = 0)
    BY <2>2 DEF AllInv, Settling
  <2>4. w.up \in Seq(Message)
    BY <1>0, <2>1, OwnParts
  <2>5. m \in Message /\ m.type = "input"
    BY MsgIs DEF Types
  <2> HIDE DEF w, v, s, m
  <2>6. ~Sized(m) /\ m.type # "init"
    BY <2>5 DEF Sized
  <2>7. \A z : WillBe(w.up, s, z) => WillBe(v.up, s, z)
    BY <2>1, <2>4, <2>5, <2>6, WillBeTyped
  <2>8. \A z : InitHas(w.up, z) => InitHas(v.up, z)
    BY <2>1, <2>4, <2>5, <2>6, InitTyped
  <2>9. Settled(tab, v, s, tally.errors = 0)
    BY <2>1, <2>3, <2>7, <2>8 DEF Settled
  <2>10. tab' = tab /\ wire'[tab'.ws] = v /\ server'[tab'.ws] = s /\ tally'.errors = tally.errors
    BY <2>1 DEF v, s
  <2>11. QED
    BY <2>2, <2>9, <2>10 DEF Settling
<1>8. CASE Hide \/ \E s \in Sizes : ResizeBox(s)
  BY <1>0, <1>1, <1>8, BoxOrHideIs
<1>9. QED
  BY <1>3, <1>4, <1>5, <1>6, <1>7, <1>8

\* What its connection brings keeps them in agreement.
LEMMA SettlingOfConnection ==
  ASSUME AllInv, NEW c \in Conns, Open(c) \/ Lose(c) \/ Receive(c) \/ CloseEvent(c)
  PROVE  Settling'
<1>0. TypeInv /\ TabInv /\ NoConn \notin Conns /\ (tab.ws = NoConn \/ tab.ws \in Conns)
      /\ (tab.hasSentInit => tab.ws # NoConn)
  BY Numbers DEF AllInv, TabInv, TabState, TypeInv, Tab
<1> DEFINE w == wire[c]
           v == wire'[c]
           s == server[c]
<1>1. CASE Open(c)
  <2> DEFINE auth == Msg("auth", NoSize)
             init == Msg("init", tab'.size)
  <2>1. /\ UNCHANGED <<server, tally>> /\ c = tab.ws /\ w.ws = "connecting" /\ tab'.ws = c
        /\ tab'.hasSentInit /\ tab'.lastSent = tab'.size /\ tab'.size \in Sizes
        /\ tab'.answered = tab.answered /\ v.down = w.down
        /\ v.up = (w.up \o <<auth>>) \o <<init>>
    BY <1>0, <1>1, OpenIs
  <2>2. ~tab.answered
    <3>1. ~tab.hasSentInit
      BY <1>0, <2>1 DEF TabInv, TabState
    <3>2. QED
      BY <1>0, <2>1, <3>1 DEF AllInv, Settling
  <2>3. InOrder(w, s) /\ ShellAnswers(w, s) /\ w \in Wire
    BY <1>0, <2>1, OwnParts DEF Held
  <2>4. /\ auth \in Message /\ auth.type = "auth"
        /\ init \in Message /\ init.type = "init" /\ init.size = tab'.size
    BY <2>1, MsgIs DEF Types
  <2> HIDE DEF w, v, s, auth, init
  <2>5. w.up = <<>> /\ s.pty = "none"
    BY <2>1, <2>3 DEF InOrder
  <2>6. Inits(w.down) = {}
    BY <2>3, <2>5 DEF ShellAnswers, Inits
  <2>7. w.up \o <<auth>> \in Seq(Message)
    BY <2>4, <2>5
  <2>8. WillBe(v.up, s, tab'.size)
    <3>1. Sized(init)
      BY <2>4 DEF Sized
    <3>2. QED
      BY <2>1, <2>4, <2>7, <3>1, WillBeSent
  <2>9. InitHas(v.up, tab'.size)
    BY <2>1, <2>4, <2>5 DEF InitHas
  <2>10. Settled(tab', v, s, tally.errors = 0)
    BY <2>1, <2>2, <2>5, <2>6, <2>8, <2>9 DEF Settled, AnswersOnce, AnswersWith, Answering
  <2>11. wire'[tab'.ws] = v /\ server'[tab'.ws] = s /\ tally'.errors = tally.errors
    BY <2>1 DEF v, s
  <2>12. QED
    BY <2>1, <2>10, <2>11 DEF Settling
<1>2. CASE Lose(c)
  <2>1. tab'.ws = NoConn /\ ~tab'.hasSentInit
    BY <1>0, <1>2, LoseIs
  <2>2. QED
    BY <2>1 DEF Settling
<1>3. CASE Receive(c)
  <2>1. /\ UNCHANGED <<server, tally>> /\ c = tab.ws /\ w.down # <<>> /\ w.down \in Seq(Answer)
        /\ tab.hasSentInit /\ v.down = Tail(w.down) /\ v.up = w.up /\ tab'.size = tab.size
    BY <1>0, <1>3, ReceiveIs
  <2>2. Settled(tab, w, s, tally.errors = 0)
    BY <2>1 DEF AllInv, Settling
  <2>3. CASE w.down[1].type = "init"
    <3>1. /\ tab'.ws = tab.ws /\ tab'.hasSentInit /\ tab'.crossed = tab.crossed /\ tab'.answered
          /\ tab'.lastSent = w.down[1].size /\ tab'.session = "ready"
      BY <1>0, <1>3, <2>3, ReceiveIs
    <3> HIDE DEF w, v, s
    <3>2. /\ AnswersOnce(v.down) /\ ~Answering(v.down) /\ Answering(w.down)
          /\ \A z : AnswersWith(w.down, z) => w.down[1].size = z
      BY <2>1, <2>2, <2>3, AnswersRead DEF Settled
    <3>3. s.pty # "none"
      BY <2>2, <3>2 DEF Settled
    <3>4. ASSUME ~tab'.crossed
          PROVE  /\ tab'.lastSent = tab'.size /\ tab'.lastSent = tab.lastSent
                 /\ (tally.errors = 0 => WillBe(v.up, s, tab'.lastSent))
      BY <2>1, <2>2, <3>1, <3>2, <3>4 DEF Settled
    <3>5. \A z : AnswersWith(v.down, z)
      BY <3>2 DEF AnswersWith, Answering
    <3>6. Settled(tab', v, s, tally.errors = 0)
      BY <3>1, <3>2, <3>3, <3>4, <3>5 DEF Settled
    <3>7. wire'[tab'.ws] = v /\ server'[tab'.ws] = s /\ tally'.errors = tally.errors
      BY <2>1, <3>1 DEF v, s
    <3>8. QED
      BY <3>1, <3>6, <3>7 DEF Settling
  <2>4. CASE w.down[1].type = "stdout"
    <3>1. /\ tab'.ws = tab.ws /\ tab'.hasSentInit /\ tab'.crossed = tab.crossed
          /\ tab'.session = IF tab.session = "connecting" THEN "ready" ELSE tab.session
          /\ tab'.lastSent = tab.lastSent /\ tab'.answered = tab.answered
      BY <1>0, <1>3, <2>4, ReceiveIs
    <3> HIDE DEF w, v, s
    <3>2. /\ AnswersOnce(v.down) /\ (Answering(v.down) <=> Answering(w.down))
          /\ \A z : AnswersWith(w.down, z) => AnswersWith(v.down, z)
      BY <2>1, <2>2, <2>4, AnswersRead DEF Settled
    <3>3. Settled(tab', v, s, tally.errors = 0)
      BY <2>1, <2>2, <3>1, <3>2 DEF Settled
    <3>4. wire'[tab'.ws] = v /\ server'[tab'.ws] = s /\ tally'.errors = tally.errors
      BY <2>1, <3>1 DEF v, s
    <3>5. QED
      BY <3>1, <3>3, <3>4 DEF Settling
  <2>5. CASE w.down[1].type = "closed"
    <3>1. tab'.ws = NoConn /\ ~tab'.hasSentInit
      BY <1>0, <1>3, <2>5, ReceiveIs
    <3>2. QED
      BY <3>1 DEF Settling
  <2>6. w.down[1].type \in {"init", "stdout", "closed"}
    BY <1>0, <1>3, ReceiveIs
  <2>7. QED
    BY <2>3, <2>4, <2>5, <2>6
<1>4. CASE CloseEvent(c)
  <2>1. /\ UNCHANGED <<tab, server, tally>> /\ c # tab.ws
        /\ \A d \in Conns \ {c} : wire'[d] = wire[d]
    BY <1>0, <1>4, CloseEventIs
  <2>2. tab.ws # NoConn => wire'[tab.ws] = wire[tab.ws]
    BY <1>0, <2>1
  <2>3. QED
    BY <1>0, <2>1, <2>2 DEF AllInv, Settling
<1>5. QED
  BY <1>1, <1>2, <1>3, <1>4

\* What a handler changes of its own connection and its shell, for the size
LEMMA HandlerSettled ==
  ASSUME TypeInv, TypeInv', NEW c \in Conns, Handles(c), NEW t,
         Held(wire[c], server[c], c \in unkilled),
         Settled(t, wire[c], server[c], tally.errors = 0)
  PROVE  Settled(t, wire'[c], server'[c], tally'.errors = 0)
<1> DEFINE s == server[c]
           r == server'[c]
           w == wire[c]
           v == wire'[c]
           Goal == Settled(t, v, r, tally'.errors = 0)
<1>0. /\ s \in Handler /\ r \in Handler /\ w \in Wire /\ v \in Wire /\ server \in [Conns -> Handler]
      /\ w.up \in Seq(Message) /\ w.down \in Seq(Answer)
      /\ InOrder(w, s) /\ Shelled(s, c \in unkilled) /\ Settled(t, w, s, tally.errors = 0)
      /\ (tally'.errors = 0 => tally.errors = 0)
  <2>1. tally'.errors = 0 => tally.errors = 0
    BY HandlerFrame
  <2>2. QED
    BY <2>1 DEF TypeInv, Held, Wire
\* A message that is not about the size is read, or none.
<1>1. ASSUME v.down = w.down, (r.pty = "none" <=> s.pty = "none"),
             r.pty = "registered" => s.pty = "registered" /\ r.size = s.size,
             \/ v.up = w.up
             \/ Len(w.up) >= 1 /\ v.up = Tail(w.up) /\ w.up[1].type \notin {"init", "resize"}
      PROVE  Goal
  <2> HIDE DEF s, r, w, v
  <2>1. \A z : WillBe(w.up, s, z) => WillBe(v.up, r, z)
    BY <1>0, <1>1, WillBeStays, WillBeAfterOther DEF Sized
  <2>2. \A z : InitHas(w.up, z) => InitHas(v.up, z)
    BY <1>0, <1>1, InitAfter
  <2>3. QED
    BY <1>0, <1>1, <2>1, <2>2 DEF Settled
<1>2. CASE Auth(c) \/ NoAuth(c)
  <2>1. \/ Reads(c, "auth", "auth") \/ Reads(c, "auth", "disconnect") \/ UNCHANGED wire
    BY <1>2 DEF Auth, NoAuth
  <2>2. r.pty = s.pty /\ r.size = s.size
    BY <1>0, <1>2 DEF Auth, NoAuth, Handler
  <2>3. v.down = w.down /\ (v.up = w.up \/ (Len(w.up) >= 1 /\ v.up = Tail(w.up)
                                            /\ w.up[1].type \notin {"init", "resize"}))
    BY <2>1, ReadIs
  <2>4. QED
    BY <1>1, <2>2, <2>3
<1>3. CASE EnqueueInput(c) \/ Close(c)
  <2>1. Reads(c, "loop", "input") \/ Reads(c, "loop", "close") \/ Reads(c, "loop", "disconnect")
    BY <1>3 DEF EnqueueInput, Close
  <2>2. r.pty = s.pty /\ r.size = s.size
    BY <1>0, <1>3 DEF EnqueueInput, Close, Handler
  <2>3. v.down = w.down /\ Len(w.up) >= 1 /\ v.up = Tail(w.up)
        /\ w.up[1].type \notin {"init", "resize"}
    BY <2>1, ReadIs
  <2>4. QED
    BY <1>1, <2>2, <2>3
<1>4. CASE WorkerTakes(c) \/ WorkerSent(c) \/ WorkerFails(c) \/ WorkerKills(c)
  <2>1. UNCHANGED wire /\ s.worker # "none"
    BY <1>4 DEF WorkerTakes, WorkerSent, WorkerFails, WorkerKills
  <2>2. r.size = s.size /\ r.pty \in {s.pty, "removed", "dead"}
    <3>1. CASE WorkerTakes(c)
      BY <1>0, <3>1 DEF WorkerTakes, Handler
    <3>2. CASE WorkerSent(c)
      BY <1>0, <3>2 DEF WorkerSent, Handler
    <3>3. CASE WorkerFails(c)
      BY <1>0, <3>3 DEF WorkerFails, Handler
    <3>4. CASE WorkerKills(c)
      BY <1>0, <3>4 DEF WorkerKills, Handler
    <3>5. QED
      BY <1>4, <3>1, <3>2, <3>3, <3>4
  <2>3. s.pty # "none"
    BY <1>0, <2>1 DEF Shelled
  <2>4. v.down = w.down /\ v.up = w.up
    BY <2>1
  <2>5. QED
    BY <1>1, <2>2, <2>3, <2>4
<1>5. CASE StopSession(c) \/ Output(c)
  <2>1. /\ r.size = s.size /\ (r.pty = "none" <=> s.pty = "none")
        /\ (r.pty = "registered" => s.pty = "registered")
    <3>1. CASE StopSession(c)
      BY <1>0, <3>1 DEF StopSession, StopPty, Handler
    <3>2. CASE Output(c)
      BY <3>2 DEF Output
    <3>3. QED
      BY <1>5, <3>1, <3>2
  <2>2. /\ v.up = w.up
        /\ \/ v.down = w.down
           \/ \E ty \in {"stdout", "closed"} : v.down = Append(w.down, Msg(ty, NoSize))
    BY <1>5 DEF StopSession, Output, TypeInv, Wire
  <2>3. CASE v.down = w.down
    BY <1>1, <2>1, <2>2, <2>3
  <2>4. ASSUME NEW ty \in {"stdout", "closed"}, v.down = Append(w.down, Msg(ty, NoSize)) PROVE Goal
    <3> HIDE DEF s, r, w, v
    <3>1. Inits(v.down) = Inits(w.down) /\ \A i \in Inits(w.down) : v.down[i] = w.down[i]
      BY <1>0, <2>4, AnswersAfterOther
    <3>2. /\ AnswersOnce(v.down) /\ (Answering(v.down) <=> Answering(w.down))
          /\ \A z : AnswersWith(w.down, z) => AnswersWith(v.down, z)
      BY <1>0, <3>1 DEF AnswersOnce, Answering, AnswersWith, Settled
    <3>3. \A z : WillBe(w.up, s, z) => WillBe(v.up, r, z)
      BY <2>1, <2>2, WillBeStays
    <3>4. QED
      BY <1>0, <2>1, <2>2, <3>2, <3>3 DEF Settled
  <2>5. QED
    BY <2>2, <2>3, <2>4
<1>6. CASE Resize(c)
  <2>1. /\ Reads(c, "loop", "resize")
        /\ \/ r.size = IF s.pty = "registered" THEN w.up[1].size ELSE s.size
           \/ tally'.errors # 0
        /\ r.pty = s.pty
    <3>1. Reads(c, "loop", "resize")
      BY <1>6 DEF Resize
    <3>2. Head(w.up) = w.up[1]
      BY <1>0, <3>1, ReadIs
    <3>3. \/ /\ server' = IF server[c].pty = "registered"
                          THEN [server EXCEPT ![c].size = w.up[1].size] ELSE server
          \/ tally' = [tally EXCEPT !.errors = @ + 1] /\ server' = server
      BY <1>6, <3>2 DEF Resize
    <3>4. QED
      BY <1>0, <3>1, <3>3 DEF Handler, TypeInv, Tally
  <2>2. /\ v.down = w.down /\ Len(w.up) >= 1 /\ v.up = Tail(w.up) /\ w.up[1].type = "resize"
    BY <2>1, ReadIs
  <2> HIDE DEF s, r, w, v
  <2>3. tally'.errors = 0 => \A z : WillBe(w.up, s, z) => WillBe(v.up, r, z)
    BY <1>0, <2>1, <2>2, WillBeAfterSize DEF Sized
  <2>4. \A z : InitHas(w.up, z) => InitHas(v.up, z)
    BY <1>0, <2>2, InitAfter
  <2>5. ~t.crossed /\ tally'.errors = 0 => WillBe(v.up, r, t.lastSent)
    BY <1>0, <2>3 DEF Settled
  <2>6. (r.pty = "none" <=> s.pty = "none") /\ v.down = w.down
    BY <2>1, <2>2
  <2>7. ~t.crossed /\ ~t.answered => InitHas(v.up, t.lastSent)
    BY <1>0, <2>4 DEF Settled
  <2>8. /\ AnswersOnce(v.down) /\ (r.pty = "none" => ~t.answered /\ ~Answering(v.down))
        /\ (t.answered => t.session = "ready" /\ ~Answering(v.down))
        /\ (r.pty # "none" /\ ~t.answered => Answering(v.down))
        /\ (~t.crossed => t.lastSent = t.size /\ AnswersWith(v.down, t.lastSent))
    BY <1>0, <2>6 DEF Settled
  <2>9. Goal
    BY <2>5, <2>7, <2>8 DEF Settled
  <2>10. QED
    BY <2>9 DEF r, v
<1>7. CASE Start(c)
  <2> DEFINE z == w.up[1].size
  <2>1. /\ s.at = "loop" /\ Len(w.up) >= 1 /\ w.up[1].type = "init" /\ Head(w.up) = w.up[1]
        /\ w.up[1] \in Message
    <3>1. s.at = "loop" /\ w.up # <<>> /\ Head(w.up).type = "init"
      BY <1>7 DEF Start
    <3>2. QED
      BY <1>0, <3>1
  <2>2. z \in Sizes \cup {NoSize}
    BY <2>1 DEF Message
  <2>3. s.pty = "none"
    BY <1>0, <2>1 DEF InOrder, LaterFrom, Later
  <2>4. ~t.answered /\ ~Answering(w.down)
    BY <1>0, <2>3 DEF Settled
  <2>5. \A x : InitHas(w.up, x) => z = x /\ InitHas(Tail(w.up), x)
    <3>1. 1 \in 1 .. Len(w.up)
      BY <1>0, <2>1
    <3>2. QED
      BY <1>0, <2>1, <3>1, InitAfter DEF InitHas
  <2>6. CASE /\ server' = [server EXCEPT ![c].pty = "registered", ![c].size = z,
                                          ![c].worker = "idle"]
             /\ wire' = [wire EXCEPT ![c].up = Tail(@), ![c].down = Append(@, Msg("init", z))]
    <3>1. r.pty = "registered" /\ r.size = z
      BY <1>0, <2>6 DEF Handler
    <3>2. v.up = Tail(w.up) /\ v.down = Append(w.down, Msg("init", z))
      BY <2>6 DEF TypeInv, Wire
    <3>3. Answering(v.down) /\ AnswersOnce(v.down) /\ AnswersWith(v.down, z)
      BY <1>0, <2>2, <2>4, <3>2, AnswersAfterInit
    <3>4. \A x : WillBe(w.up, s, x) => WillBe(v.up, r, x)
      BY <1>0, <2>1, <3>1, <3>2, WillBeAfterSize DEF Sized
    <3>5. (~t.crossed => z = t.lastSent /\ InitHas(v.up, t.lastSent))
      BY <1>0, <2>4, <2>5, <3>2 DEF Settled
    <3>6. ~t.crossed /\ tally'.errors = 0 => WillBe(v.up, r, t.lastSent)
      BY <1>0, <3>4 DEF Settled
    <3> HIDE DEF s, r, w, v, z
    <3>7. ~t.crossed => t.lastSent = t.size /\ AnswersWith(v.down, t.lastSent)
      BY <1>0, <3>3, <3>5 DEF Settled
    <3>8. Goal
      BY <2>4, <3>1, <3>3, <3>5, <3>6, <3>7 DEF Settled
    <3>9. QED
      BY <3>8 DEF r, v
  <2>7. CASE /\ server' = [server EXCEPT ![c].at = "finally"]
             /\ wire' = [wire EXCEPT ![c].up = Tail(@)] /\ tally'.errors # 0
    <3>1. r.pty = s.pty
      BY <1>0, <2>7 DEF Handler
    <3>2. v.up = Tail(w.up) /\ v.down = w.down
      BY <2>7 DEF TypeInv, Wire
    <3>3. tally'.errors # 0 /\ (~t.crossed => InitHas(v.up, t.lastSent))
      BY <1>0, <2>4, <2>5, <2>7, <3>2 DEF Settled
    <3> HIDE DEF s, r, w, v, z
    <3>4. AnswersOnce(v.down) /\ ~t.answered /\ ~Answering(v.down) /\ r.pty = "none"
      BY <1>0, <2>3, <2>4, <3>1, <3>2 DEF Settled
    <3>5. ~t.crossed => t.lastSent = t.size /\ AnswersWith(v.down, t.lastSent)
      BY <1>0, <3>2 DEF Settled
    <3>6. Goal
      BY <3>3, <3>4, <3>5 DEF Settled
    <3>7. QED
      BY <3>6 DEF r, v
  <2>8. QED
    <3>1. \/ /\ server' = [server EXCEPT ![c].pty = "registered", ![c].size = z,
                                          ![c].worker = "idle"]
             /\ wire' = [wire EXCEPT ![c].up = Tail(@), ![c].down = Append(@, Msg("init", z))]
          \/ /\ server' = [server EXCEPT ![c].at = "finally"]
             /\ wire' = [wire EXCEPT ![c].up = Tail(@)] /\ tally' = [tally EXCEPT !.errors = @ + 1]
      BY <1>7, <2>1 DEF Start
    <3>2. tally' = [tally EXCEPT !.errors = @ + 1] => tally'.errors # 0
      BY DEF TypeInv, Tally
    <3>3. QED
      BY <2>6, <2>7, <3>1, <3>2
<1>8. QED
  BY <1>2, <1>3, <1>4, <1>5, <1>6, <1>7 DEF Handles

\* So does what a handler does, its own connection or another.
LEMMA SettlingOfHandler ==
  ASSUME AllInv, NEW c \in Conns, Handles(c)
  PROVE  Settling'
<1>0. /\ TypeInv /\ TypeInv' /\ UNCHANGED tab /\ (tally'.errors = 0 => tally.errors = 0)
      /\ (tab.hasSentInit => tab.ws \in Conns)
      /\ \A d \in Conns \ {c} : wire'[d] = wire[d] /\ server'[d] = server[d]
  <2>1. TypeInv /\ (tab.hasSentInit => tab.ws \in Conns)
    BY Numbers DEF AllInv, TabInv, TabState, TypeInv, Tab
  <2>2. QED
    BY <2>1, HandlerFrame
<1>1. SUFFICES ASSUME tab.hasSentInit
               PROVE  Settled(tab, wire'[tab.ws], server'[tab.ws], tally'.errors = 0)
  BY <1>0 DEF AllInv, Settling
<1>2. /\ Settled(tab, wire[tab.ws], server[tab.ws], tally.errors = 0)
      /\ Held(wire[tab.ws], server[tab.ws], tab.ws \in unkilled)
  BY <1>0, <1>1, Numbers, OwnParts DEF AllInv, Settling
<1>3. CASE tab.ws = c
  <2>1. Settled(tab, wire'[c], server'[c], tally'.errors = 0)
    BY <1>0, <1>2, <1>3, HandlerSettled
  <2>2. QED
    BY <1>3, <2>1
<1>4. CASE tab.ws # c
  <2>1. wire'[tab.ws] = wire[tab.ws] /\ server'[tab.ws] = server[tab.ws]
    BY <1>0, <1>1, <1>4
  <2>2. QED
    BY <1>0, <1>2, <2>1 DEF Settled
<1>5. QED
  BY <1>3, <1>4

-----------------------------------------------------------------------------
(* The invariant of the tab, its connections and their handlers *)

\* What the tab takes for ready has a shell.
LEMMA ReadyStep == AllInv /\ [TerminalNext]_terminalVars => ReadyIsHeld'
<1> SUFFICES ASSUME AllInv, [TerminalNext]_terminalVars PROVE ReadyIsHeld'
  OBVIOUS
<1>0. /\ TypeInv /\ TabInv /\ ReadyIsHeld /\ (tab.session = "ready" => tab.ws \in Conns)
      /\ TypeInv' /\ \A c \in Conns : Held(wire[c], server[c], c \in unkilled)
  <2>1. TypeInv /\ TabInv /\ ReadyIsHeld /\ (tab.session = "ready" => tab.ws \in Conns)
    BY DEF AllInv, TabInv, TabState, TypeInv, Tab
  <2>2. \A c \in Conns : Held(wire[c], server[c], c \in unkilled)
    BY DEF AllInv, ConnInv, Upwards, Shells, Downwards, Held
  <2>3. TypeInv'
    BY <2>1, TypeStep
  <2>4. QED
    BY <2>1, <2>2, <2>3
<1>1. ASSUME UNCHANGED server, tab'.ws = tab.ws, tab'.session = tab.session PROVE ReadyIsHeld'
  BY <1>0, <1>1 DEF ReadyIsHeld
<1>2. ASSUME tab'.session # "ready" PROVE ReadyIsHeld'
  BY <1>2 DEF ReadyIsHeld
<1>3. CASE Show
  <2>1. CASE Opened(wire)
    BY <1>2, <2>1 DEF Opened
  <2>2. CASE /\ UNCHANGED server
             /\ tab' = [tab EXCEPT !.visible = TRUE, !.isReady = TRUE, !.frame = TRUE]
    BY <1>0, <1>1, <2>2 DEF TypeInv, Tab
  <2>3. QED
    BY <1>0, <1>3, <2>1, <2>2, ShowIs
<1>4. CASE Unmount
  BY <1>0, <1>2, <1>4, UnmountIs
<1>5. CASE SwitchSandbox
  BY <1>0, <1>2, <1>5, SwitchIs DEF Opened
<1>6. CASE Fit
  BY <1>0, <1>1, <1>6, FitIs
<1>7. CASE Type
  BY <1>0, <1>1, <1>7, TypeIs
<1>8. CASE Hide \/ \E s \in Sizes : ResizeBox(s)
  BY <1>0, <1>1, <1>8, BoxOrHideIs
<1>9. ASSUME NEW c \in Conns, Open(c) \/ CloseEvent(c) PROVE ReadyIsHeld'
  BY <1>0, <1>1, <1>9, OpenIs, CloseEventIs
<1>10. ASSUME NEW c \in Conns, Lose(c) PROVE ReadyIsHeld'
  BY <1>0, <1>2, <1>10, LoseIs
<1>11. ASSUME NEW c \in Conns, Receive(c) PROVE ReadyIsHeld'
  <2>1. /\ UNCHANGED server /\ c = tab.ws /\ wire[c].down \in Seq(Answer) /\ wire[c].down # <<>>
        /\ ShellAnswers(wire[c], server[c])
    BY <1>0, <1>11, ReceiveIs DEF Held
  <2>2. 1 \in 1 .. Len(wire[c].down)
    BY <2>1
  <2>3. wire[c].down[1].type \in {"init", "stdout"} => server[c].pty # "none"
    BY <2>1, <2>2 DEF ShellAnswers
  <2>4. \/ wire[c].down[1].type \in {"init", "stdout"} /\ tab'.ws = tab.ws
        \/ tab'.session \in {"idle", "error"}
    BY <1>0, <1>11, ReceiveIs
  <2>5. QED
    BY <2>1, <2>3, <2>4 DEF ReadyIsHeld
<1>12. ASSUME NEW c \in Conns, Handles(c) PROVE ReadyIsHeld'
  <2>1. /\ UNCHANGED tab /\ \A d \in Conns \ {c} : server'[d] = server[d]
        /\ (server[c].pty # "none" => server'[c].pty # "none")
    BY <1>0, <1>12, HandlerFrame, HandlerHeld
  <2>2. QED
    BY <1>0, <2>1 DEF ReadyIsHeld
<1>13. CASE UNCHANGED terminalVars
  BY <1>1, <1>13 DEF terminalVars
<1>14. QED
  BY <1>3, <1>4, <1>5, <1>6, <1>7, <1>8, <1>9, <1>10, <1>11, <1>12, <1>13
     DEF TerminalNext, Handles

\* The invariant holds at first.
LEMMA AllInvInit == TerminalInit => AllInv
<1> SUFFICES ASSUME TerminalInit PROVE AllInv
  OBVIOUS
<1>1. tab.ws = NoConn /\ ~tab.hasSentInit /\ ~tab.answered /\ tab.session = "idle"
  BY DEF TerminalInit, NewTab
<1>2. ReadyIsHeld /\ Settling
  BY <1>1 DEF ReadyIsHeld, Settling
<1>3. QED
  BY <1>2, TabInvInit, ConnInvInit DEF AllInv

\* Every step keeps it.
LEMMA AllInvStep == AllInv /\ [TerminalNext]_terminalVars => AllInv'
<1> SUFFICES ASSUME AllInv, [TerminalNext]_terminalVars PROVE AllInv'
  OBVIOUS
<1>1. TabInv' /\ ConnInv' /\ ReadyIsHeld'
  BY TabInvStep, ConnInvStep, ReadyStep DEF AllInv
<1>2. Settling'
  <2>1. CASE Show \/ Hide \/ Unmount \/ SwitchSandbox \/ Fit \/ Type
             \/ (\E s \in Sizes : ResizeBox(s))
    BY <2>1, SettlingOfTab
  <2>2. ASSUME NEW c \in Conns, Open(c) \/ Lose(c) \/ Receive(c) \/ CloseEvent(c) PROVE Settling'
    BY <2>2, SettlingOfConnection
  <2>3. ASSUME NEW c \in Conns, Handles(c) PROVE Settling'
    BY <2>3, SettlingOfHandler
  <2>4. CASE UNCHANGED terminalVars
    BY <2>4 DEF AllInv, Settling, terminalVars
  <2>5. QED
    BY <2>1, <2>2, <2>3, <2>4 DEF TerminalNext, Handles
<1>3. QED
  BY <1>1, <1>2 DEF AllInv

\* What the invariant says of the terminal
LEMMA TerminalKept ==
  AllInv => /\ TerminalTypeOK /\ InitFirst /\ SizeSettles /\ ReadyHasShell /\ NoShellLeft
            /\ LeftIsTold
<1> SUFFICES ASSUME AllInv
             PROVE  /\ TerminalTypeOK /\ InitFirst /\ SizeSettles /\ ReadyHasShell /\ NoShellLeft
                    /\ LeftIsTold
  OBVIOUS
<1>0. TypeInv /\ \A c \in Conns : /\ Held(wire[c], server[c], c \in unkilled)
                                  /\ wire[c] \in Wire /\ server[c] \in Handler
                                  /\ wire[c].up \in Seq(Message)
  BY DEF AllInv, TabInv, ConnInv, Upwards, Shells, Downwards, Held, TypeInv, Wire
<1>1. TerminalTypeOK
  BY <1>0 DEF TerminalTypeOK, TypeInv, Tab, Wire, Handler
<1>2. InitFirst
  <2> SUFFICES ASSUME NEW c \in Conns
               PROVE  LET up == wire[c].up
                      IN /\ server[c].at = "auth" /\ Len(up) >= 1 =>
                              up[1].type \in {"auth", "disconnect"}
                         /\ server[c].at = "auth" /\ Len(up) >= 2 => up[2].type = "init"
                         /\ server[c].at = "loop" /\ server[c].pty = "none" /\ Len(up) >= 1 =>
                              up[1].type = "init"
    BY DEF InitFirst
  <2> DEFINE up == wire[c].up
  <2>1. InOrder(wire[c], server[c]) /\ wire[c] \in Wire /\ Len(up) \in Nat
    BY <1>0 DEF Held
  <2>2. CASE server[c].at = "auth"
    <3>1. up = <<>> \/ BeginsWithAuth(up) \/ (Len(up) = 1 /\ up[1].type = "disconnect")
      BY <2>1, <2>2 DEF InOrder, Wire
    <3>2. QED
      BY <2>1, <2>2, <3>1 DEF BeginsWithAuth
  <2>3. CASE server[c].at = "loop" /\ server[c].pty = "none"
    BY <2>1, <2>3 DEF InOrder, BeginsWithInit
  <2>4. QED
    BY <2>2, <2>3
<1>3. SizeSettles
  <2> SUFFICES ASSUME NEW c \in Conns, tab.ws = c, tab.visible, ~tab.frame, ~tab.crossed,
                      tally.errors = 0, wire[c].up = <<>>, wire[c].down = <<>>,
                      server[c].pty = "registered"
               PROVE  server[c].size = box /\ tab.session = "ready"
    BY DEF SizeSettles
  <2>1. InOrder(wire[c], server[c]) /\ server[c] \in Handler /\ c # NoConn
    BY <1>0, Numbers DEF Held
  <2>2. wire[c].ws = "open"
    <3>1. server[c].at # "auth"
      BY <2>1 DEF InOrder
    <3>2. wire[c].ws \notin {"none", "connecting"}
      BY <2>1, <3>1 DEF InOrder
    <3>3. QED
      BY <2>1, <3>2 DEF AllInv, TabInv, OwnConnection
  <2>3. tab.hasSentInit /\ tab.size = box
    BY <2>1, <2>2 DEF AllInv, TabInv, TabState
  <2>4. Settled(tab, wire[c], server[c], tally.errors = 0)
    BY <2>3 DEF AllInv, Settling
  <2>5. Len(wire[c].up) = 0 /\ Len(wire[c].down) = 0
    OBVIOUS
  <2>6. ~Answering(wire[c].down)
    BY <2>5 DEF Answering, Inits
  <2>7. tab.answered /\ tab.session = "ready"
    BY <2>4, <2>6 DEF Settled
  <2>8. WillBe(wire[c].up, server[c], tab.lastSent) /\ tab.lastSent = tab.size
    BY <2>4 DEF Settled
  <2>9. server[c].size = tab.lastSent
    BY <2>5, <2>8 DEF WillBe
  <2>10. QED
    BY <2>3, <2>7, <2>8, <2>9
<1>4. ReadyHasShell
  BY DEF ReadyHasShell, AllInv, TabInv, TabState, ReadyIsHeld
<1>5. NoShellLeft
  BY <1>0 DEF NoShellLeft, Held, Shelled
<1>6. LeftIsTold
  BY DEF LeftIsTold, AllInv, TabInv, OwnConnection
<1>7. QED
  BY <1>1, <1>2, <1>3, <1>4, <1>5, <1>6

-----------------------------------------------------------------------------
(* The strip of tabs *)

TabsInv == terminals \in Seq(Nat) /\ OneTabPerNumber /\ OneIsShown

\* The numbers of the tabs
LEMMA RangeIs ==
  ASSUME NEW ts \in Seq(Nat)
  PROVE  Range(ts) = {ts[i] : i \in 1 .. Len(ts)}
BY DEF Range

\* n tabs leave one of n + 1 numbers free.
LEMMA OneIsFree ==
  ASSUME NEW ts \in Seq(Nat)
  PROVE  \E k \in 1 .. Len(ts) + 1 : k \notin Range(ts)
<1> DEFINE n == Len(ts)
           f == [x \in 1 .. n + 1 |-> CHOOSE i \in 1 .. n : ts[i] = x]
<1> SUFFICES ASSUME \A k \in 1 .. n + 1 : k \in Range(ts) PROVE FALSE
  OBVIOUS
<1>1. n \in Nat
  OBVIOUS
<1>2. \A x \in 1 .. n + 1 : f[x] \in 1 .. n /\ ts[f[x]] = x
  <2> SUFFICES ASSUME NEW x \in 1 .. n + 1 PROVE f[x] \in 1 .. n /\ ts[f[x]] = x
    OBVIOUS
  <2>1. \E i \in 1 .. n : ts[i] = x
    BY RangeIs
  <2>2. f[x] = CHOOSE i \in 1 .. n : ts[i] = x
    OBVIOUS
  <2> HIDE DEF f
  <2>3. QED
    BY <2>1, <2>2
<1>3. f \in [1 .. n + 1 -> 1 .. n]
  BY <1>2
<1>4. /\ IsFiniteSet(1 .. n + 1) /\ IsFiniteSet(1 .. n)
      /\ Cardinality(1 .. n) < Cardinality(1 .. n + 1)
  <2>1. IsFiniteSet(1 .. n + 1) /\ Cardinality(1 .. n + 1) = n + 1
    BY <1>1, FS_Interval
  <2>2. IsFiniteSet(1 .. n) /\ Cardinality(1 .. n) = n
    <3>1. Cardinality(1 .. n) = IF 1 > n THEN 0 ELSE n - 1 + 1
      BY <1>1, FS_Interval
    <3>2. (IF 1 > n THEN 0 ELSE n - 1 + 1) = n
      BY <1>1
    <3>3. IsFiniteSet(1 .. n)
      BY <1>1, FS_Interval
    <3>4. QED
      BY ONLY <3>1, <3>2, <3>3
  <2>3. QED
    BY <1>1, <2>1, <2>2
<1> HIDE DEF f, n
<1>5. \E x, y \in 1 .. n + 1 : x # y /\ f[x] = f[y]
  BY <1>3, <1>4, FS_PigeonHole
<1>6. QED
  BY <1>2, <1>5

\* The number of a new tab is not taken.
LEMMA NextIsFree ==
  ASSUME NEW ts \in Seq(Nat)
  PROVE  nextNumber(ts) \in Nat /\ nextNumber(ts) \notin Range(ts)
<1> DEFINE Free == {k \in 1 .. Len(ts) + 1 : k \notin Range(ts)}
<1>1. Len(ts) \in Nat /\ Free \in SUBSET Nat /\ Free # {}
  BY OneIsFree
<1>2. PICK k \in Free : \A j \in Free : k <= j
  <2> HIDE DEF Free
  <2>1. QED
    BY <1>1, Least
<1>3. \A j \in 1 .. k - 1 : j \in Range(ts)
  BY <1>1, <1>2
<1>4. \E x \in 1 .. Len(ts) + 1 : x \notin Range(ts) /\ \A j \in 1 .. x - 1 : j \in Range(ts)
  BY <1>2, <1>3
<1>5. QED
  BY <1>1, <1>4 DEF nextNumber

\* Two sequences of numbers, one behind the other
LEMMA Joined ==
  ASSUME NEW a \in Seq(Nat), NEW b \in Seq(Nat)
  PROVE  /\ a \o b \in Seq(Nat) /\ Len(a) \in Nat /\ Len(b) \in Nat
         /\ Len(a \o b) = Len(a) + Len(b)
         /\ \A i \in 1 .. Len(a) + Len(b) :
              (a \o b)[i] = IF i <= Len(a) THEN a[i] ELSE b[i - Len(a)]
OBVIOUS

\* A sequence and one number more
LEMMA OneAdded ==
  ASSUME NEW ts \in Seq(Nat), NEW k \in Nat
  PROVE  /\ Append(ts, k) \in Seq(Nat) /\ Len(Append(ts, k)) = Len(ts) + 1
         /\ Append(ts, k)[Len(ts) + 1] = k
         /\ \A i \in 1 .. Len(ts) : Append(ts, k)[i] = ts[i]
OBVIOUS

\* What is left when one tab is removed
LEMMA Removed ==
  ASSUME NEW ts \in Seq(Nat), NEW i \in 1 .. Len(ts)
  PROVE  /\ RemoveAt(ts, i) \in Seq(Nat) /\ Len(RemoveAt(ts, i)) = Len(ts) - 1
         /\ \A j \in 1 .. Len(ts) - 1 :
              RemoveAt(ts, i)[j] = IF j < i THEN ts[j] ELSE ts[j + 1]
<1> DEFINE a == SubSeq(ts, 1, i - 1)
           b == SubSeq(ts, i + 1, Len(ts))
<1>1. /\ a \in Seq(Nat) /\ Len(a) = i - 1 /\ \A j \in 1 .. i - 1 : a[j] = ts[j]
  OBVIOUS
<1>2. /\ b \in Seq(Nat) /\ Len(b) = Len(ts) - i
      /\ \A j \in 1 .. Len(ts) - i : b[j] = ts[j + i]
  OBVIOUS
<1>3. RemoveAt(ts, i) = a \o b /\ Len(ts) \in Nat
  BY DEF RemoveAt
<1> HIDE DEF a, b
<1>4. /\ a \o b \in Seq(Nat) /\ Len(a \o b) = Len(ts) - 1
      /\ \A j \in 1 .. Len(ts) - 1 : (a \o b)[j] = IF j < i THEN ts[j] ELSE ts[j + 1]
  <2>1. a \o b \in Seq(Nat) /\ Len(a \o b) = Len(ts) - 1
    <3>1. a \o b \in Seq(Nat) /\ Len(a \o b) = Len(a) + Len(b)
      BY <1>1, <1>2, Joined
    <3>2. Len(a) + Len(b) = Len(ts) - 1
      BY <1>1, <1>2, <1>3
    <3>3. QED
      BY <3>1, <3>2
  <2>2. ASSUME NEW j \in 1 .. Len(ts) - 1 PROVE (a \o b)[j] = IF j < i THEN ts[j] ELSE ts[j + 1]
    <3>1. CASE j < i
      <4>1. j \in 1 .. i - 1 /\ j <= Len(a) /\ j \in 1 .. Len(a) + Len(b)
        BY <1>1, <1>2, <1>3, <3>1
      <4>2. QED
        BY <1>1, <1>2, <3>1, <4>1, Joined
    <3>2. CASE ~(j < i)
      <4>1. /\ ~(j <= Len(a)) /\ j \in 1 .. Len(a) + Len(b)
            /\ j - (i - 1) \in 1 .. Len(ts) - i /\ (j - (i - 1)) + i = j + 1
        BY <1>1, <1>2, <1>3, <3>2
      <4>2. (a \o b)[j] = b[j - (i - 1)]
        <5>1. a \in Seq(Nat) /\ b \in Seq(Nat)
          BY <1>1, <1>2
        <5>2. (a \o b)[j] = b[j - Len(a)]
          BY <4>1, <5>1, Joined
        <5>3. QED
          BY <1>1, <5>2
      <4>3. b[j - (i - 1)] = ts[j + 1]
        BY <1>2, <4>1
      <4>4. QED
        BY <3>2, <4>2, <4>3
    <3>3. QED
      BY <3>1, <3>2
  <2>3. QED
    BY <2>1, <2>2
<1>5. QED
  BY <1>3, <1>4

\* Opening, closing and selecting tabs keep one tab per number, and one shown.
LEMMA TabsInvStep == TabsInv /\ [TabsNext]_tabsVars => TabsInv'
<1> SUFFICES ASSUME TabsInv, [TabsNext]_tabsVars PROVE TabsInv'
  OBVIOUS
<1> DEFINE ts == terminals
<1>1. /\ ts \in Seq(Nat) /\ Len(ts) \in Nat /\ DOMAIN ts = 1 .. Len(ts)
      /\ Range(ts) = {ts[i] : i \in 1 .. Len(ts)}
      /\ \A i, j \in 1 .. Len(ts) : ts[i] = ts[j] => i = j
  BY RangeIs DEF TabsInv, OneTabPerNumber
\* What is left to show, of the sequence after the step
<1>2. ASSUME terminals' \in Seq(Nat),
             \A i, j \in 1 .. Len(terminals') : terminals'[i] = terminals'[j] => i = j,
             \E i \in 1 .. Len(terminals') : activeTerminalId' = terminals'[i]
      PROVE  TabsInv'
  <2>1. OneTabPerNumber'
    BY <1>2 DEF OneTabPerNumber
  <2>2. OneIsShown'
    <3>1. Range(terminals') = {terminals'[i] : i \in 1 .. Len(terminals')}
      BY <1>2, RangeIs
    <3>2. QED
      BY <1>2, <3>1 DEF OneIsShown
  <2>3. QED
    BY <1>2, <2>1, <2>2 DEF TabsInv
<1>3. CASE addTerminal
  <2> DEFINE k == nextNumber(ts)
  <2>1. terminals' = Append(ts, k) /\ activeTerminalId' = k
    BY <1>3 DEF addTerminal
  <2>2. k \in Nat /\ k \notin Range(ts)
    BY <1>1, NextIsFree
  <2> HIDE DEF k
  <2>3. /\ terminals' \in Seq(Nat) /\ Len(terminals') = Len(ts) + 1
        /\ terminals'[Len(ts) + 1] = k /\ \A i \in 1 .. Len(ts) : terminals'[i] = ts[i]
    <3> HIDE DEF ts
    <3>1. QED
      BY <1>1, <2>1, <2>2, OneAdded
  <2>4. \A i, j \in 1 .. Len(terminals') : terminals'[i] = terminals'[j] => i = j
    <3>1. \A i \in 1 .. Len(ts) : terminals'[i] = ts[i] /\ ts[i] # k
      <4>1. \A i \in 1 .. Len(ts) : ts[i] # k
        BY <1>1, <2>2
      <4>2. QED
        BY <2>3, <4>1
    <3>2. \A i \in 1 .. Len(terminals') : i \in 1 .. Len(ts) \/ i = Len(ts) + 1
      BY <1>1, <2>3
    <3> HIDE DEF ts
    <3>3. QED
      BY <1>1, <2>3, <3>1, <3>2
  <2>5. QED
    <3>1. Len(ts) + 1 \in 1 .. Len(terminals')
      BY <1>1, <2>3
    <3>2. QED
      BY <1>2, <2>1, <2>3, <2>4, <3>1
<1>4. ASSUME NEW i \in DOMAIN ts, closeTerminal(i) PROVE TabsInv'
  <2>1. /\ Len(ts) > 1 /\ terminals' = RemoveAt(ts, i) /\ i \in 1 .. Len(ts)
        /\ activeTerminalId' = IF activeTerminalId = ts[i] THEN Neighbour(i) ELSE activeTerminalId
    BY <1>1, <1>4 DEF closeTerminal
  <2>2. /\ terminals' \in Seq(Nat) /\ Len(terminals') = Len(ts) - 1
        /\ \A j \in 1 .. Len(ts) - 1 : terminals'[j] = IF j < i THEN ts[j] ELSE ts[j + 1]
    BY <1>1, <2>1, Removed
  <2>3. \A j, k \in 1 .. Len(terminals') : terminals'[j] = terminals'[k] => j = k
    <3> SUFFICES ASSUME NEW j \in 1 .. Len(ts) - 1, NEW k \in 1 .. Len(ts) - 1,
                        terminals'[j] = terminals'[k]
                 PROVE  j = k
      BY <2>2
    <3> DEFINE p == IF j < i THEN j ELSE j + 1
               q == IF k < i THEN k ELSE k + 1
    <3>1. terminals'[j] = ts[p] /\ terminals'[k] = ts[q]
      BY <2>2
    <3>2. p \in 1 .. Len(ts) /\ q \in 1 .. Len(ts)
      BY <1>1
    <3>3. p = q
      <4> HIDE DEF p, q
      <4>1. QED
        BY <1>1, <3>1, <3>2
    <3>4. QED
      BY <1>1, <2>1, <3>3
  <2>4. \E j \in 1 .. Len(terminals') : activeTerminalId' = terminals'[j]
    <3>1. CASE activeTerminalId = ts[i] /\ i > 1
      <4>1. activeTerminalId' = ts[i - 1] /\ i - 1 \in 1 .. Len(ts) - 1 /\ i - 1 < i
        BY <1>1, <2>1, <3>1 DEF Neighbour
      <4>2. QED
        BY <2>2, <4>1
    <3>2. CASE activeTerminalId = ts[i] /\ ~(i > 1)
      <4>1. activeTerminalId' = ts[1 + 1] /\ i = 1 /\ 1 \in 1 .. Len(ts) - 1 /\ ~(1 < i)
        BY <1>1, <2>1, <3>2 DEF Neighbour
      <4>2. terminals'[1] = ts[1 + 1]
        BY <2>2, <4>1
      <4>3. QED
        BY <2>2, <4>1, <4>2
    <3>3. CASE activeTerminalId # ts[i]
      <4>1. PICK m \in 1 .. Len(ts) : activeTerminalId = ts[m]
        BY <1>1 DEF TabsInv, OneIsShown
      <4>2. m # i /\ activeTerminalId' = ts[m]
        BY <2>1, <3>3, <4>1
      <4>3. CASE m < i
        <5>1. m \in 1 .. Len(ts) - 1
          BY <1>1, <2>1, <4>3
        <5>2. QED
          BY <2>2, <4>2, <4>3, <5>1
      <4>4. CASE i < m
        <5>1. m - 1 \in 1 .. Len(ts) - 1 /\ ~(m - 1 < i) /\ (m - 1) + 1 = m
          BY <1>1, <2>1, <4>4
        <5>2. terminals'[m - 1] = ts[(m - 1) + 1]
          BY <2>2, <5>1
        <5>3. QED
          BY <2>2, <4>2, <5>1, <5>2
      <4>5. QED
        BY <1>1, <2>1, <4>2, <4>3, <4>4
    <3>4. QED
      BY <3>1, <3>2, <3>3
  <2>5. QED
    BY <1>2, <2>2, <2>3, <2>4
<1>5. ASSUME NEW i \in DOMAIN ts, Select(i) PROVE TabsInv'
  <2>1. terminals' = ts /\ activeTerminalId' = ts[i] /\ i \in 1 .. Len(ts)
    BY <1>1, <1>5 DEF Select
  <2>2. QED
    BY <1>1, <1>2, <2>1
<1>6. CASE UNCHANGED tabsVars
  BY <1>6 DEF TabsInv, OneTabPerNumber, OneIsShown, tabsVars
<1>7. QED
  BY <1>3, <1>4, <1>5, <1>6 DEF TabsNext

\* So does the tab there is at first.
LEMMA TabsInvInit == TabsInit => TabsInv
<1> SUFFICES ASSUME TabsInit
             PROVE  TabsInv
  OBVIOUS
<1>1. terminals = <<1>> /\ activeTerminalId = 1
  BY DEF TabsInit
<1>2. terminals \in Seq(Nat) /\ Len(terminals) = 1 /\ terminals[1] = 1
  BY <1>1
<1>3. Range(terminals) = {terminals[i] : i \in 1 .. Len(terminals)}
  BY <1>2, RangeIs
<1>4. QED
  BY <1>1, <1>2, <1>3 DEF TabsInv, OneTabPerNumber, OneIsShown

-----------------------------------------------------------------------------

\* The terminal keeps what TerminalSound says, for every number of connections, every
\* set of sizes and any number of faults.
THEOREM TerminalKeeps == TerminalsSpec => []TerminalSound
<1> DEFINE Both == AllInv /\ TabsInv
           Step == \/ TerminalNext /\ UNCHANGED tabsVars
                   \/ TabsNext /\ UNCHANGED terminalVars
<1>1. TerminalInit /\ TabsInit => Both
  BY AllInvInit, TabsInvInit
<1>2. Both /\ [Step]_<<terminalVars, tabsVars>> => Both'
  <2> SUFFICES ASSUME AllInv, TabsInv, [Step]_<<terminalVars, tabsVars>> PROVE AllInv' /\ TabsInv'
    OBVIOUS
  <2>1. [TerminalNext]_terminalVars /\ [TabsNext]_tabsVars
    OBVIOUS
  <2>2. QED
    BY <2>1, AllInvStep, TabsInvStep
<1>3. Both => TerminalSound
  BY TerminalKept DEF TerminalSound, TabsInv
<1>4. QED
  BY <1>1, <1>2, <1>3, PTL DEF TerminalsSpec
====
